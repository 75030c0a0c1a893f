------------------------------- MODULE OpPool -------------------------------
(***************************************************************************)
(* op_pool.c: the pool of Operations.  An Operation is identified by its   *)
(* pool_id, its index in ops.  Only free_ops_idx[0 .. free_len-1] is ever  *)
(* read, so the array is the sequence of those entries.  The pool looks at *)
(* two fields of an Operation, client_fd and buf_ref; the model keeps      *)
(* whether they have the values -1 and NULL that the pool's contract asks. *)
(* What is not named after the code is called Pool..., as in Slab.         *)
(***************************************************************************)
EXTENDS Naturals, Sequences, Functions

CONSTANTS InitOpsCap,   \* op_pool_init_with_cap's ops_cap
          InitFreeCap,  \* op_pool_init_with_cap's free_cap
          MaxOps        \* bound of the model: Operations ever allocated

\* Growth doubles a capacity, so neither may start at 0 (1024 and 256).
ASSUME OpPoolAssumption ==
    /\ InitOpsCap \in Nat \ {0}
    /\ InitFreeCap \in Nat \ {0}
    /\ MaxOps \in Nat

\* The pool_ids of the model.
PoolId == 0..(MaxOps - 1)

VARIABLES
    ops_next_idx,  \* the number of Operations allocated so far
    ops_cap,       \* capacity of the array of Operations, 0 once it is freed
    free_ops_idx,  \* pool_ids of the returned Operations, most recent last
    free_ops_cap,  \* free_cap, the capacity of the free_ops_idx array
    clean,         \* the Operations with client_fd = -1 and buf_ref = NULL
    lent           \* lent[o]: callers that have Operation o and did not return it

PoolVars == <<ops_next_idx, ops_cap, free_ops_idx, free_ops_cap, clean, lent>>

op_pool_init_with_cap ==
    /\ ops_next_idx = 0
    /\ ops_cap = InitOpsCap
    /\ free_ops_idx = <<>>
    /\ free_ops_cap = InitFreeCap
    /\ clean = {}
    /\ lent = [o \in PoolId |-> 0]

\* The Operation returned most recently is reused as it is.
reuse_entry(o) ==
    /\ free_ops_idx # <<>>
    /\ o = free_ops_idx[Len(free_ops_idx)]
    /\ free_ops_idx' = SubSeq(free_ops_idx, 1, Len(free_ops_idx) - 1)
    /\ UNCHANGED <<ops_next_idx, ops_cap, clean>>

\* Without one, the next Operation is allocated, after growing a full array.
alloc_entry(o) ==
    /\ free_ops_idx = <<>>
    /\ o = ops_next_idx
    /\ ops_cap' = IF ops_next_idx = ops_cap THEN ops_cap * 2 ELSE ops_cap
    /\ ops_next_idx' = ops_next_idx + 1
    /\ clean' = clean \cup {o}
    /\ UNCHANGED free_ops_idx

\* Mutation of op_pool_new_entry: the reused entry stays in the free list.
op_pool_new_entry_keeps_free(o) ==
    /\ \/ /\ free_ops_idx # <<>>
          /\ o = free_ops_idx[Len(free_ops_idx)]
          /\ UNCHANGED <<ops_next_idx, ops_cap, clean, free_ops_idx>>
       \/ alloc_entry(o)
    /\ lent' = [lent EXCEPT ![o] = @ + 1]
    /\ UNCHANGED free_ops_cap

op_pool_new_entry(o) ==
    /\ reuse_entry(o) \/ alloc_entry(o)
    /\ lent' = [lent EXCEPT ![o] = @ + 1]
    /\ UNCHANGED free_ops_cap

\* op_pool_get finds the Operation of this pool_id: its assertion holds.
op_pool_get(o) == o < ops_next_idx

\* A caller fills in client_fd and buf_ref of an Operation it has.
use_entry(o) ==
    /\ lent[o] > 0
    /\ clean' = clean \ {o}
    /\ UNCHANGED <<ops_next_idx, ops_cap, free_ops_idx, free_ops_cap, lent>>

\* A caller that is done with its Operation clears the two fields (free_op).
clear_entry(o) ==
    /\ lent[o] > 0
    /\ clean' = clean \cup {o}
    /\ UNCHANGED <<ops_next_idx, ops_cap, free_ops_idx, free_ops_cap, lent>>

\* Mutations of op_pool_return: the assertions are missing; a full free list
\* is not grown.
op_pool_return_unclean(o) ==
    /\ lent[o] > 0
    /\ free_ops_cap' = IF Len(free_ops_idx) = free_ops_cap THEN free_ops_cap * 2
                       ELSE free_ops_cap
    /\ free_ops_idx' = Append(free_ops_idx, o)
    /\ lent' = [lent EXCEPT ![o] = @ - 1]
    /\ UNCHANGED <<ops_next_idx, ops_cap, clean>>

op_pool_return_no_grow(o) ==
    /\ lent[o] > 0
    /\ o \in clean
    /\ free_ops_idx' = Append(free_ops_idx, o)
    /\ lent' = [lent EXCEPT ![o] = @ - 1]
    /\ UNCHANGED <<ops_next_idx, ops_cap, free_ops_cap, clean>>

\* The pool_id goes on the free list.  An Operation that was not cleared fails
\* an assertion, and the process ends there: no step.
op_pool_return(o) ==
    /\ lent[o] > 0
    /\ o \in clean
    /\ free_ops_cap' = IF Len(free_ops_idx) = free_ops_cap THEN free_ops_cap * 2
                       ELSE free_ops_cap
    /\ free_ops_idx' = Append(free_ops_idx, o)
    /\ lent' = [lent EXCEPT ![o] = @ - 1]
    /\ UNCHANGED <<ops_next_idx, ops_cap, clean>>

\* Every Operation is freed, those that callers still have too, and both
\* arrays.
op_pool_deinit ==
    /\ ops_next_idx' = 0 /\ ops_cap' = 0
    /\ free_ops_idx' = <<>> /\ free_ops_cap' = 0
    /\ clean' = {}
    /\ UNCHANGED lent

PoolInit == op_pool_init_with_cap

\* The pool and its Operations are not used after op_pool_deinit.
PoolGone == ops_cap = 0 /\ UNCHANGED PoolVars

PoolNext ==
    \/ /\ ops_cap # 0
       /\ \/ \E o \in PoolId : \/ op_pool_new_entry(o) \/ use_entry(o)
                              \/ clear_entry(o) \/ op_pool_return(o)
          \/ op_pool_deinit
    \/ PoolGone

PoolSpec == PoolInit /\ [][PoolNext]_PoolVars
-----------------------------------------------------------------------------
PoolTypeOK ==
    /\ ops_next_idx \in 0..MaxOps
    /\ ops_cap \in Nat
    /\ free_ops_idx \in Seq(PoolId)
    /\ free_ops_cap \in Nat
    /\ clean \subseteq PoolId
    /\ lent \in [PoolId -> Nat]

\* Every allocated Operation is either on the free list, exactly once, or
\* with a caller, never both: a pool_id taken from a completion always names
\* an Operation of its own.
FreeOrLent ==
    /\ \A i, j \in 1..Len(free_ops_idx) :
           free_ops_idx[i] = free_ops_idx[j] => i = j
    /\ \A o \in PoolId :
           o \in Range(free_ops_idx) <=> o < ops_next_idx /\ lent[o] = 0

\* Both arrays are grown before the store that needs the room.
WithinCapacity ==
    /\ ops_next_idx <= ops_cap
    /\ Len(free_ops_idx) <= free_ops_cap

\* The contract of op_pool.h: an Operation comes out of the pool with
\* client_fd = -1 and buf = NULL, though a reused one is not reset: what the
\* assertions of op_pool_return have let in stays so on the free list.
CleanOnEntry == [][\A o \in PoolId : lent'[o] > lent[o] => o \in clean']_PoolVars

\* The inductive strengthening: an Operation has at most one caller, for
\* whom op_pool_get finds it, those on the free list honour the contract, and
\* the two arrays live equally long.
IInv ==
    /\ PoolTypeOK
    /\ FreeOrLent
    /\ WithinCapacity
    /\ \A o \in PoolId :
           lent[o] \in 0..1 /\ (lent[o] = 1 /\ ops_cap # 0 => op_pool_get(o))
    /\ \A o \in Range(free_ops_idx) : o \in clean
    /\ ops_cap = 0 <=> free_ops_cap = 0

\* op_pool.c implements the promise of RefPool, one holder per Operation.
Promise == INSTANCE RefPool
    WITH Item <- PoolId, MaxRef <- 1, refs <- lent
PromiseSpec == Promise!Spec
=============================================================================
