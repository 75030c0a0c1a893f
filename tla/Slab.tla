-------------------------------- MODULE Slab --------------------------------
(***************************************************************************)
(* slab.c: reference-counted buffers of one size, recycled through the     *)
(* growable array buf_refs, which is used as a stack.  Only buf_refs[0 ..  *)
(* len-1] is ever read, so the array is the sequence of those entries and  *)
(* len is its length.  A malloc that fails ends the process (must_malloc). *)
(* What is not named after the code is called Slab..., so that a module    *)
(* can extend this one beside OpPool and ClientMap.                        *)
(***************************************************************************)
EXTENDS Naturals, Sequences, Functions

CONSTANTS Buf,       \* the buffers malloc can ever return (bounds the model)
          InitBufs,  \* the buffers slab_init_cap allocates, in array order
          MaxRef     \* the largest ref a caller passes to slab_acquire

\* A slab starts with room for at least one buffer (SLAB_INIT_CAP is 64): a
\* capacity of 0 would never grow, since growth doubles it.
ASSUME SlabAssumption ==
    /\ InitBufs \in Seq(Buf)
    /\ InitBufs # <<>>
    /\ \A i, j \in 1..Len(InitBufs) : InitBufs[i] = InitBufs[j] => i = j
    /\ MaxRef \in Nat

VARIABLES
    cap,        \* capacity of the buf_refs array, 0 once it is freed
    buf_refs,   \* the released buffers, the most recent one last
    ref,        \* ref[b]: the counter stored in the header of buffer b
    allocated,  \* the buffers malloc has returned so far
    held        \* held[b]: references to b that callers have yet to release

SlabVars == <<cap, buf_refs, ref, allocated, held>>

slab_init_cap ==
    /\ cap = Len(InitBufs)
    /\ buf_refs = InitBufs
    /\ allocated = Range(InitBufs)
    /\ ref = [b \in Buf |-> 0]
    /\ held = [b \in Buf |-> 0]

\* malloc returns a buffer that is not in use; where it lies is its choice.
malloc_buf_ref(b) ==
    /\ b \in Buf \ allocated
    /\ allocated' = allocated \cup {b}

\* The last released buffer is taken first; malloc is the fallback.
slab_acquire(b, n) ==
    /\ \/ /\ buf_refs # <<>>
          /\ b = buf_refs[Len(buf_refs)]
          /\ buf_refs' = SubSeq(buf_refs, 1, Len(buf_refs) - 1)
          /\ UNCHANGED allocated
       \/ /\ buf_refs = <<>>
          /\ malloc_buf_ref(b)
          /\ UNCHANGED buf_refs
    /\ ref' = [ref EXCEPT ![b] = n]
    /\ held' = [held EXCEPT ![b] = @ + n]
    /\ UNCHANGED cap

\* Mutations of slab_release: the counter is not consulted; the array is
\* grown one release too late.
slab_release_ignores_ref(b) ==
    /\ held[b] > 0
    /\ ref' = [ref EXCEPT ![b] = @ - 1]
    /\ held' = [held EXCEPT ![b] = @ - 1]
    /\ cap' = IF cap = Len(buf_refs) THEN cap * 2 ELSE cap
    /\ buf_refs' = Append(buf_refs, b)
    /\ UNCHANGED allocated

slab_release_grows_late(b) ==
    /\ held[b] > 0
    /\ ref' = [ref EXCEPT ![b] = @ - 1]
    /\ held' = [held EXCEPT ![b] = @ - 1]
    /\ IF ref'[b] # 0
       THEN UNCHANGED <<cap, buf_refs>>
       ELSE /\ cap' = IF cap < Len(buf_refs) THEN cap * 2 ELSE cap
            /\ buf_refs' = Append(buf_refs, b)
    /\ UNCHANGED allocated

\* A caller gives one of its references back.  The slab recycles the buffer
\* when the counter reaches 0 and doubles the array when it is full.
slab_release(b) ==
    /\ held[b] > 0
    /\ ref' = [ref EXCEPT ![b] = @ - 1]
    /\ held' = [held EXCEPT ![b] = @ - 1]
    /\ IF ref'[b] # 0
       THEN UNCHANGED <<cap, buf_refs>>
       ELSE /\ cap' = IF cap = Len(buf_refs) THEN cap * 2 ELSE cap
            /\ buf_refs' = Append(buf_refs, b)
    /\ UNCHANGED allocated

\* Mutation of slab_deinit: the buffer released last is forgotten.
slab_deinit_short ==
    /\ allocated' = allocated \ {buf_refs[i] : i \in 1..(Len(buf_refs) - 1)}
    /\ buf_refs' = <<>>
    /\ cap' = 0
    /\ UNCHANGED <<ref, held>>

\* The buffers in the array and the array are freed; the buffers that callers
\* still have are left to them.
slab_deinit ==
    /\ allocated' = allocated \ Range(buf_refs)
    /\ buf_refs' = <<>>
    /\ cap' = 0
    /\ UNCHANGED <<ref, held>>

SlabInit == slab_init_cap

\* The slab is not used after slab_deinit.
SlabGone == cap = 0 /\ UNCHANGED SlabVars

SlabNext ==
    \/ /\ cap # 0
       /\ \/ \E b \in Buf : (\E n \in 1..MaxRef : slab_acquire(b, n)) \/ slab_release(b)
          \/ slab_deinit
    \/ SlabGone

SlabSpec == SlabInit /\ [][SlabNext]_SlabVars
-----------------------------------------------------------------------------
SlabTypeOK ==
    /\ cap \in Nat
    /\ buf_refs \in Seq(Buf)
    /\ ref \in [Buf -> Nat]
    /\ allocated \subseteq Buf
    /\ held \in [Buf -> Nat]

\* Every buffer malloc has returned is either in the free array, exactly
\* once, or held by a caller, never both: slab_acquire cannot hand out a
\* buffer that is in use, and slab_deinit leaves none behind but those.
FreeOrHeld ==
    /\ \A i, j \in 1..Len(buf_refs) : buf_refs[i] = buf_refs[j] => i = j
    /\ \A b \in Buf : b \in Range(buf_refs) <=> b \in allocated /\ held[b] = 0

\* slab_release stores at index len only after making room for it, so the
\* array never holds more entries than its capacity.
SlabHasRoom == Len(buf_refs) <= cap

\* The inductive strengthening: the counter in the header agrees with the
\* references that are out, and only buffers that exist are held.
SlabInv ==
    /\ SlabTypeOK
    /\ FreeOrHeld
    /\ SlabHasRoom
    /\ \A b \in Buf : ref[b] = held[b]
    /\ \A b \in Buf : held[b] > 0 => b \in allocated

\* slab.c implements the promise of RefPool.
SlabPromise == INSTANCE RefPool WITH Item <- Buf, refs <- held
SlabPromiseSpec == SlabPromise!Spec
=============================================================================
