----------------------------- MODULE PoolProofs -----------------------------
(***************************************************************************)
(* The two allocators: op_pool.c for any number of Operations and any      *)
(* initial capacities, slab.c for any number of buffers and references.    *)
(* IInv and SlabInv are inductive, the contract of op_pool.h is kept, and  *)
(* every step of either is a step of RefPool, or none.                     *)
(***************************************************************************)
EXTENDS OpPool, Slab, SeqLemmas

-----------------------------------------------------------------------------
(* op_pool.c.                                                              *)

USE DEF op_pool_get

\* What IInv says of one state, in the terms of SeqLemmas.
LEMMA OpPoolFacts ==
    ASSUME IInv
    PROVE  /\ free_ops_idx \in Seq(PoolId) /\ Distinct(free_ops_idx)
           /\ Len(free_ops_idx) \in Nat
           /\ Range(free_ops_idx) \subseteq PoolId
           /\ \A o \in PoolId :
                  o \in Range(free_ops_idx) <=> o < ops_next_idx /\ lent[o] = 0
<1>1. PoolTypeOK /\ FreeOrLent
  BY DEF IInv
<1>2. free_ops_idx \in Seq(PoolId)
  BY <1>1 DEF PoolTypeOK
<1>3. Distinct(free_ops_idx)
  BY <1>1 DEF FreeOrLent, Distinct
<1> QED BY <1>1, <1>2, <1>3, SeqRange, LenProperties DEF FreeOrLent

\* op_pool_init_with_cap establishes the invariant.
LEMMA OpPoolInit == PoolInit => IInv
<1> SUFFICES ASSUME PoolInit PROVE IInv
  OBVIOUS
<1> USE OpPoolAssumption DEF PoolInit, op_pool_init_with_cap
<1>1. free_ops_idx \in Seq(PoolId) /\ Len(free_ops_idx) = 0
  BY EmptySeq
<1>2. \A x : x \notin Range(free_ops_idx)
  BY EmptyRange, Zenon
<1>3. PoolTypeOK
  BY <1>1 DEF PoolTypeOK
<1>4. FreeOrLent
  BY <1>1, <1>2 DEF FreeOrLent, PoolId
<1>5. WithinCapacity
  BY <1>1 DEF WithinCapacity
<1> QED BY <1>2, <1>3, <1>4, <1>5 DEF IInv

\* A reused Operation has no caller and honours the contract.
LEMMA ReuseEntry ==
    ASSUME IInv, NEW o \in PoolId, reuse_entry(o)
    PROVE  /\ lent[o] = 0 /\ o < ops_next_idx /\ o \in clean
           /\ free_ops_idx' \in Seq(PoolId)
           /\ Distinct(free_ops_idx')
           /\ Len(free_ops_idx') = Len(free_ops_idx) - 1
           /\ Range(free_ops_idx') = Range(free_ops_idx) \ {o}
           /\ UNCHANGED <<ops_next_idx, ops_cap, clean>>
<1>1. /\ free_ops_idx' \in Seq(PoolId)
      /\ Distinct(free_ops_idx')
      /\ Len(free_ops_idx') = Len(free_ops_idx) - 1
      /\ Range(free_ops_idx') = Range(free_ops_idx) \ {o}
      /\ o \in Range(free_ops_idx)
  BY OpPoolFacts, FrontDistinct DEF reuse_entry
<1>2. lent[o] = 0 /\ o < ops_next_idx
  BY <1>1, OpPoolFacts
<1>3. o \in clean
  BY <1>1 DEF IInv
<1> QED BY <1>1, <1>2, <1>3 DEF reuse_entry

\* op_pool_new_entry preserves the invariant, hands out an Operation nobody
\* has, and hands it out clean.
LEMMA OpPoolNewEntry ==
    ASSUME IInv, ops_cap # 0, NEW o \in PoolId, op_pool_new_entry(o)
    PROVE  IInv' /\ Promise!Acquire(o, 1) /\ o \in clean'
<1> USE OpPoolAssumption
<1>1. PoolTypeOK /\ FreeOrLent /\ WithinCapacity
  BY DEF IInv
<1>2. /\ lent' = [lent EXCEPT ![o] = lent[o] + 1]
      /\ free_ops_cap' = free_ops_cap
  BY DEF op_pool_new_entry
<1>3. /\ lent[o] = 0
      /\ o \in clean' /\ clean \subseteq clean' /\ clean' \subseteq PoolId
      /\ free_ops_idx' \in Seq(PoolId)
      /\ Distinct(free_ops_idx')
      /\ Len(free_ops_idx') <= Len(free_ops_idx)
      /\ Range(free_ops_idx') = Range(free_ops_idx) \ {o}
      /\ ops_next_idx' \in 0..MaxOps
      /\ o < ops_next_idx'
      /\ \A p \in PoolId \ {o} : p < ops_next_idx' <=> p < ops_next_idx
      /\ ops_cap' \in Nat \ {0}
      /\ ops_next_idx' <= ops_cap'
  <2>1. CASE reuse_entry(o)
    <3>1. UNCHANGED <<ops_next_idx, ops_cap, clean>>
      BY <2>1 DEF reuse_entry
    <3>2. Len(free_ops_idx') <= Len(free_ops_idx)
      BY <2>1, ReuseEntry, OpPoolFacts
    <3> QED BY <2>1, <3>1, <3>2, <1>1, ReuseEntry DEF PoolTypeOK, WithinCapacity
  <2>2. CASE alloc_entry(o)
    <3>1. /\ o = ops_next_idx
          /\ ops_cap' = IF ops_next_idx = ops_cap THEN ops_cap * 2 ELSE ops_cap
          /\ ops_next_idx' = ops_next_idx + 1
          /\ clean' = clean \cup {o}
          /\ free_ops_idx' = free_ops_idx
      BY <2>2 DEF alloc_entry
    <3>2. ops_next_idx \in Nat /\ ops_cap \in Nat \ {0} /\ ops_next_idx <= ops_cap
      BY <1>1 DEF PoolTypeOK, WithinCapacity
    <3>3. lent[o] = 0
      <4>1. ~(o < ops_next_idx)
        BY <3>1, <3>2
      <4> QED BY <4>1 DEF IInv
    <3>4. o \notin Range(free_ops_idx)
      BY <3>1, <3>2, OpPoolFacts
    <3>5. /\ ops_next_idx' \in 0..MaxOps
          /\ o < ops_next_idx'
          /\ \A p \in PoolId \ {o} : p < ops_next_idx' <=> p < ops_next_idx
      BY <3>1, <3>2 DEF PoolId
    <3>6. ops_cap' \in Nat \ {0} /\ ops_next_idx' <= ops_cap'
      BY <3>1, <3>2
    <3>7. clean' \subseteq PoolId /\ clean \subseteq clean' /\ o \in clean'
      BY <3>1, <1>1 DEF PoolTypeOK
    <3>8. /\ free_ops_idx' \in Seq(PoolId)
          /\ Distinct(free_ops_idx')
          /\ Range(free_ops_idx') = Range(free_ops_idx) \ {o}
      BY <3>1, <3>4, OpPoolFacts, Zenon
    <3>9. Len(free_ops_idx') <= Len(free_ops_idx)
      BY <3>1, OpPoolFacts
    <3> QED BY <3>3, <3>5, <3>6, <3>7, <3>8, <3>9
  <2> QED BY <2>1, <2>2 DEF op_pool_new_entry
<1>4. lent' \in [PoolId -> Nat] /\ lent'[o] = 1 /\ \A p \in PoolId \ {o} : lent'[p] = lent[p]
  BY <1>1, <1>2, <1>3 DEF PoolTypeOK
<1>5. PoolTypeOK'
  BY <1>1, <1>2, <1>3, <1>4 DEF PoolTypeOK
<1>6. FreeOrLent'
  <2>1. \A p \in PoolId : p \in Range(free_ops_idx') <=> p < ops_next_idx' /\ lent'[p] = 0
    BY <1>3, <1>4, OpPoolFacts
  <2> QED BY <1>3, <2>1 DEF FreeOrLent, Distinct
<1>7. WithinCapacity'
  <2>1. Len(free_ops_idx') \in Nat
    BY <1>3, LenProperties
  <2> QED BY <1>1, <1>2, <1>3, <2>1, OpPoolFacts DEF WithinCapacity, PoolTypeOK
<1>8. \A p \in PoolId :
          lent'[p] \in 0..1 /\ (lent'[p] = 1 /\ ops_cap' # 0 => p < ops_next_idx')
  BY <1>3, <1>4 DEF IInv
<1>9. \A p \in Range(free_ops_idx') : p \in clean'
  BY <1>3 DEF IInv
<1>10. Promise!Acquire(o, 1)
  BY <1>2, <1>3 DEF Promise!Acquire
<1>11. ops_cap' = 0 <=> free_ops_cap' = 0
  BY <1>2, <1>3 DEF IInv
<1> QED BY <1>3, <1>5, <1>6, <1>7, <1>8, <1>9, <1>10, <1>11 DEF IInv

\* A caller that fills in or clears its Operation disturbs no Operation on the
\* free list.
LEMMA OpPoolUseEntry ==
    ASSUME IInv, NEW o \in PoolId, use_entry(o) \/ clear_entry(o)
    PROVE  IInv' /\ lent' = lent
<1>1. /\ lent[o] > 0 /\ clean \ {o} \subseteq clean' /\ clean' \subseteq clean \cup {o}
      /\ UNCHANGED <<ops_next_idx, ops_cap, free_ops_idx, free_ops_cap, lent>>
  BY DEF use_entry, clear_entry
<1>2. PoolTypeOK' /\ FreeOrLent' /\ WithinCapacity'
  BY <1>1 DEF IInv, PoolTypeOK, FreeOrLent, WithinCapacity
<1>3. o \notin Range(free_ops_idx)
  BY <1>1, OpPoolFacts
<1>4. \A p \in Range(free_ops_idx') : p \in clean'
  BY <1>1, <1>3 DEF IInv
<1>5. \A p \in PoolId :
          lent'[p] \in 0..1 /\ (lent'[p] = 1 /\ ops_cap' # 0 => p < ops_next_idx')
  BY <1>1 DEF IInv
<1> QED BY <1>1, <1>2, <1>4, <1>5 DEF IInv

\* op_pool_return preserves the invariant and takes one Operation back.
LEMMA OpPoolReturn ==
    ASSUME IInv, ops_cap # 0, NEW o \in PoolId, op_pool_return(o)
    PROVE  IInv' /\ Promise!Release(o)
<1> USE OpPoolAssumption
<1>1. PoolTypeOK /\ FreeOrLent /\ WithinCapacity
  BY DEF IInv
<1>2. /\ lent[o] > 0
      /\ o \in clean /\ clean' = clean
      /\ free_ops_cap' = IF Len(free_ops_idx) = free_ops_cap THEN free_ops_cap * 2 ELSE free_ops_cap
      /\ free_ops_idx' = Append(free_ops_idx, o)
      /\ lent' = [lent EXCEPT ![o] = lent[o] - 1]
      /\ UNCHANGED <<ops_next_idx, ops_cap>>
  BY DEF op_pool_return
<1>3. lent[o] = 1 /\ o < ops_next_idx
  BY <1>2 DEF IInv
<1>4. lent' \in [PoolId -> Nat] /\ lent'[o] = 0 /\ \A p \in PoolId \ {o} : lent'[p] = lent[p]
  BY <1>1, <1>2, <1>3 DEF PoolTypeOK
<1>5. o \notin Range(free_ops_idx)
  BY <1>2, OpPoolFacts
<1>6. /\ free_ops_idx' \in Seq(PoolId)
      /\ Len(free_ops_idx') = Len(free_ops_idx) + 1
      /\ Range(free_ops_idx') = Range(free_ops_idx) \cup {o}
      /\ Distinct(free_ops_idx')
  BY <1>2, <1>5, OpPoolFacts, AppendDistinct
<1>7. free_ops_cap' \in Nat \ {0} /\ Len(free_ops_idx') <= free_ops_cap'
  <2>1. free_ops_cap \in Nat \ {0}
    BY <1>1 DEF IInv, PoolTypeOK
  <2> QED BY <1>1, <1>2, <1>6, <2>1, OpPoolFacts DEF WithinCapacity
<1>8. PoolTypeOK'
  BY <1>1, <1>2, <1>4, <1>6, <1>7 DEF PoolTypeOK
<1>9. FreeOrLent'
  <2>1. \A p \in PoolId : p \in Range(free_ops_idx') <=> p < ops_next_idx' /\ lent'[p] = 0
    BY <1>2, <1>3, <1>4, <1>6, OpPoolFacts
  <2> QED BY <1>6, <2>1 DEF FreeOrLent, Distinct
<1>10. WithinCapacity'
  BY <1>1, <1>2, <1>7 DEF WithinCapacity
<1>11. \A p \in PoolId :
           lent'[p] \in 0..1 /\ (lent'[p] = 1 /\ ops_cap' # 0 => p < ops_next_idx')
  BY <1>2, <1>4 DEF IInv
<1>12. \A p \in Range(free_ops_idx') : p \in clean'
  BY <1>2, <1>6 DEF IInv
<1>13. Promise!Release(o)
  BY <1>2 DEF Promise!Release
<1>14. ops_cap' = 0 <=> free_ops_cap' = 0
  BY <1>2, <1>7
<1> QED BY <1>8, <1>9, <1>10, <1>11, <1>12, <1>13, <1>14 DEF IInv

\* op_pool_deinit preserves the invariant.
LEMMA OpPoolDeinit ==
    ASSUME IInv, op_pool_deinit
    PROVE  IInv' /\ lent' = lent
<1>1. PoolTypeOK
  BY DEF IInv
<1>2. /\ ops_next_idx' = 0 /\ ops_cap' = 0 /\ free_ops_idx' = <<>> /\ free_ops_cap' = 0
      /\ clean' = {} /\ lent' = lent
  BY DEF op_pool_deinit
<1>3. free_ops_idx' \in Seq(PoolId) /\ Len(free_ops_idx') = 0
  BY <1>2, EmptySeq
<1>4. \A x : x \notin Range(free_ops_idx')
  BY <1>2, EmptyRange, Zenon
<1>5. PoolTypeOK'
  BY <1>1, <1>2, <1>3, OpPoolAssumption DEF PoolTypeOK
<1>6. FreeOrLent'
  BY <1>2, <1>3, <1>4 DEF FreeOrLent, PoolId
<1>7. WithinCapacity'
  BY <1>2, <1>3 DEF WithinCapacity
<1> QED BY <1>2, <1>4, <1>5, <1>6, <1>7 DEF IInv

\* The invariant is inductive.
LEMMA OpPoolNext == IInv /\ [PoolNext]_PoolVars => IInv'
<1> SUFFICES ASSUME IInv, [PoolNext]_PoolVars PROVE IInv'
  OBVIOUS
<1>1. CASE UNCHANGED PoolVars
  BY <1>1 DEF PoolVars, IInv, PoolTypeOK, FreeOrLent, WithinCapacity
<1>2. CASE PoolNext
  BY <1>1, <1>2, OpPoolNewEntry, OpPoolUseEntry, OpPoolReturn, OpPoolDeinit DEF PoolNext, PoolGone
<1> QED BY <1>1, <1>2

\* Every behaviour of op_pool.c satisfies the invariant.
THEOREM OpPoolInvariant == PoolSpec => []IInv
BY OpPoolInit, OpPoolNext, PTL DEF PoolSpec

\* No Operation is handed out twice and none is lost (op_pool_new_entry,
\* op_pool_return), for any number of Operations.
THEOREM OpPoolFreeOrLent == PoolSpec => []FreeOrLent
<1>1. IInv => FreeOrLent
  BY DEF IInv
<1> QED BY <1>1, OpPoolInvariant, PTL

\* Neither array of the pool is written behind its end.
THEOREM OpPoolWithinCapacity == PoolSpec => []WithinCapacity
<1>1. IInv => WithinCapacity
  BY DEF IInv
<1> QED BY <1>1, OpPoolInvariant, PTL

\* The contract of op_pool.h holds though a reused Operation is not reset.
THEOREM OpPoolContract == PoolSpec => CleanOnEntry
<1>1. IInv /\ [PoolNext]_PoolVars => [\A o \in PoolId : lent'[o] > lent[o] => o \in clean']_PoolVars
  <2> SUFFICES ASSUME IInv, PoolNext, NEW p \in PoolId, lent'[p] > lent[p]
               PROVE  p \in clean'
    OBVIOUS
  <2>1. lent \in [PoolId -> Nat]
    BY DEF IInv, PoolTypeOK
  <2>2. lent' # lent
    BY <2>1
  <2>3. ops_cap # 0
    BY <2>2 DEF PoolNext, PoolGone, PoolVars
  <2>4. PICK o \in PoolId : \/ op_pool_new_entry(o) \/ use_entry(o)
                            \/ clear_entry(o) \/ op_pool_return(o)
    BY <2>2, OpPoolDeinit DEF PoolNext, PoolGone, PoolVars
  <2>5. CASE op_pool_new_entry(o)
    <3>1. lent' = [lent EXCEPT ![o] = lent[o] + 1]
      BY <2>5 DEF op_pool_new_entry
    <3>2. p = o
      BY <2>1, <3>1
    <3> QED BY <2>3, <2>5, <3>2, OpPoolNewEntry
  <2>6. CASE use_entry(o) \/ clear_entry(o)
    BY <2>2, <2>6, OpPoolUseEntry
  <2>7. CASE op_pool_return(o)
    <3>1. lent' = [lent EXCEPT ![o] = lent[o] - 1]
      BY <2>7 DEF op_pool_return
    <3> QED BY <2>1, <3>1
  <2> QED BY <2>4, <2>5, <2>6, <2>7
<1> QED BY <1>1, OpPoolInvariant, PTL DEF PoolSpec, CleanOnEntry

\* op_pool.c keeps the promise of RefPool to its callers.
THEOREM OpPoolPromise == PoolSpec => PromiseSpec
<1>1. PoolInit => Promise!Init
  BY DEF PoolInit, op_pool_init_with_cap, Promise!Init
<1>2. IInv /\ [PoolNext]_PoolVars => [Promise!Next]_lent
  <2> SUFFICES ASSUME IInv, [PoolNext]_PoolVars PROVE [Promise!Next]_lent
    OBVIOUS
  <2>1. CASE UNCHANGED PoolVars
    BY <2>1 DEF PoolVars
  <2>2. ASSUME ops_cap # 0, NEW o \in PoolId, op_pool_new_entry(o) PROVE Promise!Next
    BY <2>2, OpPoolNewEntry DEF Promise!Next
  <2>3. ASSUME NEW o \in PoolId, use_entry(o) \/ clear_entry(o) PROVE lent' = lent
    BY <2>3, OpPoolUseEntry
  <2>4. ASSUME ops_cap # 0, NEW o \in PoolId, op_pool_return(o) PROVE Promise!Next
    BY <2>4, OpPoolReturn DEF Promise!Next
  <2>5. ASSUME op_pool_deinit PROVE lent' = lent
    BY <2>5, OpPoolDeinit
  <2> QED BY <2>1, <2>2, <2>3, <2>4, <2>5 DEF PoolNext, PoolGone
<1> QED BY <1>1, <1>2, OpPoolInvariant, PTL DEF PoolSpec, PromiseSpec, Promise!Spec

-----------------------------------------------------------------------------
(* slab.c.                                                                 *)

\* slab_init_cap establishes the invariant.
LEMMA SlabStarts == SlabInit => SlabInv
<1> SUFFICES ASSUME SlabInit PROVE SlabInv
  OBVIOUS
<1> USE SlabAssumption DEF SlabInit, slab_init_cap
<1>1. Len(InitBufs) \in Nat \ {0}
  BY EmptySeq
<1>2. Range(InitBufs) \subseteq Buf
  BY SeqRange
<1>3. SlabTypeOK
  BY <1>1, <1>2 DEF SlabTypeOK
<1>4. FreeOrHeld
  BY <1>2 DEF FreeOrHeld
<1>5. SlabHasRoom
  BY <1>1 DEF SlabHasRoom
<1> QED BY <1>3, <1>4, <1>5 DEF SlabInv

\* slab_acquire preserves the invariant, and takes a buffer nobody holds.
LEMMA SlabAcquire ==
    ASSUME SlabInv, NEW b \in Buf, NEW n \in 1..MaxRef, slab_acquire(b, n)
    PROVE  SlabInv' /\ SlabPromise!Acquire(b, n)
<1> USE SlabAssumption
<1>1. SlabTypeOK /\ FreeOrHeld /\ SlabHasRoom
  BY DEF SlabInv
<1>2. n \in Nat /\ n > 0
  OBVIOUS
<1>3. Distinct(buf_refs)
  BY <1>1 DEF FreeOrHeld, Distinct
<1>4. /\ held[b] = 0
      /\ b \notin Range(buf_refs')
      /\ b \in allocated'
      /\ allocated' \subseteq Buf
      /\ buf_refs' \in Seq(Buf)
      /\ Distinct(buf_refs')
      /\ Len(buf_refs') <= Len(buf_refs)
      /\ \A c \in Buf \ {b} : /\ c \in Range(buf_refs') <=> c \in Range(buf_refs)
                              /\ c \in allocated' <=> c \in allocated
  <2>1. CASE buf_refs # <<>> /\ b = buf_refs[Len(buf_refs)]
             /\ buf_refs' = SubSeq(buf_refs, 1, Len(buf_refs) - 1)
             /\ UNCHANGED allocated
    <3>1. buf_refs \in Seq(Buf)
      BY <1>1 DEF SlabTypeOK
    <3>2. /\ buf_refs' \in Seq(Buf)
          /\ Len(buf_refs') = Len(buf_refs) - 1
          /\ Distinct(buf_refs')
          /\ Range(buf_refs') = Range(buf_refs) \ {b}
          /\ b \in Range(buf_refs)
      BY <2>1, <3>1, <1>3, FrontDistinct
    <3>3. b \in allocated /\ held[b] = 0
      BY <3>2, <1>1 DEF FreeOrHeld
    <3>4. Len(buf_refs') <= Len(buf_refs)
      BY <3>1, <3>2, LenProperties
    <3>5. allocated' = allocated /\ allocated \subseteq Buf
      BY <2>1, <1>1 DEF SlabTypeOK
    <3> QED BY <3>2, <3>3, <3>4, <3>5, Zenon
  <2>2. CASE buf_refs = <<>> /\ malloc_buf_ref(b) /\ UNCHANGED buf_refs
    <3>1. b \notin allocated /\ allocated' = allocated \cup {b}
      BY <2>2 DEF malloc_buf_ref
    <3>2. b \notin Range(buf_refs)
      BY <3>1, <1>1 DEF FreeOrHeld
    <3>3. held[b] = 0
      BY <3>1, <1>1 DEF SlabInv, SlabTypeOK
    <3> QED BY <2>2, <3>1, <3>2, <3>3, <1>1, <1>3 DEF SlabTypeOK
  <2> QED BY <2>1, <2>2 DEF slab_acquire
<1>5. /\ ref' = [ref EXCEPT ![b] = n]
      /\ held' = [held EXCEPT ![b] = n]
      /\ cap' = cap
  BY <1>1, <1>2, <1>4 DEF slab_acquire, SlabTypeOK
<1>6. SlabTypeOK'
  BY <1>1, <1>2, <1>4, <1>5 DEF SlabTypeOK
<1>7. FreeOrHeld'
  <2>1. \A c \in Buf : c # b => held'[c] = held[c]
    BY <1>1, <1>5 DEF SlabTypeOK
  <2>2. held'[b] = n
    BY <1>1, <1>5 DEF SlabTypeOK
  <2>3. \A c \in Buf : c \in Range(buf_refs') <=> c \in allocated' /\ held'[c] = 0
    BY <1>1, <1>2, <1>4, <2>1, <2>2 DEF FreeOrHeld
  <2> QED BY <1>4, <2>3 DEF FreeOrHeld, Distinct
<1>8. SlabHasRoom'
  BY <1>1, <1>4, <1>5 DEF SlabHasRoom, SlabTypeOK
<1>9. \A c \in Buf : ref'[c] = held'[c] /\ (held'[c] > 0 => c \in allocated')
  BY <1>1, <1>4, <1>5 DEF SlabInv, SlabTypeOK
<1>10. SlabPromise!Acquire(b, n)
  BY <1>4, <1>5 DEF SlabPromise!Acquire
<1> QED BY <1>6, <1>7, <1>8, <1>9, <1>10 DEF SlabInv

\* slab_release preserves the invariant, and gives one reference back.
LEMMA SlabRelease ==
    ASSUME SlabInv, cap # 0, NEW b \in Buf, slab_release(b)
    PROVE  SlabInv' /\ SlabPromise!Release(b)
<1> USE SlabAssumption
<1>1. SlabTypeOK /\ FreeOrHeld /\ SlabHasRoom
  BY DEF SlabInv
<1>2. /\ held[b] > 0 /\ held[b] \in Nat /\ ref[b] = held[b] /\ b \in allocated
      /\ ref' = [ref EXCEPT ![b] = ref[b] - 1]
      /\ held' = [held EXCEPT ![b] = held[b] - 1]
      /\ allocated' = allocated
  BY <1>1 DEF SlabInv, SlabTypeOK, slab_release
<1>3. /\ ref' \in [Buf -> Nat] /\ held' \in [Buf -> Nat]
      /\ \A c \in Buf : ref'[c] = held'[c] /\ (held'[c] > 0 => c \in allocated')
      /\ \A c \in Buf \ {b} : held'[c] = held[c]
      /\ held'[b] = held[b] - 1
  BY <1>1, <1>2 DEF SlabInv, SlabTypeOK
<1>4. SlabPromise!Release(b)
  BY <1>2 DEF SlabPromise!Release
<1>5. Distinct(buf_refs) /\ b \notin Range(buf_refs) /\ buf_refs \in Seq(Buf)
  BY <1>1, <1>2 DEF FreeOrHeld, Distinct, SlabTypeOK
<1>6. CASE ref'[b] # 0
  <2>1. UNCHANGED <<cap, buf_refs>>
    BY <1>6 DEF slab_release
  <2>2. SlabTypeOK'
    BY <1>1, <1>2, <1>3, <2>1 DEF SlabTypeOK
  <2>3. held'[b] # 0
    BY <1>3, <1>6
  <2>4. FreeOrHeld'
    BY <1>1, <1>2, <1>3, <1>5, <2>1, <2>3 DEF FreeOrHeld
  <2>5. SlabHasRoom'
    BY <1>1, <2>1 DEF SlabHasRoom
  <2> QED BY <1>3, <1>4, <2>2, <2>4, <2>5 DEF SlabInv
<1>7. CASE ref'[b] = 0
  <2>1. /\ cap' = IF cap = Len(buf_refs) THEN cap * 2 ELSE cap
        /\ buf_refs' = Append(buf_refs, b)
    BY <1>7 DEF slab_release
  <2>2. /\ buf_refs' \in Seq(Buf)
        /\ Len(buf_refs') = Len(buf_refs) + 1
        /\ Range(buf_refs') = Range(buf_refs) \cup {b}
        /\ Distinct(buf_refs')
    BY <2>1, <1>5, AppendDistinct
  <2>3. cap' \in Nat /\ Len(buf_refs') <= cap'
    BY <1>1, <1>5, <2>1, <2>2, LenProperties DEF SlabTypeOK, SlabHasRoom
  <2>4. SlabTypeOK'
    BY <1>1, <1>2, <1>3, <2>2, <2>3 DEF SlabTypeOK
  <2>5. held'[b] = 0
    BY <1>3, <1>7
  <2>6. FreeOrHeld'
    <3>1. \A c \in Buf : c \in Range(buf_refs') <=> c \in allocated' /\ held'[c] = 0
      BY <1>1, <1>2, <1>3, <2>2, <2>5 DEF FreeOrHeld
    <3> QED BY <3>1, <2>2 DEF FreeOrHeld, Distinct
  <2> QED BY <1>3, <1>4, <2>3, <2>4, <2>6 DEF SlabInv, SlabHasRoom
<1> QED BY <1>6, <1>7

\* slab_deinit preserves the invariant: what the array held was all that no
\* caller has.
LEMMA SlabDeinit ==
    ASSUME SlabInv, slab_deinit
    PROVE  SlabInv' /\ held' = held
<1>1. SlabTypeOK /\ FreeOrHeld
  BY DEF SlabInv
<1>2. /\ allocated' = allocated \ Range(buf_refs)
      /\ buf_refs' = <<>> /\ cap' = 0 /\ ref' = ref /\ held' = held
  BY DEF slab_deinit
<1>3. buf_refs' \in Seq(Buf) /\ Len(buf_refs') = 0
  BY <1>2, EmptySeq
<1>4. \A x : x \notin Range(buf_refs')
  BY <1>2, EmptyRange, Zenon
<1>5. SlabTypeOK'
  BY <1>1, <1>2, <1>3 DEF SlabTypeOK
<1>6. FreeOrHeld'
  BY <1>1, <1>2, <1>3, <1>4 DEF FreeOrHeld
<1>7. SlabHasRoom'
  BY <1>2, <1>3 DEF SlabHasRoom
<1>8. \A b \in Buf : ref'[b] = held'[b] /\ (held'[b] > 0 => b \in allocated')
  <2>1. \A b \in Buf : held[b] > 0 => b \in allocated /\ b \notin Range(buf_refs)
    BY <1>1 DEF SlabInv, FreeOrHeld
  <2> QED BY <1>2, <2>1 DEF SlabInv
<1> QED BY <1>2, <1>5, <1>6, <1>7, <1>8 DEF SlabInv

\* The invariant is inductive.
LEMMA SlabStep == SlabInv /\ [SlabNext]_SlabVars => SlabInv'
<1> SUFFICES ASSUME SlabInv, [SlabNext]_SlabVars PROVE SlabInv'
  OBVIOUS
<1>1. CASE UNCHANGED SlabVars
  BY <1>1 DEF SlabVars, SlabInv, SlabTypeOK, FreeOrHeld, SlabHasRoom
<1>2. CASE SlabNext
  BY <1>1, <1>2, SlabAcquire, SlabRelease, SlabDeinit DEF SlabNext, SlabGone
<1> QED BY <1>1, <1>2

\* Every behaviour of slab.c satisfies the invariant.
THEOREM SlabInvariant == SlabSpec => []SlabInv
BY SlabStarts, SlabStep, PTL DEF SlabSpec

\* No buffer is handed out while it is in use, and none is lost (slab_acquire,
\* slab_release), for any number of buffers and references.
THEOREM SlabFreeOrHeld == SlabSpec => []FreeOrHeld
<1>1. SlabInv => FreeOrHeld
  BY DEF SlabInv
<1> QED BY <1>1, SlabInvariant, PTL

\* slab_release never stores behind the end of the array.
THEOREM SlabWithinCapacity == SlabSpec => []SlabHasRoom
<1>1. SlabInv => SlabHasRoom
  BY DEF SlabInv
<1> QED BY <1>1, SlabInvariant, PTL

\* slab.c keeps the promise of RefPool to its callers.
THEOREM SlabImplements == SlabSpec => SlabPromiseSpec
<1>1. SlabInit => SlabPromise!Init
  BY DEF SlabInit, slab_init_cap, SlabPromise!Init
<1>2. SlabInv /\ [SlabNext]_SlabVars => [SlabPromise!Next]_held
  <2> SUFFICES ASSUME SlabInv, [SlabNext]_SlabVars PROVE [SlabPromise!Next]_held
    OBVIOUS
  <2>1. CASE UNCHANGED SlabVars
    BY <2>1 DEF SlabVars
  <2>2. ASSUME NEW b \in Buf, NEW n \in 1..MaxRef, slab_acquire(b, n)
        PROVE  SlabPromise!Next
    BY <2>2, SlabAcquire DEF SlabPromise!Next
  <2>3. ASSUME cap # 0, NEW b \in Buf, slab_release(b) PROVE SlabPromise!Next
    BY <2>3, SlabRelease DEF SlabPromise!Next
  <2>4. ASSUME slab_deinit PROVE held' = held
    BY <2>4, SlabDeinit
  <2> QED BY <2>1, <2>2, <2>3, <2>4 DEF SlabNext, SlabGone
<1> QED BY <1>1, <1>2, SlabInvariant, PTL DEF SlabSpec, SlabPromiseSpec, SlabPromise!Spec
=============================================================================
