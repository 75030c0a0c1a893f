------------------------------ MODULE RefPool ------------------------------
(***************************************************************************)
(* What the allocators of the server promise to their callers, whatever    *)
(* free lists they keep: an item is handed out only when nobody holds it,  *)
(* and it becomes available again when the last of its holders gives it    *)
(* back.  op_pool.c implements it with one holder per Operation, slab.c    *)
(* with as many holders per buffer as the caller of slab_acquire asks for. *)
(***************************************************************************)
EXTENDS Naturals

CONSTANTS Item,      \* the items that can ever be handed out
          MaxRef     \* the most holders one acquisition may ask for

VARIABLE refs        \* refs[i]: the number of holders of item i

Init == refs = [i \in Item |-> 0]

\* A caller obtains an item nobody holds, on behalf of n holders.
Acquire(i, n) ==
    /\ refs[i] = 0
    /\ refs' = [refs EXCEPT ![i] = n]

\* One holder gives the item back.
Release(i) ==
    /\ refs[i] > 0
    /\ refs' = [refs EXCEPT ![i] = @ - 1]

Next ==
    \E i \in Item :
        \/ \E n \in 1..MaxRef : Acquire(i, n)
        \/ Release(i)

Spec == Init /\ [][Next]_refs
=============================================================================
