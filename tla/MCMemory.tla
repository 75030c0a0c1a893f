------------------------------ MODULE MCMemory ------------------------------
(* What the server recycles: Operations, buffers and the nodes of clients. *)
(* The three containers share nothing, so each is put to work while the    *)
(* others are as they were created.  The slab is created with two buffers, *)
(* as in tests/test_slab.c.  In the map three ids share a bucket and one   *)
(* does not, and its nodes are interchangeable: malloc may return any.     *)
EXTENDS OpPool, Slab, ClientMap, TLC

MCInitBufs == <<1, 2>>

NodeSymmetry == Permutations(Node)

MCInit == PoolInit /\ SlabInit /\ Init

MCNext ==
    \/ PoolNext /\ SlabInit /\ Init /\ UNCHANGED <<SlabVars, vars>>
    \/ SlabNext /\ PoolInit /\ Init /\ UNCHANGED <<PoolVars, vars>>
    \/ Next /\ PoolInit /\ SlabInit /\ UNCHANGED <<PoolVars, SlabVars>>

MCSpec == MCInit /\ [][MCNext]_<<PoolVars, SlabVars, vars>>
=============================================================================
