------------------------------ MODULE MCServer ------------------------------
(* Small instances of Server.  The allocators choose the lowest free item: *)
(* Operations and buffers are interchangeable, so nothing is lost.         *)
EXTENDS Server, TLC

MCOffer(S) == {i \in S : \A j \in S : i <= j}

ConnSymmetry == Permutations(Conn)
=============================================================================
