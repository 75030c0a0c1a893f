------------------------------ MODULE MCGroups ------------------------------
(* Groups are interchangeable: malloc may return any of them.              *)
EXTENDS Groups, TLC

GrpSymmetry == Permutations(Grp)
=============================================================================
