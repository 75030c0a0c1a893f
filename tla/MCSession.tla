----------------------------- MODULE MCSession ------------------------------
(* Usernames of 2, 3, 15 and 16 bytes and one with a blank; groups of no   *)
(* member, of two, and of one more than the limit of the instance.         *)
EXTENDS Session

MCUnames ==
    {[i \in 1..n |-> 97] : n \in {2, 3, 16}}
    \cup {[i \in 1..15 |-> 48 + (i % 10)], <<97, 32, 98>>}

MCUidLists == {<<>>, [i \in 1..2 |-> SeqId(i)], [i \in 1..3 |-> SeqId(i)]}
=============================================================================
