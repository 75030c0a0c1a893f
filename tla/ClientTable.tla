---------------------------- MODULE ClientTable ----------------------------
(***************************************************************************)
(* What the server relies on in client_map.c: a table from client ids to   *)
(* ClientInfo pointers.  A pointer belongs to one client at a time and     *)
(* does not move while its client is in the table (the kernel writes the   *)
(* peer's address through it when an accept completes).                    *)
(***************************************************************************)
EXTENDS Functions

CONSTANTS Id, Info

VARIABLE table    \* a function from the ids in the table to their pointers

Init == table = [id \in {} |-> id]

Insert(id, info) ==
    /\ id \notin DOMAIN table
    /\ info \notin Range(table)
    /\ table' = [x \in DOMAIN table \cup {id} |->
                    IF x = id THEN info ELSE table[x]]

Delete(id) ==
    /\ id \in DOMAIN table
    /\ table' = Restrict(table, DOMAIN table \ {id})

Next ==
    \E id \in Id :
        \/ \E info \in Info : Insert(id, info)
        \/ Delete(id)

Spec == Init /\ [][Next]_table
=============================================================================
