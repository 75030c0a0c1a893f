----------------------------- MODULE ClientMap -----------------------------
(***************************************************************************)
(* client_map.c: a hash table of singly linked lists of ClientInfo nodes,  *)
(* with the deleted nodes kept in the growable array free.  Only           *)
(* free[0 .. free_len-1] is ever read, so the array is the sequence of     *)
(* those entries.  Of a ClientInfo the model keeps the id, the link and    *)
(* whose username it holds.                                                *)
(***************************************************************************)
EXTENDS Naturals, Sequences, FiniteSets, Functions

CONSTANTS Node,      \* the nodes malloc can ever return (bounds the model)
          NULL,
          Garbage,   \* what a field of a node fresh from malloc holds
          Id,        \* client ids
          Cap,       \* number of buckets
          FreeCap    \* FREE_INIT_LEN

\* client_map_init insists on a power of two.
ASSUME ClientMapAssumption ==
    /\ NULL \notin Node
    /\ IsFiniteSet(Node)
    /\ Id \subseteq Nat \ {0}
    /\ Cap \in {2^k : k \in 0..30} /\ Cap \in Nat \ {0}
    /\ FreeCap \in Nat \ {0}

VARIABLES
    buckets,   \* the first node of each list
    node,      \* the fields of every node
    free,      \* the deleted nodes
    free_cap,  \* capacity of the free array
    malloced,  \* the nodes malloc has returned so far
    freed      \* how often client_map_deinit has freed a node; << >> before it

vars == <<buckets, node, free, free_cap, malloced, freed>>

\* What memset makes of a node.
Zeroed == [client_id |-> 0, next |-> NULL, username |-> 0]

\* client_id & (cap - 1), where cap is a power of two.
hash(id) == id % Cap

\* The k-th node of the list that starts at n, NULL past its end.
Nth(n) ==
    LET nth[k \in 0..Cardinality(Node)] ==
            IF k = 0 THEN n
            ELSE IF nth[k - 1] = NULL THEN NULL
            ELSE node[nth[k - 1]].next
    IN  nth

\* The positions at which the loops over a list find id.
Hits(id) ==
    LET list == Nth(buckets[hash(id)])
    IN  {k \in DOMAIN list : list[k] # NULL /\ node[list[k]].client_id = id}

\* The first node of the list whose id is id.
client_map_get(id) ==
    LET hits == Hits(id)
    IN  IF hits = {} THEN NULL
        ELSE Nth(buckets[hash(id)])[CHOOSE k \in hits : \A j \in hits : k <= j]

client_map_init ==
    /\ buckets = [i \in 0..(Cap - 1) |-> NULL]
    /\ free = <<>>
    /\ free_cap = FreeCap
    /\ malloced = {}
    /\ freed = << >>
    /\ node = [n \in Node |-> [Zeroed EXCEPT !.username = Garbage]]

\* Mutation: the last free node is not moved to the front, so the node that
\* was taken stays in the array.
take_free_keeps(n) ==
    /\ free # <<>>
    /\ n = free[1]
    /\ free' = SubSeq(free, 1, Len(free) - 1)
    /\ UNCHANGED malloced

\* free[0] is taken and the last entry moved into its place.
take_free(n) ==
    /\ free # <<>>
    /\ n = free[1]
    /\ free' = SubSeq([free EXCEPT ![1] = free[Len(free)]], 1, Len(free) - 1)
    /\ UNCHANGED malloced

malloc_node(n) ==
    /\ free = <<>>
    /\ n \in Node \ malloced
    /\ malloced' = malloced \cup {n}
    /\ UNCHANGED free

\* An id that is there already is refused; else a node becomes the new head
\* of its list.
client_map_new_entry(id) ==
    \/ /\ client_map_get(id) # NULL
       /\ UNCHANGED vars
    \/ /\ client_map_get(id) = NULL
       /\ \E n \in Node :
              /\ take_free(n) \/ malloc_node(n)
              /\ node' = [node EXCEPT ![n].next = buckets[hash(id)],
                                      ![n].client_id = id]
              /\ buckets' = [buckets EXCEPT ![hash(id)] = n]
       /\ UNCHANGED <<free_cap, freed>>

\* Mutation of client_map_add_free: the array is not grown.
client_map_add_free_full(n) ==
    /\ free' = Append(free, n)
    /\ UNCHANGED free_cap

client_map_add_free(n) ==
    /\ free_cap' = IF Len(free) = free_cap THEN free_cap * 2 ELSE free_cap
    /\ free' = Append(free, n)

\* Mutations of client_map_delete: the node is not cleared; its link is read
\* after add_free has cleared it.
client_map_delete_dirty(id) ==
    LET n == client_map_get(id)
        prev == {p \in Node : node[p].next = n}
    IN  /\ n # NULL
        /\ IF buckets[hash(id)] = n
           THEN /\ buckets' = [buckets EXCEPT ![hash(id)] = node[n].next]
                /\ UNCHANGED node
           ELSE /\ node' = [p \in Node |-> IF p \in prev
                      THEN [node[p] EXCEPT !.next = node[n].next] ELSE node[p]]
                /\ UNCHANGED buckets
        /\ client_map_add_free(n)
        /\ UNCHANGED <<malloced, freed>>

client_map_delete_late(id) ==
    LET n == client_map_get(id)
    IN  /\ n # NULL
        /\ IF buckets[hash(id)] = n
           THEN /\ buckets' = [buckets EXCEPT ![hash(id)] = NULL]
                /\ node' = [node EXCEPT ![n] = Zeroed]
           ELSE /\ node' = [p \in Node |->
                      IF p = n THEN Zeroed
                      ELSE IF node[p].next = n
                      THEN [node[p] EXCEPT !.next = NULL] ELSE node[p]]
                /\ UNCHANGED buckets
        /\ client_map_add_free(n)
        /\ UNCHANGED <<malloced, freed>>

\* The node found is unlinked, from the bucket or from the node before it,
\* cleared and kept in free.  An id that is not in a list that has nodes
\* changes nothing; the code has no answer for an empty list, and its callers
\* ask only for ids client_map_get has found.
client_map_delete(id) ==
    \/ /\ client_map_get(id) = NULL
       /\ buckets[hash(id)] # NULL
       /\ UNCHANGED vars
    \/ /\ client_map_get(id) # NULL
       /\ LET n == client_map_get(id)
              list == Nth(buckets[hash(id)])
          IN  /\ IF list[0] = n
                 THEN /\ buckets' = [buckets EXCEPT ![hash(id)] = node[n].next]
                      /\ node' = [node EXCEPT ![n] = Zeroed]
                 ELSE LET prev == list[CHOOSE k \in 0..(Cardinality(Node) - 1) :
                                         list[k + 1] = n]
                      IN  /\ node' = [node EXCEPT ![prev].next = node[n].next,
                                                  ![n] = Zeroed]
                          /\ UNCHANGED buckets
              /\ client_map_add_free(n)
       /\ UNCHANGED <<malloced, freed>>

\* handle stores the username of a client through its ClientInfo pointer.
set_username(id) ==
    /\ client_map_get(id) # NULL
    /\ node' = [node EXCEPT ![client_map_get(id)].username = id]
    /\ UNCHANGED <<buckets, free, free_cap, malloced, freed>>

\* The nodes of the list in bucket i.
Chain(i) == {Nth(buckets[i])[k] : k \in 0..Cardinality(Node)} \ {NULL}

\* How often a node is met in the lists and in the free array.
InLists(n) == Cardinality({i \in DOMAIN buckets : n \in Chain(i)})
InFree(n) == Cardinality({i \in 1..Len(free) : free[i] = n})

\* The lists are walked, then the free array.
client_map_deinit ==
    /\ freed' = [n \in Node |-> InLists(n) + InFree(n)]
    /\ UNCHANGED <<buckets, node, free, free_cap, malloced>>

Init == client_map_init

\* The map is not used after client_map_deinit.
Gone == freed # << >> /\ UNCHANGED vars

Next ==
    \/ /\ freed = << >>
       /\ \/ \E id \in Id :
                 client_map_new_entry(id) \/ client_map_delete(id) \/ set_username(id)
          \/ client_map_deinit
    \/ Gone

Spec == Init /\ [][Next]_vars
-----------------------------------------------------------------------------
\* Every node malloc has returned is in exactly one place, one list or the
\* free array, once: no node is linked into two lists or linked while free,
\* and none is stored behind the end of the array.
NodesAccounted ==
    /\ \A n \in Node : InLists(n) + InFree(n) = (IF n \in malloced THEN 1 ELSE 0)
    /\ Len(free) <= free_cap

\* client_map_deinit frees every node malloc has returned, and none twice,
\* after any history of insertions and deletions.
FreedOnce ==
    freed # << >> => \A n \in Node : freed[n] = (IF n \in malloced THEN 1 ELSE 0)

\* Every list ends, and holds each id at most once, in the bucket of its id.
ListsSound ==
    \A i \in DOMAIN buckets :
        /\ Nth(buckets[i])[Cardinality(Node)] = NULL
        /\ \A n \in Chain(i) : hash(node[n].client_id) = i
        /\ \A n, m \in Chain(i) : node[n].client_id = node[m].client_id => n = m

\* Nobody sees the username of an earlier client through a recycled node,
\* though client_map_new_entry does not clear it.
NoStaleUsername ==
    \A id \in Id :
        client_map_get(id) # NULL =>
            node[client_map_get(id)].username \in {0, Garbage, id}

\* client_map.c implements the table the server relies on.
Table == INSTANCE ClientTable WITH
    Info <- Node,
    table <- [id \in {x \in Id : client_map_get(x) # NULL} |-> client_map_get(id)]
TableSpec == Table!Spec
=============================================================================
