-------------------------- MODULE ClientMapProofs ---------------------------
(***************************************************************************)
(* client_map.c for any set of nodes and ids and any number of buckets.    *)
(* The lists of the heap are exhibited as sequences: the first node of a   *)
(* list is the last entry of its sequence, so that a new entry appends.    *)
(***************************************************************************)
EXTENDS ClientMap, SeqLemmas, FiniteSetTheorems

N == Cardinality(Node)

Index == 0..(Cap - 1)

Info == [client_id : Nat, next : Node \cup {NULL}, username : Nat \cup {Garbage}]

\* The entry of s at j, NULL where there is none.
Place(s, j) == IF j \in 1..Len(s) THEN s[j] ELSE NULL

\* The list that starts at head in the heap nd is s, from its end.
Linked(s, head, nd) ==
    /\ s \in Seq(Node) /\ Distinct(s)
    /\ head = Place(s, Len(s))
    /\ \A j \in 1..Len(s) : nd[s[j]].next = Place(s, j - 1)

\* The nodes of s belong into bucket i, each with an id of its own and no
\* username but its client's.
Filed(s, i, nd) ==
    /\ \A n \in Range(s) :
           hash(nd[n].client_id) = i /\ nd[n].username \in {0, Garbage, nd[n].client_id}
    /\ \A n, m \in Range(s) : nd[n].client_id = nd[m].client_id => n = m

InList(lists, n) == \E i \in Index : n \in Range(lists[i])

MapTypes ==
    /\ buckets \in [Index -> Node \cup {NULL}]
    /\ node \in [Node -> Info]
    /\ free \in Seq(Node)
    /\ free_cap \in Nat /\ free_cap >= 1
    /\ malloced \subseteq Node

\* Every node is in one of the lists, free or with malloc.
Kept(lists, nd, fr, mal) ==
    \A n \in Node :
        /\ n \in mal <=> n \in Range(fr) \/ InList(lists, n)
        /\ ~(n \in Range(fr) /\ InList(lists, n))
        /\ ~InList(lists, n) => nd[n].username \in {0, Garbage}

ListsAre(lists, bk, nd) ==
    \A i \in Index : Linked(lists[i], bk[i], nd) /\ Filed(lists[i], i, nd)

MapInv ==
    /\ MapTypes
    /\ Distinct(free) /\ Len(free) <= free_cap
    /\ \E lists \in [Index -> Seq(Node)] :
           ListsAre(lists, buckets, node) /\ Kept(lists, node, free, malloced)

-----------------------------------------------------------------------------
(* The loops over a list.                                                  *)

\* The nodes are finitely many and NULL is none of them.
LEMMA NodeCount == N \in Nat /\ IsFiniteSet(Node) /\ NULL \notin Node
<1>1. IsFiniteSet(Node) /\ NULL \notin Node
  BY ClientMapAssumption
<1> QED BY <1>1, FS_CardinalityType DEF N

\* A list without repetition is no longer than there are nodes.
LEMMA ShortList ==
    ASSUME NEW s \in Seq(Node), Distinct(s)
    PROVE  Len(s) \in Nat /\ Len(s) <= N
<1>1. PICK l \in Nat : l = Len(s)
  OBVIOUS
<1>2. IsFiniteSet(1..l) /\ Cardinality(1..l) = l
  <2>1. /\ IsFiniteSet(1..l)
        /\ Cardinality(1..l) = IF 1 > l THEN 0 ELSE l - 1 + 1
    BY FS_Interval
  <2> QED BY <2>1
<1>3. s \in Injection(1..l, Node)
  <2>1. s \in [1..l -> Node]
    BY <1>1
  <2>2. \A i, j \in 1..l : s[i] = s[j] => i = j
    BY <1>1, Zenon DEF Distinct
  <2> QED BY <2>1, <2>2, Zenon DEF Injection, IsInjective
<1>4. Cardinality(1..l) <= Cardinality(Node)
  BY <1>2, <1>3, NodeCount, FS_Injection, Zenon
<1>5. l <= N
  BY <1>2, <1>4, Zenon DEF N
<1> QED BY <1>1, <1>5, Zenon

\* The k-th node the loops meet.
Walk(s) == [k \in 0..N |-> Place(s, Len(s) - k)]

\* f is what following the links from n meets.
Follows(f, n) ==
    f = [k \in 0..N |-> IF k = 0 THEN n
                        ELSE IF f[k - 1] = NULL THEN NULL
                        ELSE node[f[k - 1]].next]

\* Along a list that is linked, the links lead from entry to entry.
LEMMA WalkFollows ==
    ASSUME NEW s, NEW head, Linked(s, head, node)
    PROVE  Follows(Walk(s), head)
<1>1. /\ s \in Seq(Node) /\ head = Place(s, Len(s))
      /\ \A j \in 1..Len(s) : node[s[j]].next = Place(s, j - 1)
  BY Zenon DEF Linked
<1>2. PICK l \in Nat : l = Len(s)
  BY <1>1, LenProperties
<1>3. PICK w : w = Walk(s)
  OBVIOUS
<1>4. w = [k \in 0..N |-> Place(s, l - k)]
  BY <1>2, <1>3, Zenon DEF Walk
<1>5. ASSUME NEW k \in 0..N
      PROVE  Place(s, l - k) = IF k = 0 THEN head
                               ELSE IF w[k - 1] = NULL THEN NULL
                               ELSE node[w[k - 1]].next
  <2>1. CASE k = 0
    <3>1. l - k = Len(s)
      BY <1>2, <2>1
    <3> QED BY <1>1, <2>1, <3>1, Zenon
  <2>2. CASE k # 0
    <3>1. k - 1 \in 0..N /\ l - (k - 1) = l - k + 1 /\ l - k \in Int
      BY <1>2, <2>2, NodeCount
    <3>2. w[k - 1] = Place(s, l - k + 1)
      BY <1>4, <3>1
    <3>3. CASE l - k + 1 \in 1..l
      <4>1. w[k - 1] = s[l - k + 1]
        BY <1>2, <3>2, <3>3, Zenon DEF Place
      <4>2. s[l - k + 1] \in Node
        BY <1>1, <1>2, <3>3, ElementOfSeq, Zenon
      <4>3. w[k - 1] # NULL
        BY <4>1, <4>2, NodeCount, Zenon
      <4>4. node[s[l - k + 1]].next = Place(s, l - k)
        <5>1. PICK q \in 1..Len(s) : q = l - k + 1
          BY <1>2, <3>3, Zenon
        <5>2. node[s[q]].next = Place(s, q - 1)
          BY <1>1, Zenon
        <5>3. q - 1 = l - k
          BY <3>1, <5>1
        <5> QED BY <5>1, <5>2, <5>3, Zenon
      <4> QED BY <2>2, <4>1, <4>3, <4>4, Zenon
    <3>4. CASE l - k + 1 \notin 1..l
      <4>1. w[k - 1] = NULL
        BY <1>2, <3>2, <3>4, Zenon DEF Place
      <4>2. l - k \notin 1..l
        BY <1>2, <2>2, <3>1, <3>4
      <4>3. Place(s, l - k) = NULL
        BY <1>2, <4>2, Zenon DEF Place
      <4> QED BY <2>2, <4>1, <4>3, Zenon
    <3> QED BY <3>3, <3>4
  <2> QED BY <2>1, <2>2
<1>6. w = [k \in 0..N |-> IF k = 0 THEN head
                          ELSE IF w[k - 1] = NULL THEN NULL
                          ELSE node[w[k - 1]].next]
  BY <1>4, <1>5, Zenon
<1> QED BY <1>3, <1>6, Zenon DEF Follows

\* There is one such function, so Nth is it.
LEMMA OneWalk ==
    ASSUME NEW f, NEW g, NEW n, Follows(f, n), Follows(g, n)
    PROVE  f = g
<1>1. /\ DOMAIN f = 0..N /\ DOMAIN g = 0..N
      /\ f = [k \in 0..N |-> f[k]] /\ g = [k \in 0..N |-> g[k]]
  BY Zenon DEF Follows
<1>2. \A k \in 0..N : /\ f[k] = IF k = 0 THEN n ELSE IF f[k - 1] = NULL THEN NULL
                                ELSE node[f[k - 1]].next
                      /\ g[k] = IF k = 0 THEN n ELSE IF g[k - 1] = NULL THEN NULL
                                ELSE node[g[k - 1]].next
  BY Zenon DEF Follows
<1>3. PICK T : T = {k \in 0..N : f[k] # g[k]}
  OBVIOUS
<1>4. T = {}
  <2> SUFFICES ASSUME T # {} PROVE FALSE
    OBVIOUS
  <2>1. T \in SUBSET Nat
    BY <1>3
  <2>2. PICK k \in T : \A j \in T : k <= j
    BY <2>1, LeastNat, Zenon
  <2>3. k \in 0..N /\ f[k] # g[k]
    BY <1>3, Zenon
  <2>4. CASE k = 0
    BY <1>2, <2>3, <2>4, Zenon
  <2>5. CASE k # 0
    <3>1. k - 1 \in 0..N /\ ~(k <= k - 1)
      BY <2>3, <2>5, NodeCount
    <3>2. f[k - 1] = g[k - 1]
      BY <1>3, <2>2, <3>1, Zenon
    <3> QED BY <1>2, <2>3, <2>5, <3>2, Zenon
  <2> QED BY <2>4, <2>5
<1>5. \A k \in 0..N : f[k] = g[k]
  BY <1>3, <1>4, Zenon
<1> QED BY <1>1, <1>5, Zenon

\* Nth is defined as a function that follows the links; one exists.
LEMMA NthFollows ==
    ASSUME NEW n, NEW g, Follows(g, n)
    PROVE  Follows(Nth(n), n)
BY Zenon DEF Follows, Nth, N

\* So the loops, which follow the links, walk along the sequence.
LEMMA NthWalk ==
    ASSUME NEW s, NEW head, Linked(s, head, node)
    PROVE  Nth(head) = Walk(s)
<1>1. Follows(Walk(s), head)
  BY WalkFollows, Zenon
<1>2. Follows(Nth(head), head)
  BY <1>1, NthFollows, Zenon
<1> QED BY <1>1, <1>2, OneWalk, Zenon

-----------------------------------------------------------------------------
(* What the loops find.                                                    *)

\* The nodes met are those of the sequence, each at one place.
Meets(w, s) ==
    /\ DOMAIN w = 0..N
    /\ \A j \in 1..Len(s) : Len(s) - j \in 0..N /\ w[Len(s) - j] = s[j]
    /\ \A k \in 0..N : w[k] # NULL => Len(s) - k \in 1..Len(s) /\ w[k] = s[Len(s) - k]
    /\ \A n \in Node : \A j, k \in 0..N : w[j] = n /\ w[k] = n => j = k
    /\ {w[k] : k \in 0..N} \ {NULL} = Range(s)
    /\ w[N] = NULL

LEMMA WalkMeets ==
    ASSUME NEW s \in Seq(Node), Distinct(s)
    PROVE  Meets(Walk(s), s)
<1>1. PICK l \in Nat : l = Len(s) /\ l <= N
  BY ShortList, Zenon
<1>2. PICK w : w = Walk(s)
  OBVIOUS
<1>3. w = [k \in 0..N |-> Place(s, l - k)]
  BY <1>1, <1>2, Zenon DEF Walk
<1>4. DOMAIN w = 0..N /\ \A k \in 0..N : w[k] = Place(s, l - k)
  BY <1>3, Zenon
<1>5. ASSUME NEW j \in 1..l PROVE l - j \in 0..N /\ w[l - j] = s[j]
  <2>1. l - j \in 0..N /\ l - (l - j) = j
    BY <1>1, NodeCount
  <2> QED BY <1>1, <1>4, <2>1, Zenon DEF Place
<1>6. ASSUME NEW k \in 0..N, w[k] # NULL PROVE l - k \in 1..l /\ w[k] = s[l - k]
  BY <1>1, <1>4, <1>6, Zenon DEF Place
<1>7. ASSUME NEW n \in Node, NEW j \in 0..N, NEW k \in 0..N, w[j] = n, w[k] = n
      PROVE  j = k
  <2>1. w[j] # NULL /\ w[k] # NULL
    BY <1>7, NodeCount, Zenon
  <2>2. l - j \in 1..l /\ l - k \in 1..l /\ s[l - j] = s[l - k]
    BY <1>6, <1>7, <2>1, Zenon
  <2>3. l - j = l - k
    BY <1>1, <2>2, Zenon DEF Distinct
  <2>4. l \in Int /\ j \in Int /\ k \in Int
    BY NodeCount
  <2> QED BY <2>3, <2>4
<1>8. \A j \in 1..l : s[j] \in Node /\ s[j] # NULL
  BY <1>1, ElementOfSeq, NodeCount, Zenon
<1>9. \A x : x \in Range(s) <=> \E i \in 1..l : x = s[i]
  BY <1>1, SeqRange, Zenon
<1>10. {w[k] : k \in 0..N} \ {NULL} = Range(s)
  <2>1. ASSUME NEW k \in 0..N, w[k] # NULL PROVE w[k] \in Range(s)
    BY <1>6, <1>9, <2>1, Zenon
  <2>2. ASSUME NEW x \in Range(s) PROVE x # NULL /\ \E k \in 0..N : x = w[k]
    <3>1. PICK i \in 1..l : x = s[i]
      BY <1>9, Zenon
    <3>2. l - i \in 0..N /\ w[l - i] = s[i]
      BY <1>5, Zenon
    <3> QED BY <1>8, <3>1, <3>2, Zenon
  <2> QED BY <2>1, <2>2, Zenon
<1>11. w[N] = NULL
  <2>1. N \in 0..N /\ l - N \notin 1..l
    BY <1>1, NodeCount
  <2> QED BY <1>1, <1>4, <2>1, Zenon DEF Place
<1>12. \A j \in 1..Len(s) : Len(s) - j \in 0..N /\ w[Len(s) - j] = s[j]
  BY <1>1, <1>5, Zenon
<1>13. \A k \in 0..N : w[k] # NULL => Len(s) - k \in 1..Len(s) /\ w[k] = s[Len(s) - k]
  BY <1>1, <1>6, Zenon
<1>14. \A n \in Node : \A j, k \in 0..N : w[j] = n /\ w[k] = n => j = k
  BY <1>7, Zenon
<1>15. Meets(w, s)
  BY <1>4, <1>10, <1>11, <1>12, <1>13, <1>14, Zenon DEF Meets
<1> QED BY <1>2, <1>15, Zenon

\* hash answers with the number of a bucket.
LEMMA HashIndex ==
    ASSUME NEW id \in Nat
    PROVE  hash(id) \in Index
<1>1. Cap \in Nat /\ Cap > 0
  BY ClientMapAssumption
<1> QED BY <1>1 DEF hash, Index

\* The parts of a list that the other lemmas take.
LEMMA ListParts ==
    ASSUME NEW lists, ListsAre(lists, buckets, node), NEW i \in Index
    PROVE  /\ Linked(lists[i], buckets[i], node) /\ Filed(lists[i], i, node)
           /\ lists[i] \in Seq(Node) /\ Distinct(lists[i])
           /\ Nth(buckets[i]) = Walk(lists[i])
<1>1. Linked(lists[i], buckets[i], node) /\ Filed(lists[i], i, node)
  BY Zenon DEF ListsAre
<1>2. lists[i] \in Seq(Node) /\ Distinct(lists[i])
  BY <1>1, Zenon DEF Linked
<1> QED BY <1>1, <1>2, NthWalk, Zenon

\* The nodes of a list are those of its sequence.
LEMMA ChainIs ==
    ASSUME NEW lists, ListsAre(lists, buckets, node), NEW i \in Index
    PROVE  Chain(i) = Range(lists[i])
<1>1. /\ lists[i] \in Seq(Node) /\ Distinct(lists[i])
      /\ Nth(buckets[i]) = Walk(lists[i])
  BY ListParts, Zenon
<1>2. {Walk(lists[i])[k] : k \in 0..N} \ {NULL} = Range(lists[i])
  BY <1>1, WalkMeets, Zenon DEF Meets
<1> QED BY <1>1, <1>2, Zenon DEF Chain, N

\* client_map_get finds the node with the id, if there is one.
Found(lists, id, n) == n \in Range(lists[hash(id)]) /\ node[n].client_id = id

LEMMA GetIs ==
    ASSUME NEW lists, ListsAre(lists, buckets, node), NEW id \in Nat
    PROVE  /\ \A n \in Node : Found(lists, id, n) => client_map_get(id) = n
           /\ client_map_get(id) # NULL =>
                  client_map_get(id) \in Node /\ Found(lists, id, client_map_get(id))
<1>1. PICK i \in Index : i = hash(id)
  BY HashIndex, Zenon
<1>2. PICK s : s = lists[i]
  OBVIOUS
<1>3. /\ s \in Seq(Node) /\ Distinct(s) /\ Filed(s, i, node)
      /\ Nth(buckets[i]) = Walk(s)
  BY <1>2, ListParts, Zenon
<1>4. PICK w : w = Walk(s)
  OBVIOUS
<1>5. /\ DOMAIN w = 0..N
      /\ {w[k] : k \in 0..N} \ {NULL} = Range(s)
      /\ \A n \in Node : \A j, k \in 0..N : w[j] = n /\ w[k] = n => j = k
  <2>1. Meets(w, s)
    BY <1>3, <1>4, WalkMeets, Zenon
  <2> QED BY <2>1, Zenon DEF Meets
<1>6. PICK H : H = {k \in 0..N : w[k] # NULL /\ node[w[k]].client_id = id}
  OBVIOUS
<1>7. /\ Hits(id) = H
      /\ client_map_get(id) = IF H = {} THEN NULL
                              ELSE w[CHOOSE k \in H : \A j \in H : k <= j]
  <2>1. Hits(id) = H
    BY <1>1, <1>3, <1>4, <1>5, <1>6, Zenon DEF Hits
  <2> QED BY <1>1, <1>3, <1>4, <2>1 DEF client_map_get
<1>8. Range(s) \subseteq Node
  BY <1>3, SeqRange, Zenon
<1>9. ASSUME NEW k \in H PROVE w[k] \in Node /\ Found(lists, id, w[k]) /\ k \in 0..N
  BY <1>1, <1>2, <1>5, <1>6, <1>8, Zenon DEF Found
<1>10. ASSUME NEW n \in Node, Found(lists, id, n) PROVE client_map_get(id) = n
  <2>1. n \in Range(s) /\ node[n].client_id = id
    BY <1>1, <1>2, <1>10, Zenon DEF Found
  <2>2. PICK k \in 0..N : w[k] = n /\ n # NULL
    BY <1>5, <2>1, Zenon
  <2>3. k \in H
    BY <1>6, <2>1, <2>2, Zenon
  <2>4. \A j \in H : j = k
    <3>1. ASSUME NEW j \in H PROVE j = k
      <4>1. w[j] \in Range(s) /\ node[w[j]].client_id = id /\ j \in 0..N
        BY <1>1, <1>2, <1>9, Zenon DEF Found
      <4>2. w[j] = n
        BY <1>3, <2>1, <4>1, Zenon DEF Filed
      <4> QED BY <1>5, <2>2, <4>1, <4>2, Zenon
    <3> QED BY <3>1
  <2>5. k <= k
    BY NodeCount
  <2>6. (CHOOSE j \in H : \A m \in H : j <= m) = k
    BY <2>3, <2>4, <2>5, Zenon
  <2> QED BY <1>7, <2>2, <2>3, <2>6, Zenon
<1>11. ASSUME client_map_get(id) # NULL
       PROVE  client_map_get(id) \in Node /\ Found(lists, id, client_map_get(id))
  <2>1. H # {}
    BY <1>7, <1>11, Zenon
  <2>2. H \in SUBSET Nat
    BY <1>6, NodeCount
  <2>3. \E k \in H : \A j \in H : k <= j
    BY <2>1, <2>2, LeastNat, Zenon
  <2>4. PICK c : c = CHOOSE k \in H : \A j \in H : k <= j
    OBVIOUS
  <2>5. c \in H
    BY <2>3, <2>4, Zenon
  <2> QED BY <1>7, <1>9, <2>1, <2>4, <2>5, Zenon
<1> QED BY <1>10, <1>11

-----------------------------------------------------------------------------
(* What the operations make of the sequences.                              *)

\* Taking the first element and moving the last into its place removes it.
Swapped(s) == SubSeq([s EXCEPT ![1] = s[Len(s)]], 1, Len(s) - 1)

LEMMA SwapOut ==
    ASSUME NEW s \in Seq(Node), s # <<>>, Distinct(s), NEW t, t = Swapped(s)
    PROVE  /\ t \in Seq(Node) /\ Distinct(t) /\ Len(t) <= Len(s)
           /\ Range(t) = Range(s) \ {s[1]} /\ s[1] \in Range(s)
<1>1. PICK l \in Nat : l = Len(s) /\ l >= 1
  OBVIOUS
<1>2. PICK u : u = [s EXCEPT ![1] = s[l]]
  OBVIOUS
<1>3. u \in Seq(Node) /\ Len(u) = l
  BY <1>1, <1>2
<1>4. u[1] = s[l] /\ \A i \in 1..l : i # 1 => u[i] = s[i]
  BY <1>1, <1>2
<1>5. t = SubSeq(u, 1, l - 1)
  BY <1>1, <1>2, Zenon DEF Swapped
<1>6. l - 1 \in Int /\ l - 1 >= 0 /\ l - 1 <= Len(u) /\ l - 1 <= l
  BY <1>1, <1>3
<1>7. /\ t \in Seq(Node) /\ Len(t) = l - 1
      /\ \A i \in 1..(l - 1) : t[i] = u[i]
  <2>1. /\ SubSeq(u, 1, l - 1) \in Seq(Node) /\ Len(SubSeq(u, 1, l - 1)) = l - 1
        /\ \A i \in 1..(l - 1) : SubSeq(u, 1, l - 1)[i] = u[i]
    BY <1>3, <1>6, PrefixOfSeq, Zenon
  <2> QED BY <1>5, <2>1, Zenon
<1>8. \A i, j \in 1..l : s[i] = s[j] => i = j
  BY <1>1, Zenon DEF Distinct
<1>9. \A i \in 1..(l - 1) :
          /\ i \in 1..l /\ i # l
          /\ i = 1 => t[i] = s[l]
          /\ i # 1 => t[i] = s[i]
  <2>1. \A i \in 1..(l - 1) : i \in 1..l /\ i # l
    BY <1>1
  <2> QED BY <1>4, <1>7, <2>1, Zenon
<1>10. 1 \in 1..l /\ l \in 1..l
  BY <1>1
<1>11. Distinct(t)
  <2>1. ASSUME NEW i \in 1..(l - 1), NEW j \in 1..(l - 1), t[i] = t[j] PROVE i = j
    <3>1. /\ i \in 1..l /\ i # l /\ t[i] = IF i = 1 THEN s[l] ELSE s[i]
          /\ j \in 1..l /\ j # l /\ t[j] = IF j = 1 THEN s[l] ELSE s[j]
      BY <1>9, Zenon
    <3>2. CASE i = 1 /\ j # 1
      BY <1>8, <1>10, <2>1, <3>1, <3>2, Zenon
    <3>3. CASE i # 1 /\ j = 1
      BY <1>8, <1>10, <2>1, <3>1, <3>3, Zenon
    <3>4. CASE i # 1 /\ j # 1
      BY <1>8, <2>1, <3>1, <3>4, Zenon
    <3> QED BY <3>2, <3>3, <3>4
  <2> QED BY <1>7, <2>1, Zenon DEF Distinct
<1>12. /\ \A x : x \in Range(s) <=> \E i \in 1..l : x = s[i]
       /\ \A x : x \in Range(t) <=> \E i \in 1..(l - 1) : x = t[i]
  <2>1. \A x : x \in Range(s) <=> \E i \in 1..Len(s) : x = s[i]
    BY SeqRange, Zenon
  <2>2. \A x : x \in Range(t) <=> \E i \in 1..Len(t) : x = t[i]
    BY <1>7, SeqRange, Zenon
  <2>3. Len(t) = l - 1
    BY <1>7, Zenon
  <2>4. \A x : x \in Range(t) <=> \E i \in 1..(l - 1) : x = t[i]
    BY <2>2, <2>3, Zenon
  <2> QED BY <1>1, <2>1, <2>4, Zenon
<1>13. ASSUME NEW x \in Range(t) PROVE x \in Range(s) /\ x # s[1]
  <2>1. PICK i \in 1..(l - 1) : x = t[i]
    BY <1>12, Zenon
  <2>2. CASE i = 1
    <3>1. x = s[l] /\ l # 1
      BY <1>9, <2>1, <2>2, Zenon
    <3> QED BY <1>8, <1>10, <1>12, <3>1, Zenon
  <2>3. CASE i # 1
    BY <1>8, <1>9, <1>10, <1>12, <2>1, <2>3, Zenon
  <2> QED BY <2>2, <2>3
<1>14. ASSUME NEW x \in Range(s), x # s[1] PROVE x \in Range(t)
  <2>1. PICK i \in 1..l : x = s[i]
    BY <1>12, Zenon
  <2>2. i # 1
    BY <1>14, <2>1, Zenon
  <2>3. CASE i = l
    <3>1. 1 \in 1..(l - 1)
      BY <1>1, <2>2, <2>3
    <3> QED BY <1>9, <1>12, <2>1, <2>3, <3>1, Zenon
  <2>4. CASE i # l
    <3>1. i \in 1..(l - 1)
      BY <1>1, <2>4
    <3> QED BY <1>9, <1>12, <2>1, <2>2, <3>1, Zenon
  <2> QED BY <2>3, <2>4
<1>15. Len(t) <= Len(s)
  BY <1>1, <1>6, <1>7
<1>16. s[1] \in Range(s)
  BY <1>10, <1>12, Zenon
<1>17. Range(t) = Range(s) \ {s[1]}
  BY <1>13, <1>14, Zenon
<1> QED BY <1>7, <1>11, <1>15, <1>16, <1>17, Zenon

\* s without its entry at p.
Without(s, p) == [j \in 1..(Len(s) - 1) |-> IF j < p THEN s[j] ELSE s[j + 1]]

\* The entries of s behind p move up by one.
LEMMA WithoutPlaces ==
    ASSUME NEW s \in Seq(Node), NEW p \in 1..Len(s), NEW t, t = Without(s, p)
    PROVE  /\ t \in Seq(Node) /\ Len(t) = Len(s) - 1
           /\ \A j \in 1..(Len(s) - 1) : t[j] = IF j < p THEN s[j] ELSE s[j + 1]
           /\ \A j \in Int : Place(t, j) = IF j < p THEN Place(s, j) ELSE Place(s, j + 1)
<1>1. PICK l \in Nat : l = Len(s) /\ l >= 1
  OBVIOUS
<1>2. p \in 1..l /\ t = [j \in 1..(l - 1) |-> IF j < p THEN s[j] ELSE s[j + 1]]
  BY <1>1, Zenon DEF Without
<1>3. \A j \in 1..(l - 1) : (IF j < p THEN s[j] ELSE s[j + 1]) \in Node
  <2>1. \A j \in 1..(l - 1) : j \in 1..l /\ j + 1 \in 1..l
    BY <1>1
  <2> QED BY <1>1, <2>1, ElementOfSeq, Zenon
<1>4. t \in [1..(l - 1) -> Node]
  BY <1>2, <1>3, Zenon
<1>5. l - 1 \in Nat
  BY <1>1
<1>6. t \in Seq(Node) /\ Len(t) = l - 1
  BY <1>4, <1>5
<1>7. \A j \in 1..(l - 1) : t[j] = IF j < p THEN s[j] ELSE s[j + 1]
  BY <1>2, Zenon
<1>8. ASSUME NEW j \in Int
      PROVE  Place(t, j) = IF j < p THEN Place(s, j) ELSE Place(s, j + 1)
  <2>1. CASE j < p
    <3>1. j \in 1..(l - 1) <=> j \in 1..l
      BY <1>1, <1>2, <2>1
    <3> QED BY <1>1, <1>6, <1>7, <2>1, <3>1, Zenon DEF Place
  <2>2. CASE ~(j < p)
    <3>1. j \in 1..(l - 1) <=> j + 1 \in 1..l
      BY <1>1, <1>2, <2>2
    <3> QED BY <1>1, <1>6, <1>7, <2>2, <3>1, Zenon DEF Place
  <2> QED BY <2>1, <2>2
<1> QED BY <1>1, <1>6, <1>7, <1>8, Zenon

\* All entries but the one at p remain.
LEMMA WithoutDistinct ==
    ASSUME NEW s \in Seq(Node), Distinct(s), NEW p \in 1..Len(s), NEW t, t = Without(s, p)
    PROVE  Distinct(t) /\ Range(t) = Range(s) \ {s[p]}
<1>1. PICK l \in Nat : l = Len(s) /\ l >= 1
  OBVIOUS
<1>2. /\ t \in Seq(Node) /\ Len(t) = l - 1
      /\ \A j \in 1..(l - 1) : t[j] = IF j < p THEN s[j] ELSE s[j + 1]
  BY <1>1, WithoutPlaces, Zenon
<1>3. p \in 1..l /\ \A i, j \in 1..l : s[i] = s[j] => i = j
  BY <1>1, Zenon DEF Distinct
<1>4. \A j \in 1..(l - 1) : j \in 1..l /\ j + 1 \in 1..l
  BY <1>1
<1>5. PICK at : at = [j \in 1..(l - 1) |-> IF j < p THEN j ELSE j + 1]
  OBVIOUS
<1>6. /\ \A j \in 1..(l - 1) : at[j] \in 1..l /\ at[j] # p /\ t[j] = s[at[j]]
      /\ \A i, j \in 1..(l - 1) : at[i] = at[j] => i = j
      /\ \A k \in 1..l : k # p => \E j \in 1..(l - 1) : at[j] = k
  <2>1. \A j \in 1..(l - 1) : at[j] = IF j < p THEN j ELSE j + 1
    BY <1>5, Zenon
  <2>2. \A j \in 1..(l - 1) : at[j] \in 1..l /\ at[j] # p
    BY <1>1, <1>3, <2>1
  <2>3. \A j \in 1..(l - 1) : t[j] = s[at[j]]
    BY <1>2, <2>1, Zenon
  <2>4. \A i, j \in 1..(l - 1) : at[i] = at[j] => i = j
    BY <1>1, <1>3, <2>1
  <2>5. ASSUME NEW k \in 1..l, k # p PROVE \E j \in 1..(l - 1) : at[j] = k
    <3>1. CASE k < p
      <4>1. k \in 1..(l - 1)
        BY <1>1, <1>3, <3>1
      <4> QED BY <2>1, <3>1, <4>1, Zenon
    <3>2. CASE ~(k < p)
      <4>1. k - 1 \in 1..(l - 1) /\ ~(k - 1 < p) /\ k - 1 + 1 = k
        BY <1>1, <1>3, <2>5, <3>2
      <4> QED BY <2>1, <4>1, Zenon
    <3> QED BY <3>1, <3>2
  <2> QED BY <2>2, <2>3, <2>4, <2>5, Zenon
<1>7. Distinct(t)
  <2>1. ASSUME NEW i \in 1..(l - 1), NEW j \in 1..(l - 1), t[i] = t[j] PROVE i = j
    <3>1. at[i] \in 1..l /\ at[j] \in 1..l /\ t[i] = s[at[i]] /\ t[j] = s[at[j]]
      BY <1>6, Zenon
    <3>2. at[i] = at[j]
      BY <1>3, <2>1, <3>1, Zenon
    <3> QED BY <1>6, <3>2, Zenon
  <2> QED BY <1>2, <2>1 DEF Distinct
<1>8. /\ \A x : x \in Range(s) <=> \E i \in 1..l : x = s[i]
      /\ \A x : x \in Range(t) <=> \E i \in 1..(l - 1) : x = t[i]
  <2>1. \A x : x \in Range(s) <=> \E i \in 1..Len(s) : x = s[i]
    BY SeqRange, Zenon
  <2>2. \A x : x \in Range(t) <=> \E i \in 1..Len(t) : x = t[i]
    BY <1>2, SeqRange, Zenon
  <2> QED BY <1>1, <1>2, <2>1, <2>2
<1>9. ASSUME NEW x \in Range(t) PROVE x \in Range(s) /\ x # s[p]
  <2>1. PICK j \in 1..(l - 1) : x = t[j]
    BY <1>8, Zenon
  <2>2. at[j] \in 1..l /\ at[j] # p /\ x = s[at[j]]
    BY <1>6, <2>1, Zenon
  <2> QED BY <1>3, <1>8, <2>2, Zenon
<1>10. ASSUME NEW x \in Range(s), x # s[p] PROVE x \in Range(t)
  <2>1. PICK k \in 1..l : x = s[k]
    BY <1>8, Zenon
  <2>2. k # p
    BY <1>10, <2>1, Zenon
  <2>3. PICK j \in 1..(l - 1) : at[j] = k
    BY <1>6, <2>2, Zenon
  <2> QED BY <1>6, <1>8, <2>1, <2>3, Zenon
<1> QED BY <1>7, <1>9, <1>10, Zenon

-----------------------------------------------------------------------------
(* What the operations make of the lists.                                  *)

\* The nodes of s have in ne the fields they have in nd.
Same(s, nd, ne) == \A n \in Range(s) : ne[n] = nd[n]

\* A list none of whose nodes is written stays as it is.
LEMMA Untouched ==
    ASSUME NEW s, NEW head, NEW i, NEW nd, NEW ne,
           Linked(s, head, nd), Filed(s, i, nd), Same(s, nd, ne)
    PROVE  Linked(s, head, ne) /\ Filed(s, i, ne)
<1>1. /\ s \in Seq(Node) /\ Distinct(s) /\ head = Place(s, Len(s))
      /\ \A j \in 1..Len(s) : nd[s[j]].next = Place(s, j - 1)
  BY Zenon DEF Linked
<1>2. \A j \in 1..Len(s) : s[j] \in Range(s)
  BY <1>1, SeqRange, Zenon
<1>3. \A j \in 1..Len(s) : ne[s[j]].next = Place(s, j - 1)
  <2>1. \A j \in 1..Len(s) : ne[s[j]] = nd[s[j]]
    BY <1>2, Zenon DEF Same
  <2> QED BY <1>1, <2>1, Zenon
<1>4. Linked(s, head, ne)
  BY <1>1, <1>3, Zenon DEF Linked
<1>5. Filed(s, i, ne)
  <2>1. ASSUME NEW n \in Range(s)
        PROVE  hash(ne[n].client_id) = i /\ ne[n].username \in {0, Garbage, ne[n].client_id}
    <3>1. ne[n] = nd[n]
      BY Zenon DEF Same
    <3> QED BY <3>1, Zenon DEF Filed
  <2>2. ASSUME NEW n \in Range(s), NEW m \in Range(s), ne[n].client_id = ne[m].client_id
        PROVE  n = m
    <3>1. ne[n] = nd[n] /\ ne[m] = nd[m]
      BY Zenon DEF Same
    <3> QED BY <2>2, <3>1, Zenon DEF Filed
  <2> QED BY <2>1, <2>2, Zenon DEF Filed
<1> QED BY <1>4, <1>5

\* A node that becomes the new head of its list.
Entered(n, id, head, ne) ==
    ne[n].next = head /\ ne[n].client_id = id /\ ne[n].username \in {0, Garbage}

Absent(s, id, nd) == \A m \in Range(s) : nd[m].client_id # id

\* t is a list that has n first and the nodes of s.
Longer(t, s, n, i, ne) ==
    Linked(t, n, ne) /\ Filed(t, i, ne) /\ Range(t) = Range(s) \cup {n}

\* A new head makes a longer list.
LEMMA Pushed ==
    ASSUME NEW s, NEW head, NEW i, NEW nd, NEW ne, NEW n \in Node, NEW id,
           Linked(s, head, nd), Filed(s, i, nd), Same(s, nd, ne), n \notin Range(s),
           Entered(n, id, head, ne), hash(id) = i,
           Absent(s, id, nd)
    PROVE  Longer(Append(s, n), s, n, i, ne)
<1>1. /\ s \in Seq(Node) /\ Distinct(s) /\ head = Place(s, Len(s))
      /\ \A j \in 1..Len(s) : ne[s[j]].next = Place(s, j - 1)
  <2>1. Linked(s, head, ne)
    BY Untouched, Zenon
  <2> QED BY <2>1, Zenon DEF Linked
<1>2. PICK l \in Nat : l = Len(s)
  BY <1>1, LenProperties
<1>3. PICK t : t = Append(s, n)
  OBVIOUS
<1>4. /\ t \in Seq(Node) /\ Distinct(t) /\ Range(t) = Range(s) \cup {n}
      /\ Len(t) = l + 1
  BY <1>1, <1>2, <1>3, AppendDistinct, Zenon
<1>5. t[l + 1] = n /\ \A j \in 1..l : t[j] = s[j]
  BY <1>1, <1>2, <1>3, AppendProperties
<1>6. \A j \in 0..l : Place(t, j) = Place(s, j)
  <2>1. \A j \in 0..l : j \in 1..(l + 1) <=> j \in 1..l
    BY <1>2
  <2> QED BY <1>2, <1>4, <1>5, <2>1, Zenon DEF Place
<1>7. ASSUME NEW j \in 1..(l + 1) PROVE ne[t[j]].next = Place(t, j - 1)
  <2>1. CASE j = l + 1
    <3>1. j - 1 = l /\ l \in 0..l
      BY <1>2, <2>1
    <3>2. ne[n].next = Place(s, l)
      BY <1>1, <1>2, Zenon DEF Entered
    <3> QED BY <1>5, <1>6, <2>1, <3>1, <3>2, Zenon
  <2>2. CASE j # l + 1
    <3>1. j \in 1..l /\ j - 1 \in 0..l
      BY <1>2, <2>2
    <3>2. ne[s[j]].next = Place(s, j - 1)
      BY <1>1, <1>2, <3>1, Zenon
    <3> QED BY <1>5, <1>6, <3>1, <3>2, Zenon
  <2> QED BY <2>1, <2>2
<1>8. n = Place(t, Len(t))
  <2>1. l + 1 \in 1..(l + 1)
    BY <1>2
  <2> QED BY <1>4, <1>5, <2>1, Zenon DEF Place
<1>9. Linked(t, n, ne)
  BY <1>4, <1>7, <1>8, Zenon DEF Linked
<1>10. Filed(s, i, ne)
  BY Untouched, Zenon
<1>11. ASSUME NEW m \in Range(t)
       PROVE  hash(ne[m].client_id) = i /\ ne[m].username \in {0, Garbage, ne[m].client_id}
  <2>1. CASE m = n
    BY <2>1, Zenon DEF Entered
  <2>2. CASE m \in Range(s)
    BY <1>10, <2>2, Zenon DEF Filed
  <2> QED BY <1>4, <2>1, <2>2, Zenon
<1>12. ASSUME NEW m \in Range(s) PROVE ne[m].client_id # id
  BY Zenon DEF Same, Absent
<1>13. ASSUME NEW m \in Range(t), NEW k \in Range(t), ne[m].client_id = ne[k].client_id
       PROVE  m = k
  <2>1. ne[n].client_id = id
    BY Zenon DEF Entered
  <2>2. CASE m = n /\ k \in Range(s)
    BY <1>12, <1>13, <2>1, <2>2, Zenon
  <2>3. CASE k = n /\ m \in Range(s)
    BY <1>12, <1>13, <2>1, <2>3, Zenon
  <2>4. CASE k \in Range(s) /\ m \in Range(s)
    BY <1>10, <1>13, <2>4, Zenon DEF Filed
  <2> QED BY <1>4, <2>2, <2>3, <2>4, Zenon
<1>14. Filed(t, i, ne)
  BY <1>11, <1>13, Zenon DEF Filed
<1>15. Longer(t, s, n, i, ne)
  BY <1>4, <1>9, <1>14, Zenon DEF Longer
<1> QED BY <1>3, <1>15, Zenon

\* The node of s at p leaves the list: the node before it, or the bucket, is
\* linked to the node behind it.
Bypassed(s, p, nd, ne) ==
    \A m \in Range(s) : m # s[p] =>
        /\ ne[m].client_id = nd[m].client_id /\ ne[m].username = nd[m].username
        /\ ne[m].next = IF p < Len(s) /\ m = s[p + 1] THEN Place(s, p - 1)
                        ELSE nd[m].next

\* The list without the node at p is linked.
LEMMA Unlinked ==
    ASSUME NEW s, NEW head, NEW nd, NEW ne, NEW he,
           Linked(s, head, nd), NEW p \in 1..Len(s),
           Bypassed(s, p, nd, ne), he = IF p = Len(s) THEN Place(s, p - 1) ELSE head
    PROVE  Linked(Without(s, p), he, ne)
<1>1. /\ s \in Seq(Node) /\ Distinct(s) /\ head = Place(s, Len(s))
      /\ \A j \in 1..Len(s) : nd[s[j]].next = Place(s, j - 1)
  BY Zenon DEF Linked
<1>2. PICK l \in Nat : l = Len(s)
  BY <1>1, LenProperties
<1>3. p \in 1..l /\ l - 1 \in Int /\ p \in Int
  BY <1>2
<1>4. PICK t : t = Without(s, p)
  OBVIOUS
<1>5. /\ t \in Seq(Node) /\ Len(t) = l - 1
      /\ \A j \in 1..(l - 1) : t[j] = IF j < p THEN s[j] ELSE s[j + 1]
      /\ \A j \in Int : Place(t, j) = IF j < p THEN Place(s, j) ELSE Place(s, j + 1)
  BY <1>1, <1>2, <1>4, WithoutPlaces, Zenon
<1>6. Distinct(t)
  BY <1>1, <1>4, WithoutDistinct, Zenon
<1>7. he = Place(t, l - 1)
  <2>1. CASE p = l
    <3>1. l - 1 < p
      BY <1>2, <2>1
    <3> QED BY <1>2, <1>3, <1>5, <2>1, <3>1, Zenon
  <2>2. CASE p # l
    <3>1. ~(l - 1 < p) /\ l - 1 + 1 = l
      BY <1>2, <1>3, <2>2
    <3> QED BY <1>1, <1>2, <1>3, <1>5, <2>2, <3>1, Zenon
  <2> QED BY <2>1, <2>2
<1>8. \A j \in 1..l : s[j] \in Range(s) /\ (j # p => s[j] # s[p])
  BY <1>1, <1>2, <1>3, SeqRange, Zenon DEF Distinct
<1>9. \A j \in 1..l : j # p =>
          ne[s[j]].next = IF p < l /\ s[j] = s[p + 1] THEN Place(s, p - 1)
                          ELSE Place(s, j - 1)
  BY <1>1, <1>2, <1>8, Zenon DEF Bypassed
<1>10. ASSUME NEW j \in 1..(l - 1) PROVE ne[t[j]].next = Place(t, j - 1)
  <2>1. j \in 1..l /\ j + 1 \in 1..l /\ j - 1 \in Int /\ j + 1 - 1 = j /\ j - 1 + 1 = j
    BY <1>2
  <2>2. CASE j < p
    <3>1. j # p /\ j - 1 < p /\ j # p + 1 /\ (p < l => p + 1 \in 1..l)
      BY <1>2, <1>3, <2>1, <2>2
    <3>2. ~(p < l /\ s[j] = s[p + 1])
      BY <1>1, <1>2, <2>1, <3>1, Zenon DEF Distinct
    <3>3. ne[s[j]].next = Place(s, j - 1)
      BY <1>9, <2>1, <3>1, <3>2, Zenon
    <3>4. t[j] = s[j] /\ Place(t, j - 1) = Place(s, j - 1)
      BY <1>5, <2>1, <2>2, <3>1, Zenon
    <3> QED BY <3>3, <3>4, Zenon
  <2>3. CASE j = p
    <3>1. p < l /\ p - 1 < p /\ ~(j < p) /\ j + 1 # p
      BY <1>2, <1>3, <2>3
    <3>2. ne[s[j + 1]].next = Place(s, p - 1)
      BY <1>9, <2>1, <2>3, <3>1, Zenon
    <3>3. t[j] = s[j + 1] /\ Place(t, j - 1) = Place(s, j - 1)
      BY <1>5, <2>1, <2>3, <3>1, Zenon
    <3> QED BY <2>3, <3>2, <3>3, Zenon
  <2>4. CASE j > p
    <3>1. j + 1 # p /\ ~(j < p) /\ ~(j - 1 < p) /\ j + 1 # p + 1 /\ p + 1 \in 1..l
      BY <1>2, <1>3, <2>1, <2>4
    <3>2. s[j + 1] # s[p + 1]
      BY <1>1, <1>2, <2>1, <3>1, Zenon DEF Distinct
    <3>3. PICK k \in 1..l : k = j + 1
      BY <2>1, Zenon
    <3>4. ne[s[k]].next = Place(s, k - 1)
      BY <1>9, <3>1, <3>2, <3>3, Zenon
    <3>5. PICK h \in Int : h = j - 1
      BY <2>1, Zenon
    <3>6. t[j] = s[k] /\ Place(t, h) = Place(s, h + 1)
      BY <1>5, <3>1, <3>3, <3>5, Zenon
    <3>7. k - 1 = j /\ h + 1 = j
      BY <2>1, <3>3, <3>5
    <3> QED BY <3>4, <3>5, <3>6, <3>7, Zenon
  <2> QED BY <1>3, <2>1, <2>2, <2>3, <2>4
<1>11. Linked(t, he, ne)
  BY <1>5, <1>6, <1>7, <1>10 DEF Linked
<1> QED BY <1>4, <1>11, Zenon

\* The nodes that remain belong where they are.
LEMMA StillFiled ==
    ASSUME NEW s \in Seq(Node), Distinct(s), NEW i, NEW nd, NEW ne, Filed(s, i, nd),
           NEW p \in 1..Len(s), Bypassed(s, p, nd, ne)
    PROVE  Filed(Without(s, p), i, ne)
<1>1. PICK t : t = Without(s, p)
  OBVIOUS
<1>2. Range(t) = Range(s) \ {s[p]}
  BY <1>1, WithoutDistinct, Zenon
<1>3. ASSUME NEW m \in Range(t)
      PROVE  /\ m \in Range(s) /\ ne[m].client_id = nd[m].client_id
             /\ ne[m].username = nd[m].username
  BY <1>2, Zenon DEF Bypassed
<1>4. ASSUME NEW m \in Range(t)
      PROVE  hash(ne[m].client_id) = i /\ ne[m].username \in {0, Garbage, ne[m].client_id}
  BY <1>3, Zenon DEF Filed
<1>5. ASSUME NEW m \in Range(t), NEW k \in Range(t), ne[m].client_id = ne[k].client_id
      PROVE  m = k
  BY <1>3, <1>5, Zenon DEF Filed
<1>6. Filed(t, i, ne)
  BY <1>4, <1>5, Zenon DEF Filed
<1> QED BY <1>1, <1>6, Zenon

\* A node of one list is in no other: its id tells the bucket.
LEMMA OneList ==
    ASSUME NEW lists, NEW bk, NEW nd, ListsAre(lists, bk, nd),
           NEW i \in Index, NEW k \in Index, NEW n,
           n \in Range(lists[i]), n \in Range(lists[k])
    PROVE  i = k
<1>1. Filed(lists[i], i, nd) /\ Filed(lists[k], k, nd)
  BY Zenon DEF ListsAre
<1> QED BY <1>1, Zenon DEF Filed

\* Only list i differs, and only in having or not having n.
Changed(lists, new, i) == \A k \in Index : k # i => new[k] = lists[k]

\* n is the only node that is written.
Only(n, nd, ne) == \A m \in Node : m # n => ne[m] = nd[m]

\* n comes from the free array or from malloc.
Taken(n, fr, mal, fe, me) == Range(fe) = Range(fr) \ {n} /\ me = mal \cup {n}

\* The heap and the bookkeeping after client_map_new_entry.
LEMMA Inserted ==
    ASSUME NEW lists \in [Index -> Seq(Node)], NEW bk, NEW nd, NEW fr, NEW mal,
           ListsAre(lists, bk, nd), Kept(lists, nd, fr, mal),
           NEW n \in Node, NEW id \in Nat, NEW i \in Index, hash(id) = i,
           ~InList(lists, n), Absent(lists[i], id, nd),
           NEW be, NEW ne, NEW fe, NEW me,
           Entered(n, id, bk[i], ne), Only(n, nd, ne), be[i] = n, Changed(bk, be, i),
           Taken(n, fr, mal, fe, me)
    PROVE  \E new \in [Index -> Seq(Node)] : ListsAre(new, be, ne) /\ Kept(new, ne, fe, me)
<1>1. \A k \in Index : /\ lists[k] \in Seq(Node) /\ n \notin Range(lists[k])
                       /\ Linked(lists[k], bk[k], nd) /\ Filed(lists[k], k, nd)
  BY Zenon DEF ListsAre, InList
<1>2. \A k \in Index : Same(lists[k], nd, ne)
  <2>1. \A k \in Index : Range(lists[k]) \subseteq Node
    BY <1>1, SeqRange, Zenon
  <2> QED BY <1>1, <2>1, Zenon DEF Same, Only
<1>3. PICK t : t = Append(lists[i], n)
  OBVIOUS
<1>4. Linked(t, n, ne) /\ Filed(t, i, ne) /\ Range(t) = Range(lists[i]) \cup {n}
  <2>1. Linked(lists[i], bk[i], nd) /\ Filed(lists[i], i, nd) /\ Same(lists[i], nd, ne)
    BY <1>1, <1>2, Zenon
  <2>2. n \notin Range(lists[i])
    BY <1>1, Zenon
  <2>3. Longer(Append(lists[i], n), lists[i], n, i, ne)
    BY <2>1, <2>2, Pushed, Zenon
  <2> QED BY <1>3, <2>3, Zenon DEF Longer
<1>5. t \in Seq(Node)
  BY <1>4, Zenon DEF Linked
<1>6. PICK new : new = [lists EXCEPT ![i] = t]
  OBVIOUS
<1>7. new \in [Index -> Seq(Node)] /\ new[i] = t /\ Changed(lists, new, i)
  BY <1>5, <1>6, Zenon DEF Changed
<1>8. ASSUME NEW k \in Index PROVE Linked(new[k], be[k], ne) /\ Filed(new[k], k, ne)
  <2>1. CASE k = i
    BY <1>4, <1>7, <2>1, Zenon
  <2>2. CASE k # i
    <3>1. Linked(lists[k], bk[k], ne) /\ Filed(lists[k], k, ne)
      BY <1>1, <1>2, Untouched, Zenon
    <3>2. new[k] = lists[k] /\ be[k] = bk[k]
      BY <1>7, <2>2, Zenon DEF Changed
    <3> QED BY <3>1, <3>2, Zenon
  <2> QED BY <2>1, <2>2
<1>9. ListsAre(new, be, ne)
  BY <1>8, Zenon DEF ListsAre
<1>10. InList(new, n)
  BY <1>4, <1>7, Zenon DEF InList
<1>11. ASSUME NEW m \in Node, m # n PROVE InList(new, m) <=> InList(lists, m)
  <2>1. \A k \in Index : m \in Range(new[k]) <=> m \in Range(lists[k])
    BY <1>4, <1>7, <1>11, Zenon DEF Changed
  <2> QED BY <2>1, Zenon DEF InList
<1>12. ASSUME NEW m \in Node
       PROVE  /\ m \in me <=> m \in Range(fe) \/ InList(new, m)
              /\ ~(m \in Range(fe) /\ InList(new, m))
              /\ ~InList(new, m) => ne[m].username \in {0, Garbage}
  <2>1. CASE m = n
    BY <1>10, <2>1, Zenon DEF Taken
  <2>2. CASE m # n
    <3>1. /\ m \in mal <=> m \in Range(fr) \/ InList(lists, m)
          /\ ~(m \in Range(fr) /\ InList(lists, m))
          /\ ~InList(lists, m) => nd[m].username \in {0, Garbage}
      BY Zenon DEF Kept
    <3>2. ne[m] = nd[m] /\ (m \in me <=> m \in mal) /\ (m \in Range(fe) <=> m \in Range(fr))
      BY <2>2, Zenon DEF Only, Taken
    <3> QED BY <1>11, <2>2, <3>1, <3>2, Zenon
  <2> QED BY <2>1, <2>2
<1>13. Kept(new, ne, fe, me)
  BY <1>12, Zenon DEF Kept
<1> QED BY <1>7, <1>9, <1>13, Zenon

\* No node that is not in s is written.
Apart(s, nd, ne) == \A m \in Node : m \notin Range(s) => ne[m] = nd[m]

\* The bucket changes when the first node of its list leaves it.
Started(s, p, head, he) == he = IF p = Len(s) THEN Place(s, p - 1) ELSE head

Put(n, fr, fe) == Range(fe) = Range(fr) \cup {n}

\* The heap and the bookkeeping after client_map_delete.
LEMMA Removed ==
    ASSUME NEW lists \in [Index -> Seq(Node)], NEW bk, NEW nd, NEW fr, NEW mal,
           ListsAre(lists, bk, nd), Kept(lists, nd, fr, mal),
           NEW i \in Index, NEW p \in 1..Len(lists[i]), NEW n, n = lists[i][p],
           NEW be, NEW ne, NEW fe,
           Bypassed(lists[i], p, nd, ne), Apart(lists[i], nd, ne), ne[n].username = 0,
           Started(lists[i], p, bk[i], be[i]), Changed(bk, be, i), Put(n, fr, fe)
    PROVE  \E new \in [Index -> Seq(Node)] : ListsAre(new, be, ne) /\ Kept(new, ne, fe, mal)
<1>1. \A k \in Index : /\ lists[k] \in Seq(Node) /\ Distinct(lists[k])
                       /\ Linked(lists[k], bk[k], nd) /\ Filed(lists[k], k, nd)
  BY Zenon DEF ListsAre, Linked
<1>2. \A k \in Index : Range(lists[k]) \subseteq Node
  BY <1>1, SeqRange, Zenon
<1>3. n \in Range(lists[i])
  BY <1>1, SeqRange, Zenon
<1>4. PICK t : t = Without(lists[i], p)
  OBVIOUS
<1>5. t \in Seq(Node) /\ Range(t) = Range(lists[i]) \ {n}
  <2>1. lists[i] \in Seq(Node) /\ Distinct(lists[i])
    BY <1>1, Zenon
  <2>2. t \in Seq(Node)
    BY <1>4, <2>1, WithoutPlaces, Zenon
  <2>3. Range(t) = Range(lists[i]) \ {lists[i][p]}
    BY <1>4, <2>1, WithoutDistinct, Zenon
  <2> QED BY <2>2, <2>3, Zenon
<1>6. PICK new : new = [lists EXCEPT ![i] = t]
  OBVIOUS
<1>7. new \in [Index -> Seq(Node)] /\ new[i] = t /\ Changed(lists, new, i)
  BY <1>5, <1>6, Zenon DEF Changed
<1>8. Linked(t, be[i], ne) /\ Filed(t, i, ne)
  <2>1. lists[i] \in Seq(Node) /\ Distinct(lists[i])
    BY <1>1, Zenon
  <2>2. Linked(lists[i], bk[i], nd) /\ Filed(lists[i], i, nd)
    BY <1>1, Zenon
  <2>3. Linked(Without(lists[i], p), be[i], ne)
    <3>1. be[i] = IF p = Len(lists[i]) THEN Place(lists[i], p - 1) ELSE bk[i]
      BY Zenon DEF Started
    <3> QED BY <2>2, <3>1, Unlinked, Zenon
  <2>4. Filed(Without(lists[i], p), i, ne)
    BY <2>1, <2>2, StillFiled, Zenon
  <2> QED BY <1>4, <2>3, <2>4, Zenon
<1>9. ASSUME NEW k \in Index, k # i, NEW m \in Range(lists[k]) PROVE m \notin Range(lists[i])
  BY <1>9, OneList, Zenon
<1>10. ASSUME NEW k \in Index PROVE Linked(new[k], be[k], ne) /\ Filed(new[k], k, ne)
  <2>1. CASE k = i
    BY <1>7, <1>8, <2>1, Zenon
  <2>2. CASE k # i
    <3>1. Same(lists[k], nd, ne)
      BY <1>2, <1>9, <2>2, Zenon DEF Same, Apart
    <3>2. Linked(lists[k], bk[k], ne) /\ Filed(lists[k], k, ne)
      BY <1>1, <3>1, Untouched, Zenon
    <3>3. new[k] = lists[k] /\ be[k] = bk[k]
      BY <1>7, <2>2, Zenon DEF Changed
    <3> QED BY <3>2, <3>3, Zenon
  <2> QED BY <2>1, <2>2
<1>11. ListsAre(new, be, ne)
  BY <1>10, Zenon DEF ListsAre
<1>12. ~InList(new, n)
  <2>1. ASSUME NEW k \in Index PROVE n \notin Range(new[k])
    <3>1. CASE k = i
      BY <1>5, <1>7, <3>1, Zenon
    <3>2. CASE k # i
      BY <1>3, <1>7, <1>9, <3>2, Zenon DEF Changed
    <3> QED BY <3>1, <3>2
  <2> QED BY <2>1, Zenon DEF InList
<1>13. ASSUME NEW m \in Node, m # n PROVE InList(new, m) <=> InList(lists, m)
  <2>1. \A k \in Index : m \in Range(new[k]) <=> m \in Range(lists[k])
    BY <1>5, <1>7, <1>13, Zenon DEF Changed
  <2> QED BY <2>1, Zenon DEF InList
<1>14. \A m \in Node : InList(lists, m) \/ ne[m] = nd[m]
  BY Zenon DEF InList, Apart
<1>15. ASSUME NEW m \in Node
       PROVE  /\ m \in mal <=> m \in Range(fe) \/ InList(new, m)
              /\ ~(m \in Range(fe) /\ InList(new, m))
              /\ ~InList(new, m) => ne[m].username \in {0, Garbage}
  <2>1. /\ m \in mal <=> m \in Range(fr) \/ InList(lists, m)
        /\ ~(m \in Range(fr) /\ InList(lists, m))
        /\ ~InList(lists, m) => nd[m].username \in {0, Garbage}
    BY Zenon DEF Kept
  <2>2. CASE m = n
    <3>1. InList(lists, n)
      BY <1>3, Zenon DEF InList
    <3> QED BY <1>12, <2>1, <2>2, <3>1, Zenon DEF Put
  <2>3. CASE m # n
    <3>1. m \in Range(fe) <=> m \in Range(fr)
      BY <2>3, Zenon DEF Put
    <3> QED BY <1>13, <1>14, <2>1, <2>3, <3>1, Zenon
  <2> QED BY <2>2, <2>3
<1>16. Kept(new, ne, fe, mal)
  BY <1>15, Zenon DEF Kept
<1> QED BY <1>7, <1>11, <1>16, Zenon

-----------------------------------------------------------------------------
(* The invariant of the map.                                               *)

\* client_map_init: the lists are empty.
LEMMA MapInit ==
    ASSUME Init
    PROVE  MapInv
<1>1. /\ buckets = [i \in Index |-> NULL] /\ free = <<>> /\ free_cap = FreeCap
      /\ malloced = {} /\ node = [n \in Node |-> [Zeroed EXCEPT !.username = Garbage]]
  BY Zenon DEF Init, client_map_init, Index
<1>2. PICK z : z = [client_id |-> 0, next |-> NULL, username |-> Garbage]
  OBVIOUS
<1>3. [Zeroed EXCEPT !.username = Garbage] = z
  BY <1>2 DEF Zeroed
<1>4. z \in Info /\ z.username = Garbage
  BY <1>2 DEF Info
<1>5. node = [n \in Node |-> z]
  BY <1>1, <1>3, Zenon
<1>6. node \in [Node -> Info] /\ \A n \in Node : node[n].username = Garbage
  BY <1>4, <1>5, Zenon
<1>7. buckets \in [Index -> Node \cup {NULL}]
  BY <1>1, Zenon
<1>8. free \in Seq(Node) /\ Distinct(free) /\ Len(free) = 0
  BY <1>1 DEF Distinct
<1>9. free_cap \in Nat /\ free_cap >= 1 /\ Len(free) <= free_cap
  <2>1. free_cap \in Nat \ {0}
    BY <1>1, ClientMapAssumption, Zenon
  <2> QED BY <1>8, <2>1
<1>10. MapTypes
  BY <1>1, <1>6, <1>7, <1>8, <1>9, Zenon DEF MapTypes
<1>11. PICK e : e = <<>> /\ e \in Seq(Node) /\ Len(e) = 0
  <2>1. <<>> \in Seq(Node) /\ Len(<<>>) = 0
    OBVIOUS
  <2> QED BY <2>1, Zenon
<1>12. PICK lists : lists = [i \in Index |-> e]
  OBVIOUS
<1>13. lists \in [Index -> Seq(Node)] /\ \A i \in Index : lists[i] = e
  BY <1>11, <1>12, Zenon
<1>14. \A x : x \notin Range(e)
  BY <1>11, EmptyRange, Zenon
<1>15. \A j : j \notin 1..Len(e)
  BY <1>11
<1>16. Linked(e, NULL, node)
  BY <1>11, <1>15, Zenon DEF Linked, Distinct, Place
<1>17. \A i \in Index : Filed(e, i, node)
  BY <1>14, Zenon DEF Filed
<1>18. ListsAre(lists, buckets, node)
  BY <1>1, <1>13, <1>16, <1>17, Zenon DEF ListsAre
<1>19. \A n : ~InList(lists, n)
  BY <1>13, <1>14, Zenon DEF InList
<1>20. \A n : n \notin Range(free)
  BY <1>1, EmptyRange, Zenon
<1>21. Kept(lists, node, free, malloced)
  BY <1>1, <1>6, <1>19, <1>20, Zenon DEF Kept
<1> QED BY <1>8, <1>9, <1>10, <1>13, <1>18, <1>21, Zenon DEF MapInv

\* The node client_map_new_entry takes is in no list.
LEMMA NodeTaken ==
    ASSUME MapTypes, Distinct(free), NEW lists, Kept(lists, node, free, malloced),
           NEW n \in Node, take_free(n) \/ malloc_node(n)
    PROVE  /\ ~InList(lists, n) /\ Taken(n, free, malloced, free', malloced')
           /\ free' \in Seq(Node) /\ Distinct(free') /\ Len(free') <= Len(free)
           /\ malloced' \subseteq Node
<1>1. free \in Seq(Node) /\ malloced \subseteq Node
  BY Zenon DEF MapTypes
<1>2. Len(free) \in Nat /\ Len(free) <= Len(free)
  BY <1>1
<1>3. CASE take_free(n)
  <2>1. free # <<>> /\ n = free[1] /\ free' = Swapped(free) /\ malloced' = malloced
    BY <1>3, Zenon DEF take_free, Swapped
  <2>2. /\ free' \in Seq(Node) /\ Distinct(free') /\ Len(free') <= Len(free)
        /\ Range(free') = Range(free) \ {free[1]} /\ free[1] \in Range(free)
    BY <1>1, <2>1, SwapOut, Zenon
  <2>3. n \in malloced /\ ~InList(lists, n)
    BY <2>1, <2>2, Zenon DEF Kept
  <2>4. malloced' = malloced \cup {n}
    BY <2>1, <2>3, Zenon
  <2>5. Taken(n, free, malloced, free', malloced')
    BY <2>1, <2>2, <2>4, Zenon DEF Taken
  <2> QED BY <1>1, <2>1, <2>2, <2>3, <2>5, Zenon
<1>4. CASE malloc_node(n)
  <2>1. /\ free = <<>> /\ n \notin malloced /\ malloced' = malloced \cup {n}
        /\ free' = free
    BY <1>4, Zenon DEF malloc_node
  <2>2. ~InList(lists, n) /\ n \notin Range(free)
    BY <2>1, Zenon DEF Kept
  <2>3. Taken(n, free, malloced, free', malloced')
    BY <2>1, <2>2, Zenon DEF Taken
  <2> QED BY <1>1, <1>2, <2>1, <2>2, <2>3, Zenon
<1> QED BY <1>3, <1>4

\* What the two assignments of client_map_new_entry write.
Write(nd, n, id, head) == [nd EXCEPT ![n].next = head, ![n].client_id = id]
Wrote(nd, n, id, head, ne) ==
    /\ ne \in [Node -> Info] /\ Only(n, nd, ne)
    /\ ne[n].next = head /\ ne[n].client_id = id /\ ne[n].username = nd[n].username

LEMMA NodeWritten ==
    ASSUME NEW nd \in [Node -> Info], NEW n \in Node, NEW id \in Nat,
           NEW head \in Node \cup {NULL},
           NEW ne, ne = Write(nd, n, id, head)
    PROVE  Wrote(nd, n, id, head, ne)
<1>1. PICK r : r = [nd[n] EXCEPT !.next = head, !.client_id = id]
  OBVIOUS
<1>2. nd[n] \in Info
  OBVIOUS
<1>3. r \in Info /\ r.next = head /\ r.client_id = id /\ r.username = nd[n].username
  BY <1>1, <1>2 DEF Info
<1>4. ne = [nd EXCEPT ![n] = r]
  BY <1>1, <1>2 DEF Info, Write
<1>5. ne \in [Node -> Info] /\ ne[n] = r
  BY <1>3, <1>4, Zenon
<1>6. Only(n, nd, ne)
  BY <1>4, Zenon DEF Only
<1> QED BY <1>3, <1>5, <1>6, Zenon DEF Wrote

\* What MapInv says of the next state.
LEMMA MapInvNext ==
    ASSUME MapTypes', Distinct(free'), Len(free') <= free_cap',
           NEW new \in [Index -> Seq(Node)],
           ListsAre(new, buckets', node'), Kept(new, node', free', malloced')
    PROVE  MapInv'
BY Zenon DEF MapInv

\* The nodes in use are those malloc has returned that are not free.
InUse == malloced \ Range(free)

\* n comes into use for id.
Enters(n, id) ==
    /\ client_map_get(id) = NULL /\ n \notin InUse
    /\ Taken(n, free, malloced, free', malloced') /\ Only(n, node, node')
    /\ node'[n].client_id = id

\* client_map_new_entry keeps the invariant, and takes a node that was not in use.
LEMMA NewEntry ==
    ASSUME MapInv, NEW id \in Id, client_map_new_entry(id)
    PROVE  MapInv' /\ (UNCHANGED vars \/ \E n \in Node : Enters(n, id))
<1>1. CASE UNCHANGED vars
  BY <1>1, Zenon DEF vars, MapInv, MapTypes
<1>2. CASE ~UNCHANGED vars
  <2>1. PICK n \in Node :
            /\ client_map_get(id) = NULL
            /\ take_free(n) \/ malloc_node(n)
            /\ node' = [node EXCEPT ![n].next = buckets[hash(id)], ![n].client_id = id]
            /\ buckets' = [buckets EXCEPT ![hash(id)] = n]
            /\ free_cap' = free_cap
    BY <1>2, Zenon DEF client_map_new_entry
  <2>2. /\ MapTypes /\ Distinct(free) /\ Len(free) <= free_cap
        /\ \E lists \in [Index -> Seq(Node)] :
               ListsAre(lists, buckets, node) /\ Kept(lists, node, free, malloced)
    BY Zenon DEF MapInv
  <2>3. PICK lists \in [Index -> Seq(Node)] :
            ListsAre(lists, buckets, node) /\ Kept(lists, node, free, malloced)
    BY <2>2, Zenon
  <2>4. /\ buckets \in [Index -> Node \cup {NULL}] /\ node \in [Node -> Info]
        /\ free \in Seq(Node) /\ free_cap \in Nat /\ free_cap >= 1
    BY <2>2, Zenon DEF MapTypes
  <2>5. id \in Nat
    BY ClientMapAssumption
  <2>6. PICK i \in Index : i = hash(id)
    BY <2>5, HashIndex, Zenon
  <2>7. /\ ~InList(lists, n) /\ Taken(n, free, malloced, free', malloced')
        /\ free' \in Seq(Node) /\ Distinct(free') /\ Len(free') <= Len(free)
        /\ malloced' \subseteq Node
    BY <2>1, <2>2, <2>3, NodeTaken, Zenon
  <2>8. buckets[i] \in Node \cup {NULL}
    BY <2>4, Zenon
  <2>9. /\ node' \in [Node -> Info] /\ Only(n, node, node')
        /\ node'[n].next = buckets[i] /\ node'[n].client_id = id
        /\ node'[n].username = node[n].username
    <3>1. node' = Write(node, n, id, buckets[i])
      BY <2>1, <2>6, Zenon DEF Write
    <3>2. node \in [Node -> Info]
      BY <2>4, Zenon
    <3>3. Wrote(node, n, id, buckets[i], node')
      BY <2>5, <2>8, <3>1, <3>2, NodeWritten, Zenon
    <3> QED BY <3>3, Zenon DEF Wrote
  <2>10. Entered(n, id, buckets[i], node')
    BY <2>3, <2>7, <2>9, Zenon DEF Entered, Kept
  <2>11. Absent(lists[i], id, node)
    <3>1. ASSUME NEW m \in Range(lists[i]) PROVE node[m].client_id # id
      <4>1. m \in Node
        <5>1. lists[i] \in Seq(Node)
          BY Zenon
        <5> QED BY <5>1, SeqRange, Zenon
      <4>2. Found(lists, id, m) => client_map_get(id) = m
        BY <2>3, <2>5, <4>1, GetIs, Zenon
      <4> QED BY <2>1, <2>6, <4>1, <4>2, NodeCount, Zenon DEF Found
    <3> QED BY <3>1, Zenon DEF Absent
  <2>12. /\ buckets' \in [Index -> Node \cup {NULL}] /\ buckets'[i] = n
         /\ Changed(buckets, buckets', i)
    BY <2>1, <2>4, <2>6, Zenon DEF Changed
  <2>13. \E new \in [Index -> Seq(Node)] :
             ListsAre(new, buckets', node') /\ Kept(new, node', free', malloced')
    BY <2>3, <2>5, <2>6, <2>7, <2>9, <2>10, <2>11, <2>12, Inserted, Zenon
  <2>14. Len(free') <= free_cap'
    BY <2>1, <2>2, <2>4, <2>7
  <2>15. MapTypes'
    BY <2>1, <2>4, <2>7, <2>9, <2>12, Zenon DEF MapTypes
  <2>16. MapInv'
    BY <2>7, <2>13, <2>14, <2>15, MapInvNext, Zenon
  <2>17. n \notin InUse
    BY <2>3, <2>7, Zenon DEF InUse, Kept
  <2>18. Enters(n, id)
    BY <2>1, <2>7, <2>9, <2>17, Zenon DEF Enters
  <2> QED BY <2>16, <2>18, Zenon
<1> QED BY <1>1, <1>2

\* Storing the username keeps the invariant and every id.
LEMMA SetUsername ==
    ASSUME MapInv, NEW id \in Id, set_username(id)
    PROVE  MapInv' /\ \A m \in Node : node'[m].client_id = node[m].client_id
<1>1. PICK g : g = client_map_get(id)
  OBVIOUS
<1>2. /\ g # NULL /\ node' = [node EXCEPT ![g].username = id]
      /\ buckets' = buckets /\ free' = free /\ free_cap' = free_cap /\ malloced' = malloced
  BY <1>1, Zenon DEF set_username
<1>3. /\ MapTypes /\ Distinct(free) /\ Len(free) <= free_cap
      /\ \E lists \in [Index -> Seq(Node)] :
             ListsAre(lists, buckets, node) /\ Kept(lists, node, free, malloced)
  BY Zenon DEF MapInv
<1>4. PICK lists \in [Index -> Seq(Node)] :
          ListsAre(lists, buckets, node) /\ Kept(lists, node, free, malloced)
  BY <1>3, Zenon
<1>5. id \in Nat
  BY ClientMapAssumption
<1>6. PICK i \in Index : i = hash(id)
  BY <1>5, HashIndex, Zenon
<1>7. g \in Node /\ g \in Range(lists[i]) /\ node[g].client_id = id
  <2>1. g \in Node /\ Found(lists, id, g)
    BY <1>1, <1>2, <1>4, <1>5, GetIs, Zenon
  <2> QED BY <1>6, <2>1, Zenon DEF Found
<1>8. node \in [Node -> Info]
  BY <1>3, Zenon DEF MapTypes
<1>9. PICK ne : ne = node'
  OBVIOUS
<1>10. /\ ne \in [Node -> Info]
       /\ \A m \in Node :
              /\ m # g => ne[m] = node[m]
              /\ ne[m].next = node[m].next /\ ne[m].client_id = node[m].client_id
              /\ ne[m].username = IF m = g THEN id ELSE node[m].username
  <2>1. PICK r : r = [node[g] EXCEPT !.username = id]
    OBVIOUS
  <2>2. node[g] \in Info
    BY <1>7, <1>8, Zenon
  <2>3. /\ r \in Info /\ r.next = node[g].next /\ r.client_id = node[g].client_id
        /\ r.username = id
    BY <1>5, <2>1, <2>2 DEF Info
  <2>4. ne = [node EXCEPT ![g] = r]
    BY <1>2, <1>9, <2>1, Zenon
  <2>5. ne \in [Node -> Info] /\ ne[g] = r /\ \A m \in Node : m # g => ne[m] = node[m]
    BY <1>7, <1>8, <2>3, <2>4, Zenon
  <2>6. ASSUME NEW m \in Node
        PROVE  /\ ne[m].next = node[m].next /\ ne[m].client_id = node[m].client_id
               /\ ne[m].username = IF m = g THEN id ELSE node[m].username
    <3>1. CASE m = g
      BY <2>3, <2>5, <3>1, Zenon
    <3>2. CASE m # g
      BY <2>5, <3>2, Zenon
    <3> QED BY <3>1, <3>2
  <2> QED BY <2>5, <2>6, Zenon
<1>11. ASSUME NEW k \in Index PROVE Linked(lists[k], buckets[k], ne) /\ Filed(lists[k], k, ne)
  <2>1. PICK s : s = lists[k] /\ s \in Seq(Node)
    OBVIOUS
  <2>2. Linked(s, buckets[k], node) /\ Filed(s, k, node)
    BY <1>4, <2>1, Zenon DEF ListsAre
  <2>3. Range(s) \subseteq Node /\ \A j \in 1..Len(s) : s[j] \in Node
    BY <2>1, SeqRange, ElementOfSeq, Zenon
  <2>4. \A j \in 1..Len(s) : ne[s[j]].next = node[s[j]].next
    BY <1>10, <2>3, Zenon
  <2>5. Linked(s, buckets[k], ne)
    BY <2>2, <2>4, Zenon DEF Linked
  <2>6. ASSUME NEW m \in Range(s)
        PROVE  hash(ne[m].client_id) = k /\ ne[m].username \in {0, Garbage, ne[m].client_id}
    <3>1. /\ ne[m].client_id = node[m].client_id
          /\ ne[m].username = IF m = g THEN id ELSE node[m].username
      BY <1>10, <2>3, Zenon
    <3>2. hash(node[m].client_id) = k /\ node[m].username \in {0, Garbage, node[m].client_id}
      BY <2>2, Zenon DEF Filed
    <3> QED BY <1>7, <3>1, <3>2, Zenon
  <2>7. ASSUME NEW m \in Range(s), NEW q \in Range(s), ne[m].client_id = ne[q].client_id
        PROVE  m = q
    <3>1. ne[m].client_id = node[m].client_id /\ ne[q].client_id = node[q].client_id
      BY <1>10, <2>3, Zenon
    <3> QED BY <2>2, <2>7, <3>1, Zenon DEF Filed
  <2>8. Filed(s, k, ne)
    BY <2>6, <2>7, Zenon DEF Filed
  <2> QED BY <2>1, <2>5, <2>8, Zenon
<1>12. ListsAre(lists, buckets', node')
  BY <1>2, <1>9, <1>11, Zenon DEF ListsAre
<1>13. InList(lists, g)
  BY <1>7, Zenon DEF InList
<1>14. ASSUME NEW m \in Node
       PROVE  ~InList(lists, m) => ne[m].username \in {0, Garbage}
  <2>1. ~InList(lists, m) => ne[m] = node[m]
    BY <1>10, <1>13, Zenon
  <2> QED BY <1>4, <2>1, Zenon DEF Kept
<1>15. Kept(lists, ne, free, malloced)
  BY <1>4, <1>14, Zenon DEF Kept
<1>16. Kept(lists, node', free', malloced')
  BY <1>2, <1>9, <1>15, Zenon
<1>17. MapTypes'
  BY <1>2, <1>3, <1>9, <1>10, Zenon DEF MapTypes
<1>18. Distinct(free') /\ Len(free') <= free_cap'
  BY <1>2, <1>3, Zenon
<1>19. \A m \in Node : node'[m].client_id = node[m].client_id
  BY <1>9, <1>10, Zenon
<1> QED BY <1>12, <1>16, <1>17, <1>18, <1>19, MapInvNext, Zenon

\* Where the loop of client_map_delete stops: at the first node, or with the
\* node before the one it looks for.
LEMMA HeadIs ==
    ASSUME NEW s \in Seq(Node), Distinct(s), NEW w, Meets(w, s), NEW p \in 1..Len(s)
    PROVE  w[0] = s[p] <=> p = Len(s)
<1>1. PICK l \in Nat : l = Len(s)
  BY LenProperties
<1>2. p \in 1..l /\ l \in 1..l /\ 0 \in 0..N /\ l - l = 0 /\ l - 0 = l
  BY <1>1, NodeCount
<1>3. /\ \A j \in 1..l : l - j \in 0..N /\ w[l - j] = s[j]
      /\ \A i, j \in 1..l : s[i] = s[j] => i = j
  BY <1>1, Zenon DEF Meets, Distinct
<1>4. w[0] = s[l]
  BY <1>2, <1>3
<1> QED BY <1>1, <1>2, <1>3, <1>4, Zenon

Before(w, n) == w[CHOOSE k \in 0..(N - 1) : w[k + 1] = n]
Stops(w, s, p) == p + 1 \in 1..Len(s) /\ Before(w, s[p]) = s[p + 1]

LEMMA PrevIs ==
    ASSUME NEW s \in Seq(Node), Distinct(s), NEW w, Meets(w, s), NEW p \in 1..Len(s),
           p # Len(s)
    PROVE  Stops(w, s, p)
<1>0. PICK n : n = s[p]
  OBVIOUS
<1>1. PICK l \in Nat : l = Len(s) /\ l <= N
  BY ShortList, Zenon
<1>2. p \in 1..l /\ p # l /\ N \in Nat
  BY <1>1, NodeCount, Zenon
<1>3. PICK h \in Int : h = l - p - 1
  <2>1. l - p - 1 \in Int
    BY <1>1, <1>2
  <2> QED BY <2>1, Zenon
<1>4. /\ p + 1 \in 1..l /\ h \in 0..(N - 1) /\ h \in 0..N /\ h + 1 \in 0..N
      /\ h + 1 = l - p /\ h = l - (p + 1)
  BY <1>1, <1>2, <1>3
<1>5. /\ \A j \in 1..l : l - j \in 0..N /\ w[l - j] = s[j]
      /\ \A m \in Node : \A j, k \in 0..N : w[j] = m /\ w[k] = m => j = k
  BY <1>1, Zenon DEF Meets
<1>6. w[h + 1] = n /\ w[h] = s[p + 1] /\ n \in Node
  <2>1. w[l - p] = s[p] /\ w[l - (p + 1)] = s[p + 1]
    BY <1>2, <1>4, <1>5, Zenon
  <2>2. s[p] \in Node
    BY ElementOfSeq, Zenon
  <2> QED BY <1>0, <1>4, <2>1, <2>2, Zenon
<1>7. PICK c : c = CHOOSE k \in 0..(N - 1) : w[k + 1] = n
  OBVIOUS
<1>8. c \in 0..(N - 1) /\ w[c + 1] = n
  BY <1>4, <1>6, <1>7, Zenon
<1>9. c + 1 \in 0..N
  BY <1>2, <1>8
<1>10. c + 1 = h + 1
  BY <1>4, <1>5, <1>6, <1>8, <1>9, Zenon
<1>11. c = h
  BY <1>2, <1>3, <1>8, <1>10
<1>12. Before(w, n) = s[p + 1]
  BY <1>6, <1>7, <1>11, Zenon DEF Before
<1> QED BY <1>0, <1>1, <1>4, <1>12, Zenon DEF Stops

\* What client_map_delete writes when it unlinks n behind q.
Cut(nd, q, n, nx) == [nd EXCEPT ![q].next = nx, ![n] = Zeroed]

WasCut(nd, q, n, nx, ne) ==
    /\ ne \in [Node -> Info] /\ ne[n] = Zeroed
    /\ \A m \in Node : m # n =>
           /\ m # q => ne[m] = nd[m]
           /\ ne[m].client_id = nd[m].client_id /\ ne[m].username = nd[m].username
           /\ ne[m].next = IF m = q THEN nx ELSE nd[m].next

\* What memset leaves.
LEMMA ZeroedInfo == Zeroed \in Info /\ Zeroed.username = 0
BY DEF Zeroed, Info

\* Two nodes are written, one of them cleared.
LEMMA NodeCut ==
    ASSUME NEW nd \in [Node -> Info], NEW q \in Node, NEW n \in Node, q # n,
           NEW nx \in Node \cup {NULL}, NEW ne, ne = Cut(nd, q, n, nx)
    PROVE  WasCut(nd, q, n, nx, ne)
<1>1. PICK r : r = [nd[q] EXCEPT !.next = nx]
  OBVIOUS
<1>2. nd[q] \in Info
  OBVIOUS
<1>3. /\ r \in Info /\ r.next = nx /\ r.client_id = nd[q].client_id
      /\ r.username = nd[q].username
  BY <1>1, <1>2 DEF Info
<1>4. PICK u : u = [nd EXCEPT ![q] = r]
  OBVIOUS
<1>5. u \in [Node -> Info] /\ u[q] = r /\ \A m \in Node : m # q => u[m] = nd[m]
  BY <1>3, <1>4, Zenon
<1>6. ne = [u EXCEPT ![n] = Zeroed]
  BY <1>1, <1>4, Zenon DEF Cut
<1>7. ne \in [Node -> Info] /\ ne[n] = Zeroed /\ \A m \in Node : m # n => ne[m] = u[m]
  BY <1>5, <1>6, ZeroedInfo, Zenon
<1>8. ASSUME NEW m \in Node, m # n
      PROVE  /\ m # q => ne[m] = nd[m]
             /\ ne[m].client_id = nd[m].client_id /\ ne[m].username = nd[m].username
             /\ ne[m].next = IF m = q THEN nx ELSE nd[m].next
  <2>1. CASE m = q
    BY <1>3, <1>5, <1>7, <1>8, <2>1, Zenon
  <2>2. CASE m # q
    <3>1. ne[m] = nd[m]
      BY <1>5, <1>7, <1>8, <2>2, Zenon
    <3> QED BY <2>2, <3>1, Zenon
  <2> QED BY <2>1, <2>2
<1> QED BY <1>7, <1>8, Zenon DEF WasCut

\* n goes out of use.
Leaves(n) ==
    /\ n \in Node /\ Put(n, free, free') /\ malloced' = malloced
    /\ \A m \in Node : m # n => node'[m].client_id = node[m].client_id

Unlink(n, list, i) ==
    IF list[0] = n
    THEN /\ buckets' = [buckets EXCEPT ![i] = node[n].next]
         /\ node' = [node EXCEPT ![n] = Zeroed]
    ELSE /\ node' = Cut(node, Before(list, n), n, node[n].next)
         /\ buckets' = buckets

\* The part of client_map_delete behind the search.
LEMMA DeletedNode ==
    ASSUME MapInv, NEW id \in Id, NEW n, n = client_map_get(id), n # NULL,
           NEW list, list = Nth(buckets[hash(id)]),
           Unlink(n, list, hash(id)), client_map_add_free(n), malloced' = malloced
    PROVE  MapInv' /\ Leaves(n)
<1>1. /\ MapTypes /\ Distinct(free) /\ Len(free) <= free_cap
      /\ \E lists \in [Index -> Seq(Node)] :
             ListsAre(lists, buckets, node) /\ Kept(lists, node, free, malloced)
  BY Zenon DEF MapInv
<1>2. PICK lists \in [Index -> Seq(Node)] :
          ListsAre(lists, buckets, node) /\ Kept(lists, node, free, malloced)
  BY <1>1, Zenon
<1>3. /\ buckets \in [Index -> Node \cup {NULL}] /\ node \in [Node -> Info]
      /\ free \in Seq(Node) /\ free_cap \in Nat /\ free_cap >= 1 /\ malloced \subseteq Node
  BY <1>1, Zenon DEF MapTypes
<1>4. id \in Nat
  BY ClientMapAssumption
<1>5. PICK i \in Index : i = hash(id)
  BY <1>4, HashIndex, Zenon
<1>6. PICK s : s = lists[i]
  OBVIOUS
<1>7. /\ s \in Seq(Node) /\ Distinct(s) /\ Linked(s, buckets[i], node)
      /\ list = Walk(s)
  BY <1>2, <1>5, <1>6, ListParts, Zenon
<1>8. Meets(list, s)
  BY <1>7, WalkMeets, Zenon
<1>9. n \in Node /\ n \in Range(s) /\ InList(lists, n)
  <2>1. n \in Node /\ Found(lists, id, n)
    BY <1>2, <1>4, GetIs, Zenon
  <2> QED BY <1>5, <1>6, <2>1, Zenon DEF Found, InList
<1>10. PICK p \in 1..Len(s) : n = s[p]
  BY <1>7, <1>9, SeqRange, Zenon
<1>11. PICK nx : nx = Place(s, p - 1)
  OBVIOUS
<1>12. node[n].next = nx /\ nx \in Node \cup {NULL}
  <2>1. node[s[p]].next = Place(s, p - 1)
    BY <1>7, Zenon DEF Linked
  <2>2. node[n] \in Info
    BY <1>3, <1>9, Zenon
  <2>3. node[n].next \in Node \cup {NULL}
    BY <2>2 DEF Info
  <2> QED BY <1>10, <1>11, <2>1, <2>3, Zenon
<1>13. list[0] = n <=> p = Len(s)
  BY <1>7, <1>8, <1>10, HeadIs, Zenon
<1>14. PICK be, ne : be = buckets' /\ ne = node'
  OBVIOUS
<1>15. /\ ne \in [Node -> Info] /\ ne[n] = Zeroed
       /\ be \in [Index -> Node \cup {NULL}] /\ Changed(buckets, be, i)
       /\ be[i] = IF p = Len(s) THEN Place(s, p - 1) ELSE buckets[i]
       /\ Bypassed(s, p, node, ne)
       /\ \A m \in Node : m \notin Range(s) => ne[m] = node[m]
  <2>1. Range(s) \subseteq Node
    BY <1>7, SeqRange, Zenon
  <2>2. CASE p = Len(s)
    <3>1. be = [buckets EXCEPT ![i] = nx] /\ ne = [node EXCEPT ![n] = Zeroed]
      BY <1>5, <1>12, <1>13, <1>14, <2>2, Zenon DEF Unlink
    <3>2. /\ be \in [Index -> Node \cup {NULL}] /\ be[i] = nx
          /\ Changed(buckets, be, i)
      BY <1>3, <1>12, <3>1, Zenon DEF Changed
    <3>3. /\ ne \in [Node -> Info] /\ ne[n] = Zeroed
          /\ \A m \in Node : m # n => ne[m] = node[m]
      BY <1>3, <1>9, <3>1, ZeroedInfo, Zenon
    <3>4. ~(p < Len(s))
      BY <1>7, <2>2
    <3>5. Bypassed(s, p, node, ne)
      <4>1. ASSUME NEW m \in Range(s), m # s[p]
            PROVE  /\ ne[m].client_id = node[m].client_id
                   /\ ne[m].username = node[m].username
                   /\ ne[m].next = IF p < Len(s) /\ m = s[p + 1] THEN Place(s, p - 1)
                                   ELSE node[m].next
        <5>1. ne[m] = node[m]
          BY <1>10, <2>1, <3>3, <4>1, Zenon
        <5> QED BY <3>4, <5>1, Zenon
      <4> QED BY <4>1, Zenon DEF Bypassed
    <3>6. \A m \in Node : m \notin Range(s) => ne[m] = node[m]
      BY <1>9, <3>3, Zenon
    <3> QED BY <1>11, <2>2, <3>2, <3>3, <3>5, <3>6, Zenon
  <2>3. CASE p # Len(s)
    <3>1. PICK q : q = Before(list, n)
      OBVIOUS
    <3>2. q = s[p + 1] /\ p + 1 \in 1..Len(s)
      <4>1. s \in Seq(Node) /\ Distinct(s)
        BY <1>7, Zenon
      <4>2. Stops(list, s, p)
        BY <1>8, <2>3, <4>1, PrevIs, Zenon
      <4> QED BY <1>10, <3>1, <4>2, Zenon DEF Stops
    <3>3. p < Len(s) /\ p + 1 # p
      BY <1>7, <2>3
    <3>4. q \in Node /\ q \in Range(s) /\ q # n
      <4>1. q \in Range(s)
        BY <1>7, <3>2, SeqRange, Zenon
      <4>2. q # n
        BY <1>7, <1>10, <3>2, <3>3, Zenon DEF Distinct
      <4> QED BY <2>1, <4>1, <4>2, Zenon
    <3>5. be = buckets /\ ne = Cut(node, q, n, nx)
      BY <1>12, <1>13, <1>14, <2>3, <3>1, Zenon DEF Unlink
    <3>6. WasCut(node, q, n, nx, ne)
      <4>1. node \in [Node -> Info]
        BY <1>3, Zenon
      <4>2. nx \in Node \cup {NULL}
        BY <1>12, Zenon
      <4> QED BY <1>9, <3>4, <3>5, <4>1, <4>2, NodeCut, Zenon
    <3>7. Bypassed(s, p, node, ne)
      <4>1. ASSUME NEW m \in Range(s), m # s[p]
            PROVE  /\ ne[m].client_id = node[m].client_id
                   /\ ne[m].username = node[m].username
                   /\ ne[m].next = IF p < Len(s) /\ m = s[p + 1] THEN Place(s, p - 1)
                                   ELSE node[m].next
        <5>1. /\ ne[m].client_id = node[m].client_id /\ ne[m].username = node[m].username
              /\ ne[m].next = IF m = q THEN nx ELSE node[m].next
          BY <1>10, <2>1, <3>6, <4>1, Zenon DEF WasCut
        <5> QED BY <1>11, <3>2, <3>3, <5>1, Zenon
      <4> QED BY <4>1, Zenon DEF Bypassed
    <3>8. \A m \in Node : m \notin Range(s) => ne[m] = node[m]
      BY <1>9, <3>4, <3>6, Zenon DEF WasCut
    <3>9. ne \in [Node -> Info] /\ ne[n] = Zeroed
      BY <3>6, Zenon DEF WasCut
    <3>10. /\ be \in [Index -> Node \cup {NULL}] /\ be[i] = buckets[i]
           /\ Changed(buckets, be, i)
      BY <1>3, <3>5, Zenon DEF Changed
    <3> QED BY <2>3, <3>7, <3>8, <3>9, <3>10, Zenon
  <2> QED BY <2>2, <2>3
<1>16. /\ free' = Append(free, n)
       /\ free_cap' = IF Len(free) = free_cap THEN free_cap * 2 ELSE free_cap
  BY Zenon DEF client_map_add_free
<1>17. n \notin Range(free)
  BY <1>2, <1>9, Zenon DEF Kept
<1>18. /\ free' \in Seq(Node) /\ Distinct(free') /\ Len(free') = Len(free) + 1
       /\ Range(free') = Range(free) \cup {n}
  <2>1. free \in Seq(Node) /\ Distinct(free) /\ n \in Node
    BY <1>1, <1>3, <1>9, Zenon
  <2>2. /\ Append(free, n) \in Seq(Node) /\ Distinct(Append(free, n))
        /\ Len(Append(free, n)) = Len(free) + 1
        /\ Range(Append(free, n)) = Range(free) \cup {n}
    BY <1>17, <2>1, AppendDistinct, Zenon
  <2> QED BY <1>16, <2>2, Zenon
<1>19. free_cap' \in Nat /\ free_cap' >= 1 /\ Len(free') <= free_cap'
  <2>1. PICK l \in Nat : l = Len(free)
    BY <1>3, LenProperties
  <2>2. PICK fc \in Nat : fc = free_cap /\ fc >= 1 /\ l <= fc
    BY <1>1, <1>3, <2>1, Zenon
  <2>3. CASE l = fc
    BY <1>16, <1>18, <2>1, <2>2, <2>3
  <2>4. CASE l # fc
    BY <1>16, <1>18, <2>1, <2>2, <2>4
  <2> QED BY <2>3, <2>4
<1>20. ne[n].username = 0
  BY <1>15, ZeroedInfo, Zenon
<1>21. \E new \in [Index -> Seq(Node)] :
           ListsAre(new, be, ne) /\ Kept(new, ne, free', malloced)
  <2>1. p \in 1..Len(lists[i]) /\ n = lists[i][p]
    BY <1>6, <1>10, Zenon
  <2>2. Bypassed(lists[i], p, node, ne)
    BY <1>6, <1>15, Zenon
  <2>3. Started(lists[i], p, buckets[i], be[i])
    BY <1>6, <1>15, Zenon DEF Started
  <2>4. Apart(lists[i], node, ne)
    BY <1>6, <1>15, Zenon DEF Apart
  <2>5. Changed(buckets, be, i)
    BY <1>15, Zenon
  <2>6. Put(n, free, free')
    BY <1>18, Zenon DEF Put
  <2> QED BY <1>2, <1>20, <2>1, <2>2, <2>3, <2>4, <2>5, <2>6, Removed, Zenon
<1>22. MapTypes'
  BY <1>3, <1>14, <1>15, <1>18, <1>19, Zenon DEF MapTypes
<1>23. \E new \in [Index -> Seq(Node)] :
           ListsAre(new, buckets', node') /\ Kept(new, node', free', malloced')
  BY <1>14, <1>21, Zenon
<1>24. MapInv'
  BY <1>18, <1>19, <1>22, <1>23, MapInvNext, Zenon
<1>25. ASSUME NEW m \in Node, m # n PROVE ne[m].client_id = node[m].client_id
  <2>1. CASE m \in Range(s)
    BY <1>10, <1>15, <1>25, <2>1, Zenon DEF Bypassed
  <2>2. CASE m \notin Range(s)
    BY <1>15, <2>2, Zenon
  <2> QED BY <2>1, <2>2
<1>26. Leaves(n)
  BY <1>9, <1>14, <1>18, <1>25, Zenon DEF Leaves, Put
<1> QED BY <1>24, <1>26, Zenon

\* client_map_delete keeps the invariant, and puts one node out of use.
LEMMA Delete ==
    ASSUME MapInv, NEW id \in Id, client_map_delete(id)
    PROVE  /\ MapInv'
           /\ \/ UNCHANGED vars
              \/ client_map_get(id) # NULL /\ Leaves(client_map_get(id))
<1>1. CASE UNCHANGED vars
  BY <1>1, Zenon DEF vars, MapInv, MapTypes
<1>2. CASE ~UNCHANGED vars
  <2>1. PICK n, list : n = client_map_get(id) /\ list = Nth(buckets[hash(id)])
    OBVIOUS
  <2>2. /\ n # NULL
        /\ Unlink(n, list, hash(id)) /\ client_map_add_free(n) /\ malloced' = malloced
    BY <1>2, <2>1, Zenon DEF client_map_delete, Unlink, Before, N, Cut
  <2> QED BY <2>1, <2>2, DeletedNode, Zenon
<1> QED BY <1>1, <1>2

\* Every operation keeps the invariant.
LEMMA MapNext ==
    ASSUME MapInv, [Next]_vars
    PROVE  MapInv'
<1>1. CASE \E id \in Id : client_map_new_entry(id)
  BY <1>1, NewEntry, Zenon
<1>2. CASE \E id \in Id : client_map_delete(id)
  BY <1>2, Delete, Zenon
<1>3. CASE \E id \in Id : set_username(id)
  BY <1>3, SetUsername, Zenon
<1>4. CASE UNCHANGED <<buckets, node, free, free_cap, malloced>>
  BY <1>4, Zenon DEF MapInv, MapTypes
<1> QED BY <1>1, <1>2, <1>3, <1>4, Zenon DEF Next, client_map_deinit, Gone, vars

-----------------------------------------------------------------------------
(* What the invariant says of the map.                                     *)

\* From the invariant: a node is in one list or in one slot of free.
LEMMA Accounted ==
    ASSUME MapInv
    PROVE  NodesAccounted
<1>1. /\ MapTypes /\ Distinct(free) /\ Len(free) <= free_cap
      /\ \E lists \in [Index -> Seq(Node)] :
             ListsAre(lists, buckets, node) /\ Kept(lists, node, free, malloced)
  BY Zenon DEF MapInv
<1>2. PICK lists \in [Index -> Seq(Node)] :
          ListsAre(lists, buckets, node) /\ Kept(lists, node, free, malloced)
  BY <1>1, Zenon
<1>3. DOMAIN buckets = Index /\ free \in Seq(Node)
  BY <1>1, Zenon DEF MapTypes
<1>4. \A x : x \in Range(free) <=> \E j \in 1..Len(free) : x = free[j]
  BY <1>3, SeqRange, Zenon
<1>5. ASSUME NEW n \in Node
      PROVE  InLists(n) + InFree(n) = (IF n \in malloced THEN 1 ELSE 0)
  <2>1. PICK L, F : /\ L = {i \in DOMAIN buckets : n \in Chain(i)}
                    /\ F = {j \in 1..Len(free) : free[j] = n}
    OBVIOUS
  <2>2. L = {i \in Index : n \in Range(lists[i])}
    BY <1>2, <1>3, <2>1, ChainIs, Zenon
  <2>3. Cardinality(L) = IF InList(lists, n) THEN 1 ELSE 0
    <3>1. CASE InList(lists, n)
      <4>1. PICK h \in Index : n \in Range(lists[h])
        BY <3>1, Zenon DEF InList
      <4>2. \A i \in Index : n \in Range(lists[i]) => i = h
        BY <1>2, <4>1, OneList, Zenon
      <4>3. L = {h}
        BY <2>2, <4>1, <4>2, Zenon
      <4> QED BY <3>1, <4>3, FS_Singleton, Zenon
    <3>2. CASE ~InList(lists, n)
      <4>1. L = {}
        BY <2>2, <3>2, Zenon DEF InList
      <4>2. Cardinality({}) = 0
        BY FS_EmptySet, Zenon
      <4> QED BY <3>2, <4>1, <4>2, Zenon
    <3> QED BY <3>1, <3>2
  <2>4. Cardinality(F) = IF n \in Range(free) THEN 1 ELSE 0
    <3>1. CASE n \in Range(free)
      <4>1. PICK h \in 1..Len(free) : n = free[h]
        BY <1>4, <3>1, Zenon
      <4>2. \A j \in 1..Len(free) : free[j] = n => j = h
        BY <1>1, <4>1, Zenon DEF Distinct
      <4>3. F = {h}
        BY <2>1, <4>1, <4>2, Zenon
      <4> QED BY <3>1, <4>3, FS_Singleton, Zenon
    <3>2. CASE n \notin Range(free)
      <4>1. F = {}
        BY <1>4, <2>1, <3>2, Zenon
      <4>2. Cardinality({}) = 0
        BY FS_EmptySet, Zenon
      <4> QED BY <3>2, <4>1, <4>2, Zenon
    <3> QED BY <3>1, <3>2
  <2>5. InLists(n) = Cardinality(L) /\ InFree(n) = Cardinality(F)
    BY <2>1, Zenon DEF InLists, InFree
  <2>6. /\ n \in malloced <=> n \in Range(free) \/ InList(lists, n)
        /\ ~(n \in Range(free) /\ InList(lists, n))
    BY <1>2, Zenon DEF Kept
  <2>7. /\ InLists(n) = IF InList(lists, n) THEN 1 ELSE 0
        /\ InFree(n) = IF n \in Range(free) THEN 1 ELSE 0
    BY <2>3, <2>4, <2>5, Zenon
  <2>8. 1 + 0 = 1 /\ 0 + 1 = 1 /\ 0 + 0 = 0
    OBVIOUS
  <2> QED BY <2>6, <2>7, <2>8, Zenon
<1> QED BY <1>1, <1>5, Zenon DEF NodesAccounted

\* From the invariant: the walk along a list ends.
LEMMA Sound ==
    ASSUME MapInv
    PROVE  ListsSound
<1>1. /\ MapTypes
      /\ \E lists \in [Index -> Seq(Node)] :
             ListsAre(lists, buckets, node) /\ Kept(lists, node, free, malloced)
  BY Zenon DEF MapInv
<1>2. PICK lists \in [Index -> Seq(Node)] : ListsAre(lists, buckets, node)
  BY <1>1, Zenon
<1>3. DOMAIN buckets = Index
  BY <1>1, Zenon DEF MapTypes
<1>4. ASSUME NEW i \in Index
      PROVE  /\ Nth(buckets[i])[Cardinality(Node)] = NULL
             /\ \A n \in Chain(i) : hash(node[n].client_id) = i
             /\ \A n, m \in Chain(i) : node[n].client_id = node[m].client_id => n = m
  <2>1. /\ lists[i] \in Seq(Node) /\ Distinct(lists[i]) /\ Filed(lists[i], i, node)
        /\ Nth(buckets[i]) = Walk(lists[i])
    BY <1>2, ListParts, Zenon
  <2>2. Meets(Walk(lists[i]), lists[i])
    BY <2>1, WalkMeets, Zenon
  <2>3. Walk(lists[i])[N] = NULL
    BY <2>2, Zenon DEF Meets
  <2>4. Chain(i) = Range(lists[i])
    BY <1>2, ChainIs, Zenon
  <2>5. /\ \A n \in Range(lists[i]) : hash(node[n].client_id) = i
        /\ \A n, m \in Range(lists[i]) : node[n].client_id = node[m].client_id => n = m
    BY <2>1, Zenon DEF Filed
  <2>6. Nth(buckets[i])[Cardinality(Node)] = NULL
    BY <2>1, <2>3, Zenon DEF N
  <2> QED BY <2>4, <2>5, <2>6, Zenon
<1> QED BY <1>3, <1>4, Zenon DEF ListsSound

\* From the invariant: the node that is found has no other client's name.
LEMMA NoStale ==
    ASSUME MapInv
    PROVE  NoStaleUsername
<1>1. PICK lists \in [Index -> Seq(Node)] : ListsAre(lists, buckets, node)
  BY Zenon DEF MapInv
<1>2. ASSUME NEW id \in Id, client_map_get(id) # NULL
      PROVE  node[client_map_get(id)].username \in {0, Garbage, id}
  <2>1. PICK g : g = client_map_get(id)
    OBVIOUS
  <2>2. id \in Nat
    BY ClientMapAssumption
  <2>3. Found(lists, id, g)
    BY <1>1, <1>2, <2>1, <2>2, GetIs, Zenon
  <2>4. hash(id) \in Index
    BY <2>2, HashIndex, Zenon
  <2>5. Filed(lists[hash(id)], hash(id), node)
    BY <1>1, <2>4, Zenon DEF ListsAre
  <2>6. node[g].username \in {0, Garbage, node[g].client_id} /\ node[g].client_id = id
    BY <2>3, <2>5, Zenon DEF Found, Filed
  <2> QED BY <2>1, <2>6, Zenon
<1> QED BY <1>2, Zenon DEF NoStaleUsername

\* client_map_deinit counts each node once because it is in one place.
LEMMA Freed ==
    ASSUME NodesAccounted, FreedOnce, [Next]_vars
    PROVE  FreedOnce'
<1>1. CASE UNCHANGED vars
  BY <1>1, Zenon DEF vars, FreedOnce
<1>2. CASE freed = << >> /\ freed' = freed
  BY <1>2, Zenon DEF FreedOnce
<1>3. CASE client_map_deinit
  <2>1. freed' = [n \in Node |-> InLists(n) + InFree(n)] /\ malloced' = malloced
    BY <1>3, Zenon DEF client_map_deinit
  <2>2. \A n \in Node : freed'[n] = (IF n \in malloced THEN 1 ELSE 0)
    BY <2>1, Zenon DEF NodesAccounted
  <2> QED BY <2>1, <2>2, Zenon DEF FreedOnce
<1> QED BY <1>1, <1>2, <1>3, Zenon DEF Next, Gone, client_map_new_entry, client_map_delete,
               set_username, vars

-----------------------------------------------------------------------------
MapAndFreed == MapInv /\ FreedOnce

\* MapInv holds from client_map_init to client_map_deinit.
LEMMA MapInvariant == Spec => []MapAndFreed
<1>1. Init => MapAndFreed
  <2>1. Init => freed = << >>
    BY Zenon DEF Init, client_map_init
  <2> QED BY <2>1, MapInit, Zenon DEF MapAndFreed, FreedOnce
<1>2. MapAndFreed /\ [Next]_vars => MapAndFreed'
  BY MapNext, Accounted, Freed, Zenon DEF MapAndFreed
<1> QED BY <1>1, <1>2, PTL DEF Spec

\* Every node malloc has returned is in one list or in the free array, once,
\* and the free array never runs over, for any number of nodes, ids and
\* buckets.
THEOREM MapNodesAccounted == Spec => []NodesAccounted
<1>1. MapAndFreed => NodesAccounted
  BY Accounted DEF MapAndFreed
<1> QED BY <1>1, MapInvariant, PTL

\* client_map_deinit frees every node once.
THEOREM MapFreedOnce == Spec => []FreedOnce
<1>1. MapAndFreed => FreedOnce
  BY DEF MapAndFreed
<1> QED BY <1>1, MapInvariant, PTL

\* Every list ends, in the bucket of its ids, with no id twice.
THEOREM MapListsSound == Spec => []ListsSound
<1>1. MapAndFreed => ListsSound
  BY Sound DEF MapAndFreed
<1> QED BY <1>1, MapInvariant, PTL

\* A recycled node never shows the username of an earlier client.
THEOREM MapNoStaleUsername == Spec => []NoStaleUsername
<1>1. MapAndFreed => NoStaleUsername
  BY NoStale DEF MapAndFreed
<1> QED BY <1>1, MapInvariant, PTL

-----------------------------------------------------------------------------
(* The table the server sees.                                              *)

Holds(n, id) == n \in InUse /\ node[n].client_id = id

\* client_map_get finds the node in use for an id, wherever it is linked.
GetsHolder ==
    \A id \in Id : /\ client_map_get(id) \in Node \cup {NULL}
                   /\ \A n \in Node : client_map_get(id) = n <=> Holds(n, id)

\* The holder of an id is found, wherever in its list it is.
LEMMA Getting ==
    ASSUME MapInv
    PROVE  GetsHolder
<1>1. PICK lists \in [Index -> Seq(Node)] :
          ListsAre(lists, buckets, node) /\ Kept(lists, node, free, malloced)
  BY Zenon DEF MapInv
<1>2. ASSUME NEW id \in Id PROVE client_map_get(id) \in Node \cup {NULL}
  BY <1>1, ClientMapAssumption, GetIs
<1>3. ASSUME NEW id \in Id, NEW n \in Node, client_map_get(id) = n PROVE Holds(n, id)
  <2>1. id \in Nat /\ n # NULL
    BY ClientMapAssumption
  <2>2. Found(lists, id, n) /\ hash(id) \in Index
    BY <1>1, <1>3, <2>1, GetIs, HashIndex, Zenon
  <2>3. InList(lists, n)
    BY <2>2, Zenon DEF Found, InList
  <2>4. n \in InUse
    BY <1>1, <2>3, Zenon DEF Kept, InUse
  <2> QED BY <2>2, <2>4, Zenon DEF Found, Holds
<1>4. ASSUME NEW id \in Id, NEW n \in Node, Holds(n, id) PROVE client_map_get(id) = n
  <2>1. id \in Nat
    BY ClientMapAssumption
  <2>2. InList(lists, n) /\ node[n].client_id = id
    BY <1>1, <1>4, Zenon DEF Kept, InUse, Holds
  <2>3. PICK i \in Index : n \in Range(lists[i])
    BY <2>2, Zenon DEF InList
  <2>4. hash(id) = i
    <3>1. Filed(lists[i], i, node)
      BY <1>1, Zenon DEF ListsAre
    <3> QED BY <2>2, <2>3, <3>1, Zenon DEF Filed
  <2>5. Found(lists, id, n)
    BY <2>2, <2>3, <2>4, Zenon DEF Found
  <2> QED BY <1>1, <2>1, <2>5, GetIs, Zenon
<1> QED BY <1>2, <1>3, <1>4, Zenon DEF GetsHolder

\* The table of a function from ids to nodes or NULL.
AsTable(G) == [id \in {x \in Id : G[x] # NULL} |-> G[id]]

Inserts(G, H, id, n) ==
    /\ id \notin DOMAIN AsTable(G) /\ n \notin Range(AsTable(G))
    /\ AsTable(H) = [x \in DOMAIN AsTable(G) \cup {id} |->
                        IF x = id THEN n ELSE AsTable(G)[x]]

Deletes(G, H, id) ==
    /\ id \in DOMAIN AsTable(G)
    /\ AsTable(H) = Restrict(AsTable(G), DOMAIN AsTable(G) \ {id})

Others(G, H, id) == \A x \in Id : x # id => H[x] = G[x]

\* One id more.
LEMMA TableInsert ==
    ASSUME NEW G, NEW H, NEW id \in Id, NEW n \in Node, G[id] = NULL, H[id] = n,
           Others(G, H, id), \A x \in Id : G[x] # n
    PROVE  Inserts(G, H, id, n)
<1>1. n # NULL
  BY NodeCount, Zenon
<1>2. PICK T : T = AsTable(G)
  OBVIOUS
<1>3. DOMAIN T = {x \in Id : G[x] # NULL} /\ \A x \in DOMAIN T : T[x] = G[x]
  BY <1>2, Zenon DEF AsTable
<1>4. id \notin DOMAIN T
  BY <1>3, Zenon
<1>5. n \notin Range(T)
  BY <1>3, <1>4, Zenon DEF Range
<1>6. {x \in Id : H[x] # NULL} = DOMAIN T \cup {id}
  <2>1. \A x \in Id : H[x] # NULL <=> x = id \/ G[x] # NULL
    BY <1>1, Zenon DEF Others
  <2> QED BY <1>3, <2>1, Zenon
<1>7. \A x \in DOMAIN T \cup {id} : H[x] = IF x = id THEN n ELSE T[x]
  BY <1>3, Zenon DEF Others
<1>8. AsTable(H) = [x \in DOMAIN T \cup {id} |-> IF x = id THEN n ELSE T[x]]
  BY <1>6, <1>7, Zenon DEF AsTable
<1> QED BY <1>2, <1>4, <1>5, <1>8, Zenon DEF Inserts

\* One id less.
LEMMA TableDelete ==
    ASSUME NEW G, NEW H, NEW id \in Id, G[id] # NULL, H[id] = NULL, Others(G, H, id)
    PROVE  Deletes(G, H, id)
<1>1. PICK T : T = AsTable(G)
  OBVIOUS
<1>2. DOMAIN T = {x \in Id : G[x] # NULL} /\ \A x \in DOMAIN T : T[x] = G[x]
  BY <1>1, Zenon DEF AsTable
<1>3. {x \in Id : H[x] # NULL} = DOMAIN T \ {id}
  <2>1. \A x \in Id : H[x] # NULL <=> x # id /\ G[x] # NULL
    BY Zenon DEF Others
  <2> QED BY <1>2, <2>1, Zenon
<1>4. \A x \in DOMAIN T \ {id} : H[x] = T[x]
  BY <1>2, Zenon DEF Others
<1>5. AsTable(H) = [x \in DOMAIN T \ {id} |-> T[x]]
  BY <1>3, <1>4, Zenon DEF AsTable
<1> QED BY <1>1, <1>2, <1>5, Zenon DEF Restrict, Deletes

\* The same answers make the same table.
LEMMA TableSame ==
    ASSUME NEW G, NEW H, \A x \in Id : H[x] = G[x]
    PROVE  AsTable(H) = AsTable(G)
<1>1. {x \in Id : H[x] # NULL} = {x \in Id : G[x] # NULL}
  BY Zenon
<1> QED BY <1>1, Zenon DEF AsTable

\* G answers with the node of U that has the id.
Names(G, U, nd) ==
    \A x \in Id : /\ G[x] \in Node \cup {NULL}
                  /\ \A n \in Node : G[x] = n <=> n \in U /\ nd[n].client_id = x

Sees(G, U, nd, x, n) == G[x] = n <=> (n \in U /\ nd[n].client_id = x)

\* Nothing changes for the nodes other than n.
Alike(n, U, V, nd, ne) ==
    \A m \in Node : m # n => /\ m \in V <=> m \in U
                            /\ ne[m].client_id = nd[m].client_id

\* One answer of Names.
LEMMA OneAnswer ==
    ASSUME NEW G, NEW U, NEW nd, Names(G, U, nd), NEW x \in Id, NEW n \in Node
    PROVE  Sees(G, U, nd, x, n)
BY Zenon DEF Names, Sees

\* No id changes hands.
LEMMA AnswersSame ==
    ASSUME NEW G, NEW H, NEW U, NEW nd, NEW ne, Names(G, U, nd), Names(H, U, ne),
           Alike(NULL, U, U, nd, ne)
    PROVE  AsTable(H) = AsTable(G)
<1>1. ASSUME NEW x \in Id PROVE H[x] = G[x]
  <2>1. G[x] \in Node \cup {NULL} /\ H[x] \in Node \cup {NULL}
    BY Zenon DEF Names
  <2>2. ASSUME NEW m \in Node PROVE H[x] = m <=> G[x] = m
    <3>1. Sees(G, U, nd, x, m) /\ Sees(H, U, ne, x, m)
      BY OneAnswer, Zenon
    <3>2. ne[m].client_id = nd[m].client_id
      BY NodeCount, Zenon DEF Alike
    <3> QED BY <3>1, <3>2, Zenon DEF Sees
  <2> QED BY <2>1, <2>2, Zenon
<1> QED BY <1>1, TableSame, Zenon

\* A node comes into use for an id that had none.
LEMMA AnswersInsert ==
    ASSUME NEW G, NEW H, NEW U, NEW V, NEW nd, NEW ne, Names(G, U, nd), Names(H, V, ne),
           NEW id \in Id, NEW n \in Node, G[id] = NULL, n \notin U, n \in V,
           Alike(n, U, V, nd, ne), ne[n].client_id = id
    PROVE  Inserts(G, H, id, n)
<1>1. H[id] = n
  <2>1. Sees(H, V, ne, id, n)
    BY OneAnswer, Zenon
  <2> QED BY <2>1, Zenon DEF Sees
<1>2. ASSUME NEW x \in Id, x # id PROVE H[x] = G[x] /\ G[x] # n
  <2>1. G[x] \in Node \cup {NULL} /\ H[x] \in Node \cup {NULL}
    BY Zenon DEF Names
  <2>2. G[x] # n /\ H[x] # n
    <3>1. Sees(G, U, nd, x, n) /\ Sees(H, V, ne, x, n)
      BY OneAnswer, Zenon
    <3> QED BY <1>2, <3>1, Zenon DEF Sees
  <2>3. ASSUME NEW m \in Node, m # n PROVE H[x] = m <=> G[x] = m
    <3>1. Sees(G, U, nd, x, m) /\ Sees(H, V, ne, x, m)
      BY OneAnswer, Zenon
    <3>2. ne[m].client_id = nd[m].client_id /\ (m \in V <=> m \in U)
      BY <2>3, Zenon DEF Alike
    <3> QED BY <3>1, <3>2, Zenon DEF Sees
  <2> QED BY <2>1, <2>2, <2>3, Zenon
<1>3. Others(G, H, id) /\ \A x \in Id : G[x] # n
  <2>1. G[id] # n
    BY NodeCount, Zenon
  <2> QED BY <1>2, <2>1, Zenon DEF Others
<1> QED BY <1>1, <1>3, TableInsert, Zenon

\* A node goes out of use.
LEMMA AnswersDelete ==
    ASSUME NEW G, NEW H, NEW U, NEW V, NEW nd, NEW ne, Names(G, U, nd), Names(H, V, ne),
           NEW id \in Id, NEW n \in Node, G[id] = n, n \notin V,
           Alike(n, U, V, nd, ne)
    PROVE  Deletes(G, H, id)
<1>1. G[id] # NULL /\ nd[n].client_id = id
  <2>1. Sees(G, U, nd, id, n)
    BY OneAnswer, Zenon
  <2> QED BY <2>1, NodeCount, Zenon DEF Sees
<1>2. ASSUME NEW x \in Id, NEW m \in Node, m # n PROVE H[x] = m <=> G[x] = m
  <2>1. Sees(G, U, nd, x, m) /\ Sees(H, V, ne, x, m)
    BY OneAnswer, Zenon
  <2>2. ne[m].client_id = nd[m].client_id /\ (m \in V <=> m \in U)
    BY <1>2, Zenon DEF Alike
  <2> QED BY <2>1, <2>2, Zenon DEF Sees
<1>3. ASSUME NEW x \in Id PROVE H[x] # n
  <2>1. Sees(H, V, ne, x, n)
    BY OneAnswer, Zenon
  <2> QED BY <2>1, Zenon DEF Sees
<1>4. \A x \in Id : G[x] \in Node \cup {NULL} /\ H[x] \in Node \cup {NULL}
  BY Zenon DEF Names
<1>5. H[id] = NULL
  <2>1. ASSUME NEW m \in Node, H[id] = m PROVE FALSE
    <3>1. m # n
      BY <1>3, <2>1, Zenon
    <3>2. G[id] = m
      BY <1>2, <2>1, <3>1, Zenon
    <3> QED BY <3>1, <3>2, Zenon
  <2> QED BY <1>4, <2>1, Zenon
<1>6. ASSUME NEW x \in Id, x # id PROVE H[x] = G[x]
  <2>1. G[x] # n
    <3>1. Sees(G, U, nd, x, n)
      BY OneAnswer, Zenon
    <3> QED BY <1>1, <1>6, <3>1, Zenon DEF Sees
  <2>2. H[x] # n
    BY <1>3, Zenon
  <2>3. \A m \in Node : m # n => (H[x] = m <=> G[x] = m)
    BY <1>2, Zenon
  <2> QED BY <1>4, <2>1, <2>2, <2>3, Zenon
<1>7. Others(G, H, id)
  BY <1>6, Zenon DEF Others
<1> QED BY <1>1, <1>5, <1>7, TableDelete, Zenon

Getter == [x \in Id |-> client_map_get(x)]

\* Every step inserts into the table, deletes from it or leaves it alone.
LEMMA TableStep ==
    ASSUME MapInv, GetsHolder, GetsHolder', [Next]_vars
    PROVE  \/ AsTable(Getter') = AsTable(Getter)
           \/ \E id \in Id : \/ \E n \in Node : Inserts(Getter, Getter', id, n)
                             \/ Deletes(Getter, Getter', id)
<1>1. PICK G, H : G = Getter /\ H = Getter'
  OBVIOUS
<1>2. ASSUME NEW x \in Id
      PROVE  G[x] = client_map_get(x) /\ H[x] = client_map_get(x)'
  BY <1>1, Zenon DEF Getter
<1>3. Names(G, InUse, node) /\ Names(H, InUse', node')
  <2>1. ASSUME NEW x \in Id
        PROVE  /\ G[x] \in Node \cup {NULL}
               /\ \A n \in Node : G[x] = n <=> n \in InUse /\ node[n].client_id = x
    <3>1. /\ client_map_get(x) \in Node \cup {NULL}
          /\ \A n \in Node : client_map_get(x) = n <=> Holds(n, x)
      BY Zenon DEF GetsHolder
    <3>2. G[x] = client_map_get(x)
      BY <1>2, Zenon
    <3> QED BY <3>1, <3>2, Zenon DEF Holds
  <2>2. ASSUME NEW x \in Id
        PROVE  /\ H[x] \in Node \cup {NULL}
               /\ \A n \in Node : H[x] = n <=> n \in InUse' /\ node'[n].client_id = x
    <3>1. /\ client_map_get(x)' \in Node \cup {NULL}
          /\ \A n \in Node : client_map_get(x)' = n <=> Holds(n, x)'
      BY Zenon DEF GetsHolder
    <3>2. H[x] = client_map_get(x)'
      BY <1>2, Zenon
    <3> QED BY <3>1, <3>2, Zenon DEF Holds
  <2> QED BY <2>1, <2>2, Zenon DEF Names
<1>5. ASSUME UNCHANGED <<buckets, node, free, free_cap, malloced>>
      PROVE  AsTable(H) = AsTable(G)
  <2>1. InUse' = InUse /\ node' = node
    BY <1>5, Zenon DEF InUse
  <2>2. Names(H, InUse, node)
    BY <1>3, <2>1, Zenon
  <2>3. Alike(NULL, InUse, InUse, node, node)
    BY Zenon DEF Alike
  <2>4. Names(G, InUse, node)
    BY <1>3, Zenon
  <2> QED BY <2>2, <2>3, <2>4, AnswersSame, Zenon
<1>6. ASSUME NEW id \in Id, set_username(id) PROVE AsTable(H) = AsTable(G)
  <2>1. InUse' = InUse
    BY <1>6, Zenon DEF set_username, InUse
  <2>2. \A m \in Node : node'[m].client_id = node[m].client_id
    BY <1>6, SetUsername, Zenon
  <2>3. Names(H, InUse, node')
    BY <1>3, <2>1, Zenon
  <2>4. Alike(NULL, InUse, InUse, node, node')
    BY <2>2, Zenon DEF Alike
  <2>5. Names(G, InUse, node)
    BY <1>3, Zenon
  <2> QED BY <2>3, <2>4, <2>5, AnswersSame, Zenon
<1>7. ASSUME NEW id \in Id, NEW n \in Node, Enters(n, id)
      PROVE  Inserts(G, H, id, n)
  <2>1. /\ client_map_get(id) = NULL /\ n \notin InUse
        /\ Range(free') = Range(free) \ {n} /\ malloced' = malloced \cup {n}
        /\ node'[n].client_id = id /\ Only(n, node, node')
    BY <1>7, Zenon DEF Enters, Taken
  <2>2. n \in InUse' /\ \A m \in Node : m # n => (m \in InUse' <=> m \in InUse)
    BY <2>1, Zenon DEF InUse
  <2>3. G[id] = NULL
    BY <1>2, <2>1, Zenon
  <2>4. Names(G, InUse, node) /\ Names(H, InUse', node')
    BY <1>3, Zenon
  <2>5. n \notin InUse /\ n \in InUse' /\ node'[n].client_id = id
    BY <2>1, <2>2, Zenon
  <2>6. Alike(n, InUse, InUse', node, node')
    BY <2>1, <2>2, Zenon DEF Alike, Only
  <2> QED BY <2>3, <2>4, <2>5, <2>6, AnswersInsert, Zenon
<1>8. ASSUME NEW id \in Id, client_map_get(id) # NULL, Leaves(client_map_get(id))
      PROVE  Deletes(G, H, id)
  <2>1. PICK n : n = G[id]
    OBVIOUS
  <2>2. /\ Range(free') = Range(free) \cup {n} /\ malloced' = malloced /\ n \in Node
        /\ \A m \in Node : m # n => node'[m].client_id = node[m].client_id
    BY <1>2, <1>8, <2>1, Zenon DEF Leaves, Put
  <2>3. n \notin InUse' /\ \A m \in Node : m # n => (m \in InUse' <=> m \in InUse)
    BY <2>2, Zenon DEF InUse
  <2>4. Alike(n, InUse, InUse', node, node')
    BY <2>2, <2>3, Zenon DEF Alike
  <2>5. n \in Node /\ n \notin InUse' /\ G[id] = n
    BY <2>1, <2>2, <2>3, Zenon
  <2>6. Names(G, InUse, node) /\ Names(H, InUse', node')
    BY <1>3, Zenon
  <2> QED BY <2>4, <2>5, <2>6, AnswersDelete, Zenon
<1>9. CASE \E id \in Id : client_map_new_entry(id)
  <2>1. PICK id \in Id : client_map_new_entry(id)
    BY <1>9, Zenon
  <2>2. UNCHANGED vars \/ \E n \in Node : Enters(n, id)
    BY <2>1, NewEntry, Zenon
  <2>3. CASE UNCHANGED vars
    BY <1>1, <1>5, <2>3, Zenon DEF vars
  <2>4. CASE \E n \in Node : Enters(n, id)
    BY <1>1, <1>7, <2>4, Zenon
  <2> QED BY <2>2, <2>3, <2>4
<1>10. CASE \E id \in Id : client_map_delete(id)
  <2>1. PICK id \in Id : client_map_delete(id)
    BY <1>10, Zenon
  <2>2. \/ UNCHANGED vars
        \/ client_map_get(id) # NULL /\ Leaves(client_map_get(id))
    BY <2>1, Delete, Zenon
  <2>3. CASE UNCHANGED vars
    BY <1>1, <1>5, <2>3, Zenon DEF vars
  <2>4. CASE client_map_get(id) # NULL /\ Leaves(client_map_get(id))
    BY <1>1, <1>8, <2>4, Zenon
  <2> QED BY <2>2, <2>3, <2>4
<1>11. CASE \E id \in Id : set_username(id)
  BY <1>1, <1>6, <1>11, Zenon
<1>12. CASE UNCHANGED <<buckets, node, free, free_cap, malloced>>
  BY <1>1, <1>5, <1>12, Zenon
<1> QED BY <1>9, <1>10, <1>11, <1>12, Zenon DEF Next, client_map_deinit, Gone, vars

TheTable == [id \in {x \in Id : client_map_get(x) # NULL} |-> client_map_get(id)]

\* The table ClientTable is instantiated with.
LEMMA TheTableIs == TheTable = AsTable(Getter) /\ TheTable' = AsTable(Getter')
<1>1. TheTable = AsTable(Getter)
  <2>1. \A x \in Id : Getter[x] = client_map_get(x)
    BY Zenon DEF Getter
  <2>2. {x \in Id : client_map_get(x) # NULL} = {x \in Id : Getter[x] # NULL}
    BY <2>1, Zenon
  <2> QED BY <2>1, <2>2, Zenon DEF TheTable, AsTable
<1>2. TheTable' = AsTable(Getter')
  <2>1. \A x \in Id : Getter'[x] = client_map_get(x)'
    BY Zenon DEF Getter
  <2>2. {x \in Id : client_map_get(x)' # NULL} = {x \in Id : Getter'[x] # NULL}
    BY <2>1, Zenon
  <2> QED BY <2>1, <2>2, Zenon DEF TheTable, AsTable
<1> QED BY <1>1, <1>2

\* client_map.c implements the table from ids to nodes that the server relies
\* on: a node belongs to one id at a time and does not move, whatever is
\* inserted and deleted around it.
THEOREM MapTable == Spec => TableSpec
<1>1. Init => Table!Init
  <2> SUFFICES ASSUME Init PROVE Table!Init
    OBVIOUS
  <2>1. GetsHolder
    BY MapInit, Getting, Zenon
  <2>2. InUse = {}
    BY Zenon DEF Init, client_map_init, InUse
  <2>3. \A x \in Id : client_map_get(x) = NULL
    BY <2>1, <2>2, Zenon DEF GetsHolder, Holds
  <2>4. {x \in Id : client_map_get(x) # NULL} = {}
    BY <2>3, Zenon
  <2> QED BY <2>4, Zenon DEF Table!Init
<1>2. MapAndFreed => MapInv /\ GetsHolder
  BY Getting, Zenon DEF MapAndFreed
<1>3. MapInv /\ GetsHolder /\ GetsHolder' /\ [Next]_vars => [Table!Next]_TheTable
  <2> SUFFICES ASSUME MapInv, GetsHolder, GetsHolder', [Next]_vars
               PROVE  [Table!Next]_TheTable
    OBVIOUS
  <2>1. ASSUME NEW id, NEW n, Inserts(Getter, Getter', id, n) PROVE Table!Insert(id, n)
    <3>1. /\ id \notin DOMAIN TheTable /\ n \notin Range(TheTable)
          /\ TheTable' = [x \in DOMAIN TheTable \cup {id} |->
                             IF x = id THEN n ELSE TheTable[x]]
      BY <2>1, TheTableIs, Zenon DEF Inserts
    <3> QED BY <3>1, Zenon DEF Table!Insert, TheTable, Table!Range, Range
  <2>2. ASSUME NEW id, Deletes(Getter, Getter', id) PROVE Table!Delete(id)
    <3>1. /\ id \in DOMAIN TheTable
          /\ TheTable' = Restrict(TheTable, DOMAIN TheTable \ {id})
      BY <2>2, TheTableIs, Zenon DEF Deletes
    <3> QED BY <3>1, Zenon DEF Table!Delete, TheTable, Table!Restrict, Restrict
  <2>3. \/ TheTable' = TheTable
        \/ \E id \in Id : \/ \E n \in Node : Inserts(Getter, Getter', id, n)
                          \/ Deletes(Getter, Getter', id)
    BY TableStep, TheTableIs, Zenon
  <2> QED BY <2>1, <2>2, <2>3, Zenon DEF Table!Next
<1> QED BY <1>1, <1>2, <1>3, MapInvariant, PTL DEF Spec, TableSpec, Table!Spec, TheTable
=============================================================================
