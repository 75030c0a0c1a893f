---------------------------- MODULE GroupsProofs ----------------------------
(***************************************************************************)
(* groups.c and cid_set.c for any groups, ids, multiplier and numbers of   *)
(* buckets and slots.  First the operators of CidSet: what a probe finds,  *)
(* and what insertion and growth keep.  Then the lists of groups, and the  *)
(* iterator.                                                               *)
(***************************************************************************)
EXTENDS Groups, SeqLemmas, FiniteSetTheorems

\* The slot that a probe for id looks at in its k-th step.
At(id, k, c) == (hash(id, c) + k) % c

\* An array of c slots.
Slots(s, c) == c \in Nat /\ c > 0 /\ s \in [0..(c - 1) -> Cid \cup {Empty}]

\* In step k a probe for id has come to slot i and did not stop before.
Comes(s, c, id, k, i) ==
    /\ k \in 0..(c - 1) /\ At(id, k, c) = i
    /\ \A j \in 0..(c - 1) : j < k => s[At(id, j, c)] \notin {Empty, id}

\* The probe for an id comes to the slot that holds it.
Probed(s, c) == \A i \in Filled(s) : \E k : Comes(s, c, s[i], k, i)

\* set has c slots, holds the ids of M and no others, and counts them.
Sound(set, c, M) ==
    /\ Slots(set.ids, c) /\ Probed(set.ids, c)
    /\ M = {set.ids[i] : i \in Filled(set.ids)}
    /\ IsFiniteSet(M) /\ set.len = Cardinality(M)
    /\ set.len = Cardinality(Filled(set.ids))

-----------------------------------------------------------------------------
(* Where a probe stops.                                                    *)

\* Counting on from h in a ring of c slots.
LEMMA Wrap ==
    ASSUME NEW c \in Nat, c > 0, NEW h \in 0..(c - 1), NEW k \in 0..(c - 1)
    PROVE  (h + k) % c = IF h + k < c THEN h + k ELSE h + k - c
<1>1. ASSUME NEW x \in Nat, x < c PROVE x % c = x
  BY <1>1
<1>2. CASE h + k < c
  BY <1>2, <1>1
<1>3. CASE h + k >= c
  <2>1. PICK x \in Nat : x = h + k - c
    BY <1>3
  <2>2. x < c /\ h + k = x + c
    BY <2>1
  <2>3. (x + c) % c = x
    BY <2>2
  <2> QED BY <1>3, <2>1, <2>2, <2>3
<1> QED BY <1>2, <1>3

\* hash answers with a slot.
LEMMA HashSlot ==
    ASSUME NEW id \in Cid, NEW c \in Nat, c > 0
    PROVE  hash(id, c) \in 0..(c - 1)
<1>1. id \in Nat /\ HashMult \in Nat
  BY GroupsAssumption, CidSetAssumption
<1>2. id * HashMult \in Nat
  BY <1>1
<1> QED BY <1>2 DEF hash

\* A probe looks at slots, at every one, and at none twice.
LEMMA Ring ==
    ASSUME NEW id \in Cid, NEW c \in Nat, c > 0
    PROVE  /\ \A k \in 0..(c - 1) : At(id, k, c) \in 0..(c - 1)
           /\ \A i \in 0..(c - 1) : \E k \in 0..(c - 1) : At(id, k, c) = i
           /\ \A j, k \in 0..(c - 1) : At(id, j, c) = At(id, k, c) => j = k
<1>1. PICK h \in 0..(c - 1) : h = hash(id, c)
  BY HashSlot
<1>2. \A k \in 0..(c - 1) : At(id, k, c) = IF h + k < c THEN h + k ELSE h + k - c
  BY <1>1, Wrap DEF At
<1>3. ASSUME NEW i \in 0..(c - 1) PROVE \E k \in 0..(c - 1) : At(id, k, c) = i
  <2>1. CASE i >= h
    <3>1. i - h \in 0..(c - 1) /\ h + (i - h) < c /\ h + (i - h) = i
      BY <2>1
    <3> QED BY <1>2, <3>1
  <2>2. CASE i < h
    <3>1. i - h + c \in 0..(c - 1) /\ ~(h + (i - h + c) < c) /\ h + (i - h + c) - c = i
      BY <2>2
    <3> QED BY <1>2, <3>1
  <2> QED BY <2>1, <2>2
<1> QED BY <1>2, <1>3

\* The capacity of an array of c slots is c, and of its slots finitely many
\* are taken.
LEMMA SlotFacts ==
    ASSUME NEW s, NEW c, Slots(s, c)
    PROVE  /\ DOMAIN s = 0..(c - 1) /\ Cap(s) = c
           /\ Filled(s) \subseteq 0..(c - 1)
           /\ IsFiniteSet(Filled(s)) /\ Cardinality(Filled(s)) \in Nat
           /\ \A i \in 0..(c - 1) : s[i] \in Cid \cup {Empty}
           /\ \A i \in Filled(s) : s[i] \in Cid
<1>1. c \in Nat /\ c > 0 /\ DOMAIN s = 0..(c - 1)
  BY DEF Slots
<1>2. IsFiniteSet(0..(c - 1)) /\ Cardinality(0..(c - 1)) = c
  <2>1. 0 \in Int /\ c - 1 \in Int /\ ~(0 > c - 1) /\ c - 1 - 0 + 1 = c
    BY <1>1
  <2> QED BY <2>1, FS_Interval
<1>3. Cap(s) = c
  BY <1>1, <1>2, Zenon DEF Cap
<1>4. Filled(s) \subseteq 0..(c - 1)
  BY <1>1 DEF Filled
<1>5. IsFiniteSet(Filled(s))
  BY <1>2, <1>4, FS_Subset
<1>6. Cardinality(Filled(s)) \in Nat
  BY <1>5, FS_CardinalityType
<1>7. \A i \in 0..(c - 1) : s[i] \in Cid \cup {Empty}
  BY DEF Slots
<1>8. \A i \in Filled(s) : s[i] \in Cid
  BY <1>1, <1>7 DEF Filled
<1> QED BY <1>1, <1>3, <1>4, <1>5, <1>6, <1>7, <1>8

\* An array with fewer ids than slots has an empty slot.
LEMMA Gap ==
    ASSUME NEW s, NEW c, Slots(s, c), Cardinality(Filled(s)) < c
    PROVE  \E i \in 0..(c - 1) : s[i] = Empty
<1>1. c \in Nat /\ c > 0 /\ DOMAIN s = 0..(c - 1) /\ Cap(s) = c
  BY SlotFacts DEF Slots
<1>2. Filled(s) # DOMAIN s
  BY <1>1 DEF Cap
<1> QED BY <1>1, <1>2 DEF Filled

\* So a probe ends: Slot is where it first finds id or an empty slot.
LEMMA ProbeEnds ==
    ASSUME NEW s, NEW c, Slots(s, c), Cardinality(Filled(s)) < c, NEW id \in Cid
    PROVE  /\ Slot(s, id) \in 0..(c - 1) /\ s[Slot(s, id)] \in {Empty, id}
           /\ \E k : Comes(s, c, id, k, Slot(s, id))
<1>1. c \in Nat /\ c > 0 /\ DOMAIN s = 0..(c - 1) /\ Cap(s) = c
  BY SlotFacts DEF Slots
<1>2. PICK T : T = {k \in 0..(c - 1) : s[At(id, k, c)] \in {Empty, id}}
  OBVIOUS
<1>3. Probe(s, id) = Min(T)
  BY <1>1, <1>2, Zenon DEF Probe, At
<1>4. PICK i \in 0..(c - 1) : s[i] = Empty
  BY Gap
<1>5. PICK k \in 0..(c - 1) : At(id, k, c) = i
  BY <1>1, Ring
<1>6. T # {} /\ T \in SUBSET Nat
  BY <1>1, <1>2, <1>4, <1>5
<1>7. PICK p \in T : \A y \in T : p <= y
  BY <1>6, LeastNat
<1>8. Min(T) \in T /\ \A y \in T : Min(T) <= y
  BY <1>7, Zenon DEF Min
<1>9. PICK m : m = Min(T)
  OBVIOUS
<1>10. m \in 0..(c - 1) /\ s[At(id, m, c)] \in {Empty, id}
  BY <1>2, <1>8, <1>9, Zenon
<1>11. \A j \in 0..(c - 1) : j < m => s[At(id, j, c)] \notin {Empty, id}
  <2>1. \A j \in T : ~(j < m)
    BY <1>6, <1>8, <1>9, <1>10
  <2> QED BY <1>2, <2>1, Zenon
<1>12. Slot(s, id) = At(id, m, c)
  BY <1>1, <1>3, <1>9, Zenon DEF Slot, At
<1>13. At(id, m, c) \in 0..(c - 1)
  BY <1>1, <1>10, Ring
<1> QED BY <1>10, <1>11, <1>12, <1>13, Zenon DEF Comes

-----------------------------------------------------------------------------
(* What insertion keeps.                                                   *)

\* One id has one place along its probe.
LEMMA OnePlace ==
    ASSUME NEW s, NEW c, Slots(s, c), NEW id \in Cid,
           NEW i, NEW k, Comes(s, c, id, k, i), s[i] \in {Empty, id},
           NEW j, NEW l, Comes(s, c, id, l, j), s[j] \in {Empty, id}
    PROVE  i = j
<1>1. k \in 0..(c - 1) /\ At(id, k, c) = i /\ l \in 0..(c - 1) /\ At(id, l, c) = j
  BY DEF Comes
<1>2. ~(k < l) /\ ~(l < k)
  BY <1>1 DEF Comes
<1>3. c \in Nat
  BY DEF Slots
<1>4. k = l
  BY <1>1, <1>2, <1>3
<1> QED BY <1>1, <1>4

\* cid_set_exists tells whether a slot holds the id.
LEMMA ExistsIs ==
    ASSUME NEW set, NEW c, NEW M, Sound(set, c, M), set.len < c, NEW id \in Cid
    PROVE  cid_set_exists(set, id) <=> id \in M
<1>1. PICK s : s = set.ids
  OBVIOUS
<1>2. /\ Slots(s, c) /\ Probed(s, c) /\ Cardinality(Filled(s)) < c
      /\ M = {s[i] : i \in Filled(s)}
  BY <1>1, Zenon DEF Sound
<1>3. PICK q : q = Slot(s, id)
  OBVIOUS
<1>4. q \in 0..(c - 1) /\ s[q] \in {Empty, id} /\ \E k : Comes(s, c, id, k, q)
  BY <1>2, <1>3, ProbeEnds, Zenon
<1>5. DOMAIN s = 0..(c - 1) /\ Empty # id
  BY <1>2, SlotFacts, GroupsAssumption
<1>6. ASSUME s[q] = id PROVE id \in M
  BY <1>2, <1>4, <1>5, <1>6 DEF Filled
<1>7. ASSUME id \in M PROVE s[q] = id
  <2>1. PICK i \in Filled(s) : s[i] = id
    BY <1>2, <1>7, Zenon
  <2>2. \E k : Comes(s, c, id, k, i)
    BY <1>2, <2>1, Zenon DEF Probed
  <2>3. i = q
    BY <1>2, <1>4, <2>1, <2>2, OnePlace, Zenon
  <2> QED BY <2>1, <2>3
<1> QED BY <1>1, <1>3, <1>6, <1>7, Zenon DEF cid_set_exists

\* Every id has one slot.
LEMMA OneSlot ==
    ASSUME NEW s, NEW c, Slots(s, c), Probed(s, c),
           NEW i \in Filled(s), NEW j \in Filled(s), s[i] = s[j]
    PROVE  i = j
<1>1. PICK id \in Cid : id = s[i]
  BY SlotFacts
<1>2. (\E k : Comes(s, c, id, k, i)) /\ (\E k : Comes(s, c, id, k, j))
  BY <1>1, Zenon DEF Probed
<1> QED BY <1>1, <1>2, OnePlace, Zenon

\* t is s with one more id, in a slot that was empty and that the probe for it
\* comes to.
Adds(s, t, c, id, q) ==
    /\ q \in 0..(c - 1) /\ s[q] = Empty /\ t = [s EXCEPT ![q] = id]
    /\ \E k : Comes(s, c, id, k, q)

\* The probes for the other ids are not disturbed.
LEMMA AddsProbed ==
    ASSUME NEW s, NEW c, Slots(s, c), Probed(s, c), NEW id \in Cid,
           NEW t, NEW q, Adds(s, t, c, id, q)
    PROVE  /\ Slots(t, c) /\ Probed(t, c)
           /\ Filled(t) = Filled(s) \cup {q} /\ q \notin Filled(s)
           /\ \A i \in Filled(s) : t[i] = s[i]
           /\ t[q] = id
<1>1. /\ c \in Nat /\ c > 0 /\ DOMAIN s = 0..(c - 1)
      /\ \A i \in Filled(s) : s[i] \in Cid
      /\ Empty # id
  BY SlotFacts, GroupsAssumption DEF Slots
<1>2. q \in 0..(c - 1) /\ s[q] = Empty /\ t = [s EXCEPT ![q] = id]
  BY DEF Adds
<1>3. DOMAIN t = 0..(c - 1) /\ t[q] = id /\ \A i \in 0..(c - 1) : i # q => t[i] = s[i]
  BY <1>1, <1>2
<1>4. Slots(t, c)
  BY <1>2 DEF Slots
<1>5. q \notin Filled(s)
  BY <1>2 DEF Filled
<1>6. Filled(t) = Filled(s) \cup {q}
  BY <1>1, <1>2, <1>3 DEF Filled
<1>7. \A i \in Filled(s) : t[i] = s[i]
  BY <1>1, <1>3, <1>5 DEF Filled
<1>8. ASSUME NEW x \in Cid, NEW k, NEW i, Comes(s, c, x, k, i) PROVE Comes(t, c, x, k, i)
  <2>1. /\ k \in 0..(c - 1) /\ At(x, k, c) = i
        /\ \A j \in 0..(c - 1) : j < k => s[At(x, j, c)] \notin {Empty, x}
    BY <1>8, Zenon DEF Comes
  <2>2. ASSUME NEW j \in 0..(c - 1), j < k PROVE t[At(x, j, c)] \notin {Empty, x}
    <3>1. s[At(x, j, c)] \notin {Empty, x}
      BY <2>1, <2>2
    <3>2. At(x, j, c) \in 0..(c - 1)
      BY <1>1, Ring
    <3>3. At(x, j, c) # q
      BY <1>2, <3>1
    <3> QED BY <1>3, <3>1, <3>2, <3>3
  <2> QED BY <2>1, <2>2, Zenon DEF Comes
<1>9. ASSUME NEW i \in Filled(t) PROVE \E k : Comes(t, c, t[i], k, i)
  <2>1. CASE i = q
    <3>1. PICK k : Comes(s, c, id, k, q)
      BY Zenon DEF Adds
    <3>2. Comes(t, c, id, k, q)
      BY <1>8, <3>1, Zenon
    <3> QED BY <1>3, <2>1, <3>2, Zenon
  <2>2. CASE i \in Filled(s)
    <3>1. PICK k : Comes(s, c, s[i], k, i)
      BY <2>2, Zenon DEF Probed
    <3>2. Comes(t, c, s[i], k, i)
      BY <1>1, <1>8, <2>2, <3>1, Zenon
    <3> QED BY <1>7, <2>2, <3>2, Zenon
  <2> QED BY <1>6, <1>9, <2>1, <2>2, Zenon
<1>10. Probed(t, c)
  BY <1>9, Zenon DEF Probed
<1> QED BY <1>3, <1>4, <1>5, <1>6, <1>7, <1>10

\* No id that s has moves to another slot in t.
Stays(s, t) == Filled(s) \subseteq Filled(t) /\ \A i \in Filled(s) : t[i] = s[i]

\* insert adds the id, counts it once, and moves no other.
LEMMA InsertSound ==
    ASSUME NEW set, NEW c, NEW M, Sound(set, c, M), set.len < c, NEW id \in Cid
    PROVE  /\ Sound(insert(set, id), c, M \cup {id})
           /\ insert(set, id).len \in Nat /\ set.len \in Nat
           /\ insert(set, id).len <= set.len + 1
           /\ Stays(set.ids, insert(set, id).ids)
<1>1. PICK s : s = set.ids
  OBVIOUS
<1>2. /\ Slots(s, c) /\ Probed(s, c)
      /\ M = {s[i] : i \in Filled(s)}
      /\ IsFiniteSet(M) /\ set.len = Cardinality(M)
      /\ set.len = Cardinality(Filled(s))
  BY <1>1, Zenon DEF Sound
<1>3. set.len \in Nat
  BY <1>2, SlotFacts
<1>4. CASE id \in M
  <2>1. insert(set, id) = set /\ M \cup {id} = M
    BY <1>4, ExistsIs DEF insert
  <2>2. Stays(s, s)
    BY Zenon DEF Stays
  <2>3. set.len <= set.len + 1
    BY <1>3
  <2> QED BY <1>1, <1>3, <2>1, <2>2, <2>3
<1>5. CASE id \notin M
  <2>1. PICK q : q = Slot(s, id)
    OBVIOUS
  <2>2. PICK t : t = [s EXCEPT ![q] = id]
    OBVIOUS
  <2>3. ~cid_set_exists(set, id)
    BY <1>5, ExistsIs
  <2>4. insert(set, id) = [ids |-> t, len |-> set.len + 1]
    BY <1>1, <2>1, <2>2, <2>3, Zenon DEF insert
  <2>5. insert(set, id).ids = t /\ insert(set, id).len = set.len + 1
    BY <2>4
  <2>6. Cardinality(Filled(s)) < c
    BY <1>2
  <2>7. q \in 0..(c - 1) /\ s[q] \in {Empty, id} /\ \E k : Comes(s, c, id, k, q)
    BY <1>2, <2>1, <2>6, ProbeEnds, Zenon
  <2>8. s[q] # id
    BY <1>1, <2>1, <2>3, Zenon DEF cid_set_exists
  <2>9. Adds(s, t, c, id, q)
    BY <2>2, <2>7, <2>8, Zenon DEF Adds
  <2>10. /\ Slots(t, c) /\ Probed(t, c)
         /\ Filled(t) = Filled(s) \cup {q} /\ q \notin Filled(s)
         /\ \A i \in Filled(s) : t[i] = s[i]
         /\ t[q] = id
    BY <1>2, <2>9, AddsProbed, Zenon
  <2>11. M \cup {id} = {t[i] : i \in Filled(t)}
    <3>1. ASSUME NEW x \in M \cup {id} PROVE \E i \in Filled(t) : x = t[i]
      BY <1>2, <2>10, <3>1, Zenon
    <3>2. ASSUME NEW i \in Filled(t) PROVE t[i] \in M \cup {id}
      BY <1>2, <2>10, <3>2, Zenon
    <3> QED BY <3>1, <3>2, Zenon
  <2>12. /\ IsFiniteSet(M \cup {id}) /\ Cardinality(M \cup {id}) = set.len + 1
         /\ Cardinality(Filled(t)) = set.len + 1
    <3>1. IsFiniteSet(Filled(s))
      BY <1>2, SlotFacts
    <3>2. Cardinality(Filled(s) \cup {q}) = Cardinality(Filled(s)) + 1
      BY <2>10, <3>1, FS_AddElement
    <3>3. IsFiniteSet(M \cup {id}) /\ Cardinality(M \cup {id}) = Cardinality(M) + 1
      BY <1>2, <1>5, FS_AddElement
    <3> QED BY <1>2, <2>10, <3>2, <3>3, Zenon
  <2>13. Sound(insert(set, id), c, M \cup {id})
    BY <2>5, <2>10, <2>11, <2>12, Zenon DEF Sound
  <2>14. Stays(s, t)
    BY <2>10, Zenon DEF Stays
  <2>15. set.len + 1 \in Nat /\ set.len + 1 <= set.len + 1
    BY <1>3
  <2> QED BY <1>1, <1>3, <2>5, <2>13, <2>14, <2>15, Zenon
<1> QED BY <1>4, <1>5
\* An array of empty slots holds nothing.
LEMMA BlankSound ==
    ASSUME NEW c \in Nat, c > 0, NEW set, set.ids = Blank(c), set.len = 0
    PROVE  Sound(set, c, {})
<1>1. Slots(set.ids, c)
  BY DEF Slots, Blank
<1>2. Filled(set.ids) = {}
  BY DEF Filled, Blank
<1>3. Probed(set.ids, c) /\ {} = {set.ids[i] : i \in Filled(set.ids)}
  BY <1>2, Zenon DEF Probed
<1> QED BY <1>1, <1>2, <1>3, FS_EmptySet, Zenon DEF Sound

\* f is the loop of cid_set_grow over the first n slots of set, which has c.
Rehash(f, set, c, n) ==
    f = [i \in 0..n |->
            IF i = 0 THEN [ids |-> Blank(2 * c), len |-> 0]
            ELSE IF set.ids[i - 1] = Empty THEN f[i - 1]
            ELSE insert(f[i - 1], set.ids[i - 1])]

\* The loop can be taken one slot further.
LEMMA RehashStep ==
    ASSUME NEW set, NEW c, NEW n \in Nat, NEW f, Rehash(f, set, c, n)
    PROVE  \E g : Rehash(g, set, c, n + 1)
<1>1. PICK g : g = [i \in 0..(n + 1) |->
                       IF i = n + 1
                       THEN IF set.ids[n] = Empty THEN f[n] ELSE insert(f[n], set.ids[n])
                       ELSE f[i]]
  OBVIOUS
<1>2. \A i \in 0..n : f[i] = IF i = 0 THEN [ids |-> Blank(2 * c), len |-> 0]
                             ELSE IF set.ids[i - 1] = Empty THEN f[i - 1]
                             ELSE insert(f[i - 1], set.ids[i - 1])
  BY Zenon DEF Rehash
<1>3. \A i \in 0..n : i \in 0..(n + 1) /\ i # n + 1
  OBVIOUS
<1>4. \A i \in 0..n : g[i] = f[i]
  BY <1>1, <1>3, Zenon
<1>5. ASSUME NEW i \in 0..(n + 1)
      PROVE  g[i] = IF i = 0 THEN [ids |-> Blank(2 * c), len |-> 0]
                    ELSE IF set.ids[i - 1] = Empty THEN g[i - 1]
                    ELSE insert(g[i - 1], set.ids[i - 1])
  <2>1. CASE i = n + 1
    <3>1. i # 0 /\ i - 1 = n /\ n \in 0..n
      BY <2>1
    <3>2. g[n] = f[n]
      BY <1>4, <3>1
    <3>3. g[i] = IF set.ids[n] = Empty THEN f[n] ELSE insert(f[n], set.ids[n])
      BY <1>1, <2>1, Zenon
    <3> QED BY <3>1, <3>2, <3>3, Zenon
  <2>2. CASE i # n + 1
    <3>1. i \in 0..n
      BY <2>2
    <3>2. CASE i = 0
      BY <1>2, <1>4, <3>1, <3>2, Zenon
    <3>3. CASE i # 0
      <4>1. i - 1 \in 0..n
        BY <3>1, <3>3
      <4>2. g[i - 1] = f[i - 1] /\ g[i] = f[i]
        BY <1>4, <3>1, <4>1, Zenon
      <4> QED BY <1>2, <3>1, <3>3, <4>2, Zenon
    <3> QED BY <3>2, <3>3
  <2> QED BY <2>1, <2>2
<1>6. Rehash(g, set, c, n + 1)
  <2>1. g = [i \in 0..(n + 1) |-> g[i]]
    BY <1>1, Zenon
  <2> QED BY <1>5, <2>1, Zenon DEF Rehash
<1> QED BY <1>6, Zenon

\* So there is such a loop over all slots.
LEMMA RehashExists ==
    ASSUME NEW set, NEW c \in Nat
    PROVE  \E f : Rehash(f, set, c, c)
<1>1. PICK T : T = {n \in Nat : ~\E f : Rehash(f, set, c, n)}
  OBVIOUS
<1>2. SUFFICES ASSUME T # {} PROVE FALSE
  BY <1>1, Zenon
<1>3. T \in SUBSET Nat
  BY <1>1, Zenon
<1>4. PICK n \in T : \A m \in T : n <= m
  BY <1>2, <1>3, LeastNat, Zenon
<1>5. n \in Nat /\ ~\E f : Rehash(f, set, c, n)
  BY <1>1, Zenon
<1>6. CASE n = 0
  <2>1. PICK f : f = [i \in 0..0 |-> [ids |-> Blank(2 * c), len |-> 0]]
    OBVIOUS
  <2>2. \A i \in 0..0 : i = 0
    OBVIOUS
  <2>3. Rehash(f, set, c, 0)
    BY <2>1, <2>2, Zenon DEF Rehash
  <2> QED BY <1>5, <1>6, <2>3, Zenon
<1>7. CASE n # 0
  <2>1. PICK m \in Nat : n = m + 1
    <3>1. n - 1 \in Nat /\ n = (n - 1) + 1
      BY <1>5, <1>7
    <3> QED BY <3>1
  <2>2. m \notin T
    BY <1>4, <2>1
  <2>3. \E f : Rehash(f, set, c, m)
    BY <1>1, <2>1, <2>2, Zenon
  <2>4. \E g : Rehash(g, set, c, m + 1)
    BY <2>1, <2>3, RehashStep, Zenon
  <2> QED BY <1>5, <2>1, <2>4, Zenon
<1> QED BY <1>6, <1>7

\* cid_set_grow is its last state.
LEMMA GrowIs ==
    ASSUME NEW set, NEW c \in Nat, Cap(set.ids) = c
    PROVE  \E f : Rehash(f, set, c, c) /\ cid_set_grow(set) = f[c]
<1>1. PICK f : f = CHOOSE g : Rehash(g, set, c, c)
  OBVIOUS
<1>2. Rehash(f, set, c, c)
  BY <1>1, RehashExists, Zenon
<1>3. cid_set_grow(set) = f[c]
  BY <1>1, Zenon DEF cid_set_grow, Rehash
<1> QED BY <1>2, <1>3, Zenon

\* The ids of the first n slots.
Firsts(s, n) == {s[i] : i \in {j \in Filled(s) : j < n}}

\* Growth keeps every id and counts it once.
LEMMA GrowSound ==
    ASSUME NEW set, NEW c, NEW M, Sound(set, c, M)
    PROVE  Sound(cid_set_grow(set), 2 * c, M)
<1>1. PICK s : s = set.ids
  OBVIOUS
<1>2. Slots(s, c) /\ M = {s[i] : i \in Filled(s)}
  BY <1>1, Zenon DEF Sound
<1>3. /\ c \in Nat /\ c > 0 /\ Cap(s) = c /\ DOMAIN s = 0..(c - 1)
      /\ \A i \in Filled(s) : s[i] \in Cid
      /\ Filled(s) \subseteq 0..(c - 1)
  BY <1>2, SlotFacts DEF Slots
<1>4. PICK f : Rehash(f, set, c, c) /\ cid_set_grow(set) = f[c]
  BY <1>1, <1>3, GrowIs, Zenon
<1>5. \A i \in 0..c : f[i] = IF i = 0 THEN [ids |-> Blank(2 * c), len |-> 0]
                             ELSE IF s[i - 1] = Empty THEN f[i - 1]
                             ELSE insert(f[i - 1], s[i - 1])
  BY <1>1, <1>4, Zenon DEF Rehash
<1>6. PICK T : T = {i \in 0..c : ~(/\ Sound(f[i], 2 * c, Firsts(s, i))
                                   /\ f[i].len \in Nat /\ f[i].len <= i)}
  OBVIOUS
<1>7. T = {}
  <2> SUFFICES ASSUME T # {} PROVE FALSE
    OBVIOUS
  <2>1. T \in SUBSET Nat
    BY <1>3, <1>6
  <2>2. PICK i \in T : \A j \in T : i <= j
    BY <2>1, LeastNat, Zenon
  <2>3. i \in 0..c
    BY <1>6, Zenon
  <2>4. CASE i = 0
    <3>1. f[i].ids = Blank(2 * c) /\ f[i].len = 0
      BY <1>5, <2>3, <2>4
    <3>2. Firsts(s, i) = {}
      BY <1>3, <2>4 DEF Firsts
    <3>3. 2 * c \in Nat /\ 2 * c > 0
      BY <1>3
    <3>4. Sound(f[i], 2 * c, Firsts(s, i))
      BY <3>1, <3>2, <3>3, BlankSound, Zenon
    <3>5. f[i].len \in Nat /\ f[i].len <= i
      BY <2>4, <3>1
    <3> QED BY <1>6, <3>4, <3>5, Zenon
  <2>5. CASE i # 0
    <3>1. PICK j \in 0..(c - 1) : i = j + 1
      <4>1. i - 1 \in 0..(c - 1) /\ i = (i - 1) + 1
        BY <1>3, <2>3, <2>5
      <4> QED BY <4>1
    <3>2. j \in 0..c /\ ~(i <= j) /\ i - 1 = j /\ j \in Nat
      BY <1>3, <3>1
    <3>3. Sound(f[j], 2 * c, Firsts(s, j)) /\ f[j].len \in Nat /\ f[j].len <= j
      BY <1>6, <2>2, <3>2, Zenon
    <3>4. f[i] = IF s[j] = Empty THEN f[j] ELSE insert(f[j], s[j])
      BY <1>5, <2>3, <2>5, <3>2, Zenon
    <3>5. \A k \in Filled(s) : k < i <=> k < j \/ k = j
      BY <1>3, <3>1
    <3>6. CASE s[j] = Empty
      <4>1. j \notin Filled(s)
        BY <3>6, Zenon DEF Filled
      <4>2. Firsts(s, i) = Firsts(s, j)
        BY <3>5, <4>1, Zenon DEF Firsts
      <4>3. f[i] = f[j]
        BY <3>4, <3>6, Zenon
      <4>4. f[i].len \in Nat /\ f[i].len <= i
        BY <3>1, <3>3, <4>3
      <4> QED BY <1>6, <3>3, <4>2, <4>3, <4>4, Zenon
    <3>7. CASE s[j] # Empty
      <4>1. j \in Filled(s) /\ s[j] \in Cid
        BY <1>3, <3>7 DEF Filled
      <4>2. Firsts(s, i) = Firsts(s, j) \cup {s[j]}
        <5>1. ASSUME NEW x \in Firsts(s, i) PROVE x \in Firsts(s, j) \cup {s[j]}
          BY <3>5, <5>1, Zenon DEF Firsts
        <5>2. ASSUME NEW x \in Firsts(s, j) \cup {s[j]} PROVE x \in Firsts(s, i)
          BY <3>5, <4>1, <5>2, Zenon DEF Firsts
        <5> QED BY <5>1, <5>2, Zenon
      <4>3. f[i] = insert(f[j], s[j])
        BY <3>4, <3>7, Zenon
      <4>4. f[j].len < 2 * c
        BY <1>3, <3>1, <3>3
      <4>5. /\ Sound(insert(f[j], s[j]), 2 * c, Firsts(s, j) \cup {s[j]})
            /\ insert(f[j], s[j]).len \in Nat
            /\ insert(f[j], s[j]).len <= f[j].len + 1
        BY <3>3, <4>1, <4>4, InsertSound, Zenon
      <4>6. Sound(f[i], 2 * c, Firsts(s, i))
        BY <4>2, <4>3, <4>5, Zenon
      <4>7. f[i].len \in Nat /\ f[i].len <= f[j].len + 1
        BY <4>3, <4>5, Zenon
      <4>8. f[i].len <= i
        BY <3>1, <3>2, <3>3, <4>7
      <4> QED BY <1>6, <4>6, <4>7, <4>8, Zenon
    <3> QED BY <3>6, <3>7
  <2> QED BY <2>4, <2>5
<1>8. c \in 0..c /\ \A i \in Filled(s) : i < c
  BY <1>3
<1>9. Sound(f[c], 2 * c, Firsts(s, c))
  BY <1>6, <1>7, <1>8, Zenon
<1>10. Firsts(s, c) = M
  BY <1>2, <1>8, Zenon DEF Firsts
<1> QED BY <1>4, <1>9, <1>10, Zenon

\* cid_set_insert: the ids of the set and the new one, with a slot to spare,
\* in the same array or in one twice as large.
LEMMA CidInsertSound ==
    ASSUME NEW set, NEW c, NEW M, Sound(set, c, M), c >= 4, set.len < c, NEW id \in Cid
    PROVE  \E d \in {c, 2 * c} :
               /\ Sound(cid_set_insert(set, id), d, M \cup {id})
               /\ cid_set_insert(set, id).len < d
               /\ d = c => Stays(set.ids, cid_set_insert(set, id).ids)
<1>1. c \in Nat /\ Cap(set.ids) = c /\ set.len \in Nat
  BY SlotFacts DEF Sound, Slots
<1>2. PICK r : r = cid_set_insert(set, id)
  OBVIOUS
<1>3. CASE TooFull(set)
  <2>1. PICK g : g = cid_set_grow(set)
    OBVIOUS
  <2>2. r = insert(g, id)
    BY <1>2, <1>3, <2>1, Zenon DEF cid_set_insert
  <2>3. Sound(g, 2 * c, M)
    BY <2>1, GrowSound, Zenon
  <2>4. g.len = set.len
    BY <2>3, Zenon DEF Sound
  <2>5. g.len < 2 * c /\ 2 * c # c
    BY <1>1, <2>4
  <2>6. /\ Sound(r, 2 * c, M \cup {id})
        /\ r.len \in Nat /\ g.len \in Nat /\ r.len <= g.len + 1
    BY <2>2, <2>3, <2>5, InsertSound, Zenon
  <2>7. r.len < 2 * c
    BY <1>1, <2>4, <2>6
  <2> QED BY <1>2, <2>5, <2>6, <2>7, Zenon
<1>4. CASE ~TooFull(set)
  <2>1. r = insert(set, id)
    BY <1>2, <1>4, Zenon DEF cid_set_insert
  <2>2. /\ Sound(r, c, M \cup {id}) /\ Stays(set.ids, r.ids)
        /\ r.len \in Nat /\ set.len \in Nat /\ r.len <= set.len + 1
    BY <2>1, InsertSound, Zenon
  <2>3. ~(4 * set.len >= 3 * c)
    BY <1>1, <1>4, Zenon DEF TooFull
  <2>4. r.len < c
    BY <1>1, <2>2, <2>3
  <2> QED BY <1>2, <2>2, <2>4, Zenon
<1> QED BY <1>3, <1>4
-----------------------------------------------------------------------------
(* What a batch is read from.                                              *)

\* A set of natural numbers below c that is not empty has a largest one.
LEMMA MaxIs ==
    ASSUME NEW c \in Nat, NEW B, B \subseteq 0..(c - 1), B # {}
    PROVE  Max(B) \in B /\ \A y \in B : y <= Max(B)
<1>1. PICK T : T = {n \in Nat : \A y \in B : y <= n}
  OBVIOUS
<1>2. c \in T
  BY <1>1
<1>3. T \in SUBSET Nat /\ T # {}
  BY <1>1, <1>2
<1>4. PICK m \in T : \A n \in T : m <= n
  BY <1>3, LeastNat, Zenon
<1>5. m \in Nat /\ \A y \in B : y <= m
  BY <1>1, Zenon
<1>6. m \in B
  <2> SUFFICES ASSUME m \notin B PROVE FALSE
    OBVIOUS
  <2>1. \A y \in B : y \in Nat /\ y <= m - 1
    BY <1>5
  <2>2. m - 1 \in Nat
    <3>1. PICK y \in B : TRUE
      BY Zenon
    <3> QED BY <1>5, <2>1, <3>1
  <2>3. m - 1 \in T
    BY <1>1, <2>1, <2>2
  <2> QED BY <1>4, <1>5, <2>3
<1>7. \E x \in B : \A y \in B : x >= y
  BY <1>5, <1>6
<1>8. Max(B) \in B /\ \A y \in B : Max(B) >= y
  BY <1>7, Zenon DEF Max
<1> QED BY <1>8

\* The slots of B up to i.
UpTo(B, i) == {j \in B : j <= i}

\* Counting the slots up to one tells them apart, and every count is met.
LEMMA Ranks ==
    ASSUME NEW c \in Nat, NEW B, B \subseteq 0..(c - 1)
    PROVE  /\ IsFiniteSet(B) /\ Cardinality(B) \in Nat
           /\ \A k \in 1..Cardinality(B) : \E i \in B : Cardinality(UpTo(B, i)) = k
           /\ \A i \in B : Cardinality(UpTo(B, i)) \in 1..Cardinality(B)
           /\ \A i, j \in B : Cardinality(UpTo(B, i)) = Cardinality(UpTo(B, j)) => i = j
<1>1. IsFiniteSet(B) /\ Cardinality(B) \in Nat
  <2>1. IsFiniteSet(0..(c - 1))
    BY FS_Interval
  <2> QED BY <2>1, FS_Subset, FS_CardinalityType
<1>2. ASSUME NEW i \in B
      PROVE  /\ IsFiniteSet(UpTo(B, i)) /\ Cardinality(UpTo(B, i)) \in 1..Cardinality(B)
  <2>1. UpTo(B, i) \in SUBSET B /\ i \in UpTo(B, i)
    BY DEF UpTo
  <2>2. IsFiniteSet(UpTo(B, i)) /\ Cardinality(UpTo(B, i)) <= Cardinality(B)
    BY <1>1, <2>1, FS_Subset
  <2>3. Cardinality(UpTo(B, i)) \in Nat /\ Cardinality(UpTo(B, i)) # 0
    BY <2>1, <2>2, FS_CardinalityType, FS_EmptySet
  <2> QED BY <1>1, <2>2, <2>3
<1>3. ASSUME NEW i \in B, NEW j \in B, i < j
      PROVE  Cardinality(UpTo(B, i)) # Cardinality(UpTo(B, j))
  <2>1. \A y \in B : y <= i => y <= j
    BY <1>3
  <2>2. UpTo(B, i) \in SUBSET UpTo(B, j)
    BY <2>1, Zenon DEF UpTo
  <2>3. ~(j <= i) /\ j <= j
    BY <1>3
  <2>4. UpTo(B, j) # UpTo(B, i)
    BY <2>3, Zenon DEF UpTo
  <2> QED BY <1>2, <2>2, <2>4, FS_Subset
<1>4. ASSUME NEW i \in B, NEW j \in B, Cardinality(UpTo(B, i)) = Cardinality(UpTo(B, j))
      PROVE  i = j
  <2>1. ~(i < j) /\ ~(j < i)
    BY <1>3, <1>4
  <2> QED BY <2>1
<1>5. PICK l \in Nat : l = Cardinality(B)
  BY <1>1
<1>6. PICK f : f = [i \in B |-> Cardinality(UpTo(B, i))]
  OBVIOUS
<1>7. f \in Injection(B, 1..l)
  <2>1. f \in [B -> 1..l]
    BY <1>2, <1>5, <1>6, Zenon
  <2>2. \A i, j \in B : f[i] = f[j] => i = j
    BY <1>4, <1>6, Zenon
  <2> QED BY <2>1, <2>2, Zenon DEF Injection, IsInjective
<1>8. IsFiniteSet(1..l) /\ Cardinality(1..l) = l
  <2>1. /\ IsFiniteSet(1..l)
        /\ Cardinality(1..l) = IF 1 > l THEN 0 ELSE l - 1 + 1
    BY FS_Interval
  <2> QED BY <2>1
<1>9. f \in Surjection(B, 1..l)
  BY <1>5, <1>7, <1>8, FS_Injection, Zenon
<1>10. \A k \in 1..l : \E i \in B : f[i] = k
  BY <1>9, Zenon DEF Surjection
<1>11. \A k \in 1..l : \E i \in B : Cardinality(UpTo(B, i)) = k
  BY <1>6, <1>10, Zenon
<1> QED BY <1>1, <1>2, <1>4, <1>5, <1>11, Zenon

\* The k-th slot of B, and the ids of its slots in their order.
Ranked(B, k) == CHOOSE i \in B : Cardinality(UpTo(B, i)) = k
Listing(s, B) == [k \in 1..Cardinality(B) |-> s[Ranked(B, k)]]

\* The elements of b are the ids of the slots of B.
Reads(b, s, B) == \A x : x \in Range(b) <=> \E i \in B : x = s[i]

\* It has the id of every one of them, each at one place.
LEMMA ListingIs ==
    ASSUME NEW s, NEW c, Slots(s, c), Probed(s, c), NEW B, B \subseteq Filled(s)
    PROVE  /\ Listing(s, B) \in Seq(Cid) /\ Distinct(Listing(s, B))
           /\ Reads(Listing(s, B), s, B)
<1>1. PICK b : b = Listing(s, B)
  OBVIOUS
<1>2. /\ c \in Nat /\ Filled(s) \subseteq 0..(c - 1)
      /\ \A i \in Filled(s) : s[i] \in Cid
  BY SlotFacts DEF Slots
<1>4. B \subseteq 0..(c - 1)
  BY <1>2
<1>5. /\ IsFiniteSet(B) /\ Cardinality(B) \in Nat
      /\ \A k \in 1..Cardinality(B) : \E i \in B : Cardinality(UpTo(B, i)) = k
      /\ \A i \in B : Cardinality(UpTo(B, i)) \in 1..Cardinality(B)
      /\ \A i, j \in B : Cardinality(UpTo(B, i)) = Cardinality(UpTo(B, j)) => i = j
  BY <1>2, <1>4, Ranks, Zenon
<1>6. PICK l \in Nat : l = Cardinality(B)
  BY <1>5
<1>9. \A k \in 1..l : Ranked(B, k) \in B /\ Cardinality(UpTo(B, Ranked(B, k))) = k
  BY <1>5, <1>6, Zenon DEF Ranked
<1>10. b = [k \in 1..l |-> s[Ranked(B, k)]]
  BY <1>1, <1>6, Zenon DEF Listing
<1>11. \A k \in 1..l : b[k] = s[Ranked(B, k)] /\ s[Ranked(B, k)] \in Cid
  BY <1>2, <1>9, <1>10, Zenon
<1>12. b \in Seq(Cid) /\ Len(b) = l
  <2>1. b \in [1..l -> Cid]
    BY <1>10, <1>11, Zenon
  <2> QED BY <2>1, IsASeq
<1>13. ASSUME NEW j \in 1..l, NEW k \in 1..l, b[j] = b[k] PROVE j = k
  <2>1. Ranked(B, j) \in Filled(s) /\ Ranked(B, k) \in Filled(s) /\ s[Ranked(B, j)] = s[Ranked(B, k)]
    BY <1>9, <1>11, <1>13, Zenon
  <2>2. Ranked(B, j) = Ranked(B, k)
    BY <2>1, OneSlot, Zenon
  <2> QED BY <1>9, <2>2, Zenon
<1>14. Distinct(b)
  BY <1>12, <1>13, Zenon DEF Distinct
<1>15. \A x : x \in Range(b) <=> \E k \in 1..l : x = b[k]
  BY <1>12, SeqRange, Zenon
<1>16. ASSUME NEW i \in B PROVE \E k \in 1..l : s[i] = b[k]
  <2>1. PICK k \in 1..l : k = Cardinality(UpTo(B, i))
    BY <1>5, <1>6, Zenon
  <2>2. Ranked(B, k) = i
    BY <1>5, <1>9, <2>1, Zenon
  <2> QED BY <1>11, <2>2, Zenon
<1>17. ASSUME NEW k \in 1..l PROVE \E i \in B : b[k] = s[i]
  BY <1>9, <1>11, Zenon
<1>18. ASSUME NEW x PROVE x \in Range(b) <=> \E i \in B : x = s[i]
  <2>1. ASSUME x \in Range(b) PROVE \E i \in B : x = s[i]
    <3>1. PICK k \in 1..l : x = b[k]
      BY <1>15, <2>1, Zenon
    <3> QED BY <1>17, <3>1, Zenon
  <2>2. ASSUME NEW i \in B, x = s[i] PROVE x \in Range(b)
    BY <1>15, <1>16, <2>2, Zenon
  <2> QED BY <2>1, <2>2, Zenon
<1>19. Reads(b, s, B)
  BY <1>18, Zenon DEF Reads
<1> QED BY <1>1, <1>12, <1>14, <1>19, Zenon

\* The first n slots of F.
Leading(F, n) == {i \in F : Cardinality(UpTo(F, i)) <= n}

\* They are the first ones, and all of them if they are not n.
LEMMA LeadingIs ==
    ASSUME NEW c \in Nat, NEW F, F \subseteq 0..(c - 1), NEW n \in Nat
    PROVE  /\ \A i \in F : \A j \in Leading(F, n) : i <= j => i \in Leading(F, n)
           /\ Cardinality(Leading(F, n)) # n => Leading(F, n) = F
<1>1. /\ IsFiniteSet(F) /\ Cardinality(F) \in Nat
      /\ \A k \in 1..Cardinality(F) : \E i \in F : Cardinality(UpTo(F, i)) = k
      /\ \A i \in F : Cardinality(UpTo(F, i)) \in 1..Cardinality(F)
      /\ \A i, j \in F : Cardinality(UpTo(F, i)) = Cardinality(UpTo(F, j)) => i = j
  BY Ranks, Zenon
<1>2. ASSUME NEW i \in F, NEW j \in Leading(F, n), i <= j PROVE i \in Leading(F, n)
  <2>1. j \in F /\ Cardinality(UpTo(F, j)) <= n
    BY <1>2 DEF Leading
  <2>2. \A y \in F : y <= i => y <= j
    BY <1>2, <2>1
  <2>3. UpTo(F, i) \in SUBSET UpTo(F, j) /\ UpTo(F, j) \in SUBSET F
    BY <2>2, Zenon DEF UpTo
  <2>4. IsFiniteSet(UpTo(F, j))
    BY <1>1, <2>3, FS_Subset
  <2>5. Cardinality(UpTo(F, i)) <= Cardinality(UpTo(F, j))
    BY <2>3, <2>4, FS_Subset
  <2>6. Cardinality(UpTo(F, i)) <= n
    BY <1>1, <2>1, <2>5
  <2> QED BY <2>6, Zenon DEF Leading
<1>3. CASE Cardinality(F) <= n
  <2>1. \A i \in F : Cardinality(UpTo(F, i)) <= n
    BY <1>1, <1>3
  <2>2. Leading(F, n) = F
    BY <2>1, Zenon DEF Leading
  <2> QED BY <1>2, <2>2, Zenon
<1>4. CASE n < Cardinality(F)
  <2>1. PICK B : B = Leading(F, n)
    OBVIOUS
  <2>2. PICK f : f = [i \in B |-> Cardinality(UpTo(F, i))]
    OBVIOUS
  <2>3. \A i \in B : i \in F /\ f[i] = Cardinality(UpTo(F, i)) /\ Cardinality(UpTo(F, i)) <= n
    BY <2>1, <2>2, Zenon DEF Leading
  <2>4. ASSUME NEW i \in B PROVE Cardinality(UpTo(F, i)) \in 1..n
    <3>1. /\ Cardinality(UpTo(F, i)) \in 1..Cardinality(F)
          /\ Cardinality(UpTo(F, i)) <= n
      BY <1>1, <2>3, Zenon
    <3> QED BY <1>1, <3>1
  <2>5. f \in Injection(B, 1..n)
    <3>1. f \in [B -> 1..n]
      BY <2>2, <2>4, Zenon
    <3>2. \A i, j \in B : f[i] = f[j] => i = j
      BY <1>1, <2>3, Zenon
    <3> QED BY <3>1, <3>2, Zenon DEF Injection, IsInjective
  <2>6. ASSUME NEW k \in 1..n PROVE \E i \in B : f[i] = k
    <3>1. k \in 1..Cardinality(F) /\ k <= n
      BY <1>1, <1>4
    <3>2. PICK i \in F : Cardinality(UpTo(F, i)) = k
      BY <1>1, <3>1, Zenon
    <3>3. i \in B
      BY <2>1, <3>1, <3>2, Zenon DEF Leading
    <3> QED BY <2>3, <3>2, <3>3, Zenon
  <2>7. f \in Surjection(B, 1..n)
    <3>1. f \in [B -> 1..n]
      BY <2>5, Zenon DEF Injection
    <3> QED BY <2>6, <3>1, Zenon DEF Surjection
  <2>8. IsFiniteSet(1..n) /\ Cardinality(1..n) = n
    <3>1. /\ IsFiniteSet(1..n)
          /\ Cardinality(1..n) = IF 1 > n THEN 0 ELSE n - 1 + 1
      BY FS_Interval
    <3> QED BY <3>1
  <2>9. Cardinality(B) = n
    BY <2>5, <2>7, <2>8, FS_Injection, Zenon
  <2> QED BY <1>2, <2>1, <2>9, Zenon
<1> QED BY <1>1, <1>3, <1>4

\* The taken slots from idx on that lie before d.
Between(s, idx, d) == {i \in Filled(s) : idx <= i /\ i < d}

\* A batch is read from all slots between the iterator's old and new place.
LEMMA BatchBetween ==
    ASSUME NEW s, NEW c, Slots(s, c), NEW idx \in 0..c, NEW n \in Nat, n > 0
    PROVE  /\ NextIdx(s, idx, n) \in 0..c /\ idx <= NextIdx(s, idx, n)
           /\ Batch(s, idx, n) = Between(s, idx, NextIdx(s, idx, n))
<1>1. c \in Nat /\ Cap(s) = c /\ Filled(s) \subseteq 0..(c - 1)
  BY SlotFacts DEF Slots
<1>2. PICK F : F = {i \in Filled(s) : idx <= i}
  OBVIOUS
<1>3. F \subseteq 0..(c - 1)
  BY <1>1, <1>2, Zenon
<1>4. \A i : UpTo(F, i) = {j \in Filled(s) : idx <= j /\ j <= i}
  BY <1>2, Zenon DEF UpTo
<1>5. \A i \in Filled(s) : i >= idx <=> idx <= i
  BY <1>1
<1>6. PICK B : B = Batch(s, idx, n)
  OBVIOUS
<1>7. B = {i \in Filled(s) : i >= idx /\ Cardinality(UpTo(F, i)) <= n}
  BY <1>4, <1>6, Zenon DEF Batch
<1>8. B = Leading(F, n)
  BY <1>2, <1>5, <1>7, Zenon DEF Leading
<1>9. /\ \A i \in F : \A j \in B : i <= j => i \in B
      /\ Cardinality(B) # n => B = F
      /\ B \subseteq F
  <2>1. /\ \A i \in F : \A j \in Leading(F, n) : i <= j => i \in Leading(F, n)
        /\ Cardinality(Leading(F, n)) # n => Leading(F, n) = F
    BY <1>1, <1>3, LeadingIs, Zenon
  <2>2. Leading(F, n) \subseteq F
    BY Zenon DEF Leading
  <2> QED BY <1>8, <2>1, <2>2, Zenon
<1>10. CASE Cardinality(B) = n
  <2>1. B # {} /\ B \subseteq 0..(c - 1)
    BY <1>3, <1>9, <1>10, FS_EmptySet
  <2>2. PICK m : m = Max(B)
    OBVIOUS
  <2>3. m \in B /\ \A y \in B : y <= m
    BY <1>1, <2>1, <2>2, MaxIs, Zenon
  <2>4. NextIdx(s, idx, n) = m + 1
    BY <1>6, <1>10, <2>2, Zenon DEF NextIdx
  <2>5. m \in 0..(c - 1) /\ idx <= m
    BY <1>2, <1>9, <2>1, <2>3, Zenon
  <2>6. m + 1 \in 0..c /\ idx <= m + 1
    BY <1>1, <2>5
  <2>7. \A i \in 0..(c - 1) : i < m + 1 <=> i <= m
    BY <2>5
  <2>8. ASSUME NEW i \in B PROVE i \in Between(s, idx, m + 1)
    <3>1. i \in F /\ i <= m
      BY <1>9, <2>3, Zenon
    <3>2. i \in Filled(s) /\ idx <= i /\ i \in 0..(c - 1)
      BY <1>1, <1>2, <3>1, Zenon
    <3> QED BY <2>7, <3>1, <3>2, Zenon DEF Between
  <2>9. ASSUME NEW i \in Between(s, idx, m + 1) PROVE i \in B
    <3>1. i \in Filled(s) /\ idx <= i /\ i < m + 1
      BY <2>9, Zenon DEF Between
    <3>2. i \in F /\ i <= m
      BY <1>1, <1>2, <2>7, <3>1, Zenon
    <3> QED BY <1>9, <2>3, <3>2, Zenon
  <2>10. B = Between(s, idx, m + 1)
    BY <2>8, <2>9, Zenon
  <2> QED BY <1>6, <2>4, <2>6, <2>10, Zenon
<1>11. CASE Cardinality(B) # n
  <2>1. NextIdx(s, idx, n) = c
    BY <1>1, <1>6, <1>11, Zenon DEF NextIdx
  <2>2. c \in 0..c /\ idx <= c /\ \A i \in Filled(s) : i < c
    BY <1>1
  <2>3. B = Between(s, idx, c)
    BY <1>2, <1>9, <1>11, <2>2, Zenon DEF Between
  <2> QED BY <1>6, <2>1, <2>2, <2>3, Zenon
<1> QED BY <1>10, <1>11

\* The ids a batch returns, each once.
LEMMA BatchIdsAre ==
    ASSUME NEW s, NEW c, Slots(s, c), Probed(s, c), NEW idx, NEW n
    PROVE  /\ BatchIds(s, idx, n) \in Seq(Cid) /\ Distinct(BatchIds(s, idx, n))
           /\ Reads(BatchIds(s, idx, n), s, Batch(s, idx, n))
<1>1. Batch(s, idx, n) \subseteq Filled(s)
  BY Zenon DEF Batch
<1>2. BatchIds(s, idx, n) = Listing(s, Batch(s, idx, n))
  BY Zenon DEF BatchIds, Listing, Ranked, UpTo
<1>3. PICK B : B = Batch(s, idx, n)
  OBVIOUS
<1>4. /\ Listing(s, B) \in Seq(Cid) /\ Distinct(Listing(s, B))
      /\ Reads(Listing(s, B), s, B)
  BY <1>1, <1>3, ListingIs, Zenon
<1> QED BY <1>2, <1>3, <1>4, Zenon
-----------------------------------------------------------------------------
(* The lists of groups, exhibited as sequences: the head of a list is the  *)
(* last entry of its sequence, so that a new group appends.                *)

N == Cardinality(Grp)

Index == 0..(NumGroups - 1)

\* The entry of s at j, NULL where there is none.
Place(s, j) == IF j \in 1..Len(s) THEN s[j] ELSE NULL

\* The list that starts at head among the groups gr is s, from its end.
Linked(s, head, gr) ==
    /\ s \in Seq(Grp) /\ Distinct(s)
    /\ head = Place(s, Len(s))
    /\ \A j \in 1..Len(s) : gr[s[j]].next = Place(s, j - 1)

\* Groups are finitely many, and NULL is none of them.
LEMMA GrpCount == N \in Nat /\ IsFiniteSet(Grp) /\ NULL \notin Grp
<1>1. IsFiniteSet(Grp) /\ NULL \notin Grp
  BY GroupsAssumption
<1> QED BY <1>1, FS_CardinalityType DEF N

\* A list without repetition is no longer than there are groups.
LEMMA ShortList ==
    ASSUME NEW s \in Seq(Grp), Distinct(s)
    PROVE  Len(s) \in Nat /\ Len(s) <= N
<1>1. PICK l \in Nat : l = Len(s)
  OBVIOUS
<1>2. IsFiniteSet(1..l) /\ Cardinality(1..l) = l
  <2>1. /\ IsFiniteSet(1..l)
        /\ Cardinality(1..l) = IF 1 > l THEN 0 ELSE l - 1 + 1
    BY FS_Interval
  <2> QED BY <2>1
<1>3. s \in Injection(1..l, Grp)
  <2>1. s \in [1..l -> Grp]
    BY <1>1
  <2>2. \A i, j \in 1..l : s[i] = s[j] => i = j
    BY <1>1, Zenon DEF Distinct
  <2> QED BY <2>1, <2>2, Zenon DEF Injection, IsInjective
<1>4. Cardinality(1..l) <= Cardinality(Grp)
  BY <1>2, <1>3, GrpCount, FS_Injection, Zenon
<1> QED BY <1>1, <1>2, <1>4, Zenon DEF N

\* The k-th group the loops meet.
Walk(s) == [k \in 0..N |-> Place(s, Len(s) - k)]

\* f is what following the links from g meets.
Follows(f, g) ==
    f = [k \in 0..N |-> IF k = 0 THEN g
                        ELSE IF f[k - 1] = NULL THEN NULL
                        ELSE grp[f[k - 1]].next]

\* Along a list that is linked, the links lead from entry to entry.
LEMMA WalkFollows ==
    ASSUME NEW s, NEW head, Linked(s, head, grp)
    PROVE  Follows(Walk(s), head)
<1>1. /\ s \in Seq(Grp) /\ head = Place(s, Len(s))
      /\ \A j \in 1..Len(s) : grp[s[j]].next = Place(s, j - 1)
  BY Zenon DEF Linked
<1>2. PICK l \in Nat : l = Len(s)
  BY <1>1, LenProperties
<1>3. PICK w : w = Walk(s)
  OBVIOUS
<1>4. w = [k \in 0..N |-> Place(s, l - k)]
  BY <1>2, <1>3, Zenon DEF Walk
<1>5. ASSUME NEW k \in 0..N
      PROVE  Place(s, l - k) = IF k = 0 THEN head
                               ELSE IF w[k - 1] = NULL THEN NULL
                               ELSE grp[w[k - 1]].next
  <2>1. CASE k = 0
    <3>1. l - k = Len(s)
      BY <1>2, <2>1
    <3> QED BY <1>1, <2>1, <3>1, Zenon
  <2>2. CASE k # 0
    <3>1. k - 1 \in 0..N /\ l - (k - 1) = l - k + 1 /\ l - k \in Int
      BY <1>2, <2>2, GrpCount
    <3>2. w[k - 1] = Place(s, l - k + 1)
      BY <1>4, <3>1
    <3>3. CASE l - k + 1 \in 1..l
      <4>1. PICK q \in 1..Len(s) : q = l - k + 1
        BY <1>2, <3>3, Zenon
      <4>2. w[k - 1] = s[q] /\ s[q] \in Grp
        BY <1>1, <3>2, <4>1, ElementOfSeq, Zenon DEF Place
      <4>3. grp[s[q]].next = Place(s, q - 1) /\ q - 1 = l - k
        BY <1>1, <3>1, <4>1
      <4> QED BY <2>2, <4>2, <4>3, GrpCount, Zenon
    <3>4. CASE l - k + 1 \notin 1..l
      <4>1. w[k - 1] = NULL
        BY <1>2, <3>2, <3>4, Zenon DEF Place
      <4>2. l - k \notin 1..l
        BY <1>2, <2>2, <3>1, <3>4
      <4> QED BY <1>2, <2>2, <4>1, <4>2, Zenon DEF Place
    <3> QED BY <3>3, <3>4
  <2> QED BY <2>1, <2>2
<1>6. w = [k \in 0..N |-> IF k = 0 THEN head
                          ELSE IF w[k - 1] = NULL THEN NULL
                          ELSE grp[w[k - 1]].next]
  BY <1>4, <1>5, Zenon
<1> QED BY <1>3, <1>6, Zenon DEF Follows

\* There is one such function.
LEMMA OneWalk ==
    ASSUME NEW f, NEW h, NEW g, Follows(f, g), Follows(h, g)
    PROVE  f = h
<1>1. /\ DOMAIN f = 0..N /\ DOMAIN h = 0..N
      /\ f = [k \in 0..N |-> f[k]] /\ h = [k \in 0..N |-> h[k]]
  BY Zenon DEF Follows
<1>2. \A k \in 0..N : /\ f[k] = IF k = 0 THEN g ELSE IF f[k - 1] = NULL THEN NULL
                                ELSE grp[f[k - 1]].next
                      /\ h[k] = IF k = 0 THEN g ELSE IF h[k - 1] = NULL THEN NULL
                                ELSE grp[h[k - 1]].next
  BY Zenon DEF Follows
<1>3. PICK T : T = {k \in 0..N : f[k] # h[k]}
  OBVIOUS
<1>4. T = {}
  <2> SUFFICES ASSUME T # {} PROVE FALSE
    OBVIOUS
  <2>1. T \in SUBSET Nat
    BY <1>3
  <2>2. PICK k \in T : \A j \in T : k <= j
    BY <2>1, LeastNat, Zenon
  <2>3. k \in 0..N /\ f[k] # h[k]
    BY <1>3, Zenon
  <2>4. CASE k = 0
    BY <1>2, <2>3, <2>4, Zenon
  <2>5. CASE k # 0
    <3>1. k - 1 \in 0..N /\ ~(k <= k - 1)
      BY <2>3, <2>5, GrpCount
    <3>2. f[k - 1] = h[k - 1]
      BY <1>3, <2>2, <3>1, Zenon
    <3> QED BY <1>2, <2>3, <2>5, <3>2, Zenon
  <2> QED BY <2>4, <2>5
<1>5. \A k \in 0..N : f[k] = h[k]
  BY <1>3, <1>4, Zenon
<1> QED BY <1>1, <1>5, Zenon

\* The loops meet the entries of the sequence and nothing else.
LEMMA ListIs ==
    ASSUME NEW s, NEW head, Linked(s, head, grp)
    PROVE  List(head) = Range(s)
<1>1. s \in Seq(Grp) /\ Distinct(s)
  BY Zenon DEF Linked
<1>2. PICK w : w = CHOOSE f : Follows(f, head)
  OBVIOUS
<1>3. Follows(Walk(s), head) /\ Follows(w, head)
  BY <1>2, WalkFollows, Zenon
<1>4. w = Walk(s)
  BY <1>3, OneWalk, Zenon
<1>5. List(head) = {w[k] : k \in 0..N} \ {NULL}
  BY <1>2, Zenon DEF List, Follows, N
<1>6. PICK l \in Nat : l = Len(s) /\ l <= N
  BY <1>1, ShortList, Zenon
<1>7. \A k \in 0..N : w[k] = Place(s, l - k)
  BY <1>4, <1>6, Zenon DEF Walk
<1>8. \A x : x \in Range(s) <=> \E i \in 1..l : x = s[i]
  BY <1>1, <1>6, SeqRange, Zenon
<1>9. ASSUME NEW k \in 0..N, w[k] # NULL PROVE w[k] \in Range(s)
  <2>1. l - k \in 1..l /\ w[k] = s[l - k]
    BY <1>6, <1>7, <1>9, Zenon DEF Place
  <2> QED BY <1>8, <2>1, Zenon
<1>10. ASSUME NEW x \in Range(s) PROVE x # NULL /\ \E k \in 0..N : x = w[k]
  <2>1. PICK i \in 1..l : x = s[i]
    BY <1>8, Zenon
  <2>2. l - i \in 0..N /\ l - (l - i) = i
    BY <1>6, GrpCount
  <2>3. w[l - i] = s[i]
    BY <1>6, <1>7, <2>1, <2>2, Zenon DEF Place
  <2>4. s[i] \in Grp
    BY <1>1, <1>6, <2>1, ElementOfSeq, Zenon
  <2> QED BY <2>1, <2>2, <2>3, <2>4, GrpCount, Zenon
<1> QED BY <1>5, <1>9, <1>10, Zenon

\* The groups of bucket i.
InBucket(i, gr) == {g \in DOMAIN gr : Bucket(gr[g].gid) = i}

\* The list that starts in bucket i has them all; there are none where the
\* bucket was never written.
Listed(i, bk, gr) ==
    IF bk[i] = Wild THEN InBucket(i, gr) = {}
    ELSE \E s : Linked(s, bk[i], gr) /\ Range(s) = InBucket(i, gr)

\* A list is its sequence, whatever becomes of the members of its groups.
SameLinks(gr, ge) ==
    /\ DOMAIN ge = DOMAIN gr
    /\ \A g \in DOMAIN gr : ge[g].gid = gr[g].gid /\ ge[g].next = gr[g].next

LEMMA LinksKept ==
    ASSUME NEW bk, NEW gr, NEW ge, SameLinks(gr, ge), NEW i, Listed(i, bk, gr)
    PROVE  Listed(i, bk, ge)
<1>1. /\ DOMAIN ge = DOMAIN gr
      /\ \A g \in DOMAIN gr : ge[g].gid = gr[g].gid /\ ge[g].next = gr[g].next
  BY Zenon DEF SameLinks
<1>2. InBucket(i, ge) = InBucket(i, gr)
  BY <1>1, Zenon DEF InBucket
<1>3. ASSUME NEW s, Linked(s, bk[i], gr), Range(s) = InBucket(i, gr)
      PROVE  Linked(s, bk[i], ge)
  <2>1. /\ s \in Seq(Grp) /\ Distinct(s) /\ bk[i] = Place(s, Len(s))
        /\ \A j \in 1..Len(s) : gr[s[j]].next = Place(s, j - 1)
    BY <1>3, Zenon DEF Linked
  <2>2. \A x : x \in Range(s) <=> \E j \in 1..Len(s) : x = s[j]
    BY <2>1, SeqRange, Zenon
  <2>3. \A j \in 1..Len(s) : s[j] \in DOMAIN gr
    BY <1>3, <2>2, Zenon DEF InBucket
  <2>4. \A j \in 1..Len(s) : ge[s[j]].next = Place(s, j - 1)
    BY <1>1, <2>1, <2>3, Zenon
  <2> QED BY <2>1, <2>4, Zenon DEF Linked
<1> QED BY <1>2, <1>3, Zenon DEF Listed

\* A new group n in front of the list of bucket i.
PutFirst(bk, be, gr, ge, i, n) ==
    /\ n \in Grp /\ n \notin DOMAIN gr
    /\ DOMAIN ge = DOMAIN gr \cup {n}
    /\ \A g \in DOMAIN gr : ge[g] = gr[g]
    /\ Bucket(ge[n].gid) = i /\ ge[n].next = bk[i]
    /\ bk[i] # Wild
    /\ be[i] = n
    /\ \A k \in Index : k # i => be[k] = bk[k]

\* It adds that group to its list and leaves the others.
LEMMA PutFirstListed ==
    ASSUME NEW bk, NEW be, NEW gr, NEW ge, NEW i \in Index, NEW n,
           PutFirst(bk, be, gr, ge, i, n), NEW k \in Index,
           Listed(i, bk, gr), Listed(k, bk, gr)
    PROVE  Listed(k, be, ge)
<1>1. /\ n \in Grp /\ n \notin DOMAIN gr /\ n # Wild
      /\ DOMAIN ge = DOMAIN gr \cup {n}
      /\ \A g \in DOMAIN gr : ge[g] = gr[g]
      /\ Bucket(ge[n].gid) = i /\ ge[n].next = bk[i]
      /\ bk[i] # Wild /\ be[i] = n
  BY GroupsAssumption, Zenon DEF PutFirst
<1>2. ASSUME NEW s, NEW j, Linked(s, bk[j], gr), Range(s) = InBucket(j, gr)
      PROVE  /\ s \in Seq(Grp) /\ Distinct(s) /\ bk[j] = Place(s, Len(s))
             /\ n \notin Range(s)
             /\ \A m \in 1..Len(s) : ge[s[m]].next = Place(s, m - 1)
  <2>1. /\ s \in Seq(Grp) /\ Distinct(s) /\ bk[j] = Place(s, Len(s))
        /\ \A m \in 1..Len(s) : gr[s[m]].next = Place(s, m - 1)
    BY <1>2, Zenon DEF Linked
  <2>2. \A x : x \in Range(s) <=> \E m \in 1..Len(s) : x = s[m]
    BY <2>1, SeqRange, Zenon
  <2>3. \A x \in Range(s) : x \in DOMAIN gr
    BY <1>2, Zenon DEF InBucket
  <2>4. \A m \in 1..Len(s) : ge[s[m]].next = Place(s, m - 1)
    BY <1>1, <2>1, <2>2, <2>3, Zenon
  <2> QED BY <1>1, <2>1, <2>3, <2>4, Zenon
<1>3. CASE k # i
  <2>1. be[k] = bk[k]
    BY <1>3, Zenon DEF PutFirst
  <2>2. InBucket(k, ge) = InBucket(k, gr)
    BY <1>1, <1>3, Zenon DEF InBucket
  <2>3. ASSUME NEW s, Linked(s, bk[k], gr), Range(s) = InBucket(k, gr)
        PROVE  Linked(s, bk[k], ge)
    BY <1>2, <2>3, Zenon DEF Linked
  <2> QED BY <2>1, <2>2, <2>3, Zenon DEF Listed
<1>4. CASE k = i
  <2>1. PICK s : Linked(s, bk[i], gr) /\ Range(s) = InBucket(i, gr)
    BY <1>1, Zenon DEF Listed
  <2>2. /\ s \in Seq(Grp) /\ Distinct(s) /\ bk[i] = Place(s, Len(s))
        /\ n \notin Range(s)
        /\ \A m \in 1..Len(s) : ge[s[m]].next = Place(s, m - 1)
    BY <1>2, <2>1, Zenon
  <2>3. PICK l \in Nat : l = Len(s)
    BY <2>2, LenProperties
  <2>4. PICK t : t = Append(s, n)
    OBVIOUS
  <2>5. /\ t \in Seq(Grp) /\ Len(t) = l + 1 /\ Distinct(t)
        /\ Range(t) = Range(s) \cup {n}
    BY <1>1, <2>2, <2>3, <2>4, AppendDistinct
  <2>6. (\A m \in 1..l : t[m] = s[m]) /\ t[l + 1] = n
    BY <1>1, <2>2, <2>3, <2>4, AppendProperties
  <2>7. \A m \in 0..l : Place(t, m) = Place(s, m)
    <3>1. \A m \in 0..l : m \in 1..(l + 1) <=> m \in 1..l
      OBVIOUS
    <3> QED BY <2>3, <2>5, <2>6, <3>1, Zenon DEF Place
  <2>8. ASSUME NEW m \in 1..(l + 1) PROVE ge[t[m]].next = Place(t, m - 1)
    <3>1. CASE m = l + 1
      <4>1. m - 1 = l /\ l \in 0..l
        BY <3>1
      <4>2. ge[n].next = Place(s, l)
        BY <1>1, <2>2, <2>3, Zenon
      <4> QED BY <2>6, <2>7, <3>1, <4>1, <4>2, Zenon
    <3>2. CASE m # l + 1
      <4>1. m \in 1..l /\ m - 1 \in 0..l
        BY <3>2
      <4>2. ge[s[m]].next = Place(s, m - 1)
        BY <2>2, <2>3, <4>1, Zenon
      <4> QED BY <2>6, <2>7, <4>1, <4>2, Zenon
    <3> QED BY <3>1, <3>2
  <2>9. n = Place(t, Len(t))
    <3>1. l + 1 \in 1..(l + 1)
      OBVIOUS
    <3> QED BY <2>5, <2>6, <3>1, Zenon DEF Place
  <2>10. Linked(t, n, ge)
    BY <2>5, <2>8, <2>9, Zenon DEF Linked
  <2>11. InBucket(i, ge) = InBucket(i, gr) \cup {n}
    BY <1>1, Zenon DEF InBucket
  <2>12. be[i] = n /\ n # Wild /\ Range(t) = InBucket(i, ge)
    BY <1>1, <2>1, <2>5, <2>11, Zenon
  <2> QED BY <1>4, <2>10, <2>12, Zenon DEF Listed
<1> QED BY <1>3, <1>4
-----------------------------------------------------------------------------
(* The inductive invariant.                                                *)

IsGroup(x) ==
    /\ x = [gid |-> x.gid, next |-> x.next, client_ids |-> x.client_ids]
    /\ x.gid \in Gid

\* A set with an empty slot that holds the ids of M.
Holds(set, M) == \E c : c >= 4 /\ Sound(set, c, M) /\ set.len < c

\* The table: every group is in the list of its bucket, no two have the same
\* id, and each holds the members of its id.
TableInv ==
    /\ buckets \in [Index -> Grp \cup {NULL, Wild}]
    /\ DOMAIN grp \subseteq Grp
    /\ members \in [Gid -> SUBSET Cid]
    /\ \A i \in Index : Listed(i, buckets, grp)
    /\ \A g \in DOMAIN grp :
           /\ IsGroup(grp[g])
           /\ Holds(grp[g].client_ids, members[grp[g].gid])
           /\ members[grp[g].gid] # {}
    /\ \A g, h \in DOMAIN grp : grp[g].gid = grp[h].gid => g = h
    /\ \A gid \in Gid : members[gid] # {} => \E g \in DOMAIN grp : grp[g].gid = gid

\* An iterator at idx of an array s of its length has returned ids of the slots
\* before idx only, and those it owes its caller lie behind.
Placed(s, idx, ids, owed) ==
    /\ \A x \in ids : \E i \in Filled(s) : i < idx /\ s[i] = x
    /\ \A x \in owed : x \in ids \/ \E i \in Filled(s) : idx <= i /\ s[i] = x

Reading(it, s, ids, owed) ==
    /\ it = [grp |-> it.grp, idx |-> it.idx, len |-> it.len]
    /\ it.len \in Nat /\ it.idx \in 0..it.len /\ it.len <= Cap(s)
    /\ it.len = Cap(s) => Placed(s, it.idx, ids, owed)

IterInv ==
    /\ got \in Seq(Cid) /\ Distinct(got)
    /\ iter.grp # NULL =>
           /\ iter.grp \in DOMAIN grp
           /\ Range(got) \subseteq members[grp[iter.grp].gid]
           /\ Reading(iter, grp[iter.grp].client_ids.ids, Range(got), at_start)

GroupsInv == TableInv /\ IterInv

\* A group id belongs to a bucket.
LEMMA BucketIndex ==
    ASSUME NEW gid \in Gid
    PROVE  Bucket(gid) \in Index
<1>1. gid \in Nat /\ NumGroups \in Nat /\ NumGroups > 0
  BY GroupsAssumption
<1> QED BY <1>1 DEF Bucket, Index

\* What the loops of groups_insert and groups_get find.
LEMMA FindIs ==
    ASSUME TableInv, NEW gid \in Gid, buckets[Bucket(gid)] # Wild
    PROVE  Find(gid) = {g \in DOMAIN grp : grp[g].gid = gid}
<1>1. PICK i \in Index : i = Bucket(gid)
  BY BucketIndex
<1>2. Listed(i, buckets, grp)
  BY Zenon DEF TableInv
<1>3. PICK s : Linked(s, buckets[i], grp) /\ Range(s) = InBucket(i, grp)
  BY <1>1, <1>2, Zenon DEF Listed
<1>4. List(buckets[i]) = InBucket(i, grp)
  BY <1>3, ListIs, Zenon
<1>5. Find(gid) = {g \in InBucket(i, grp) : grp[g].gid = gid}
  BY <1>1, <1>4, Zenon DEF Find
<1>6. \A g \in DOMAIN grp : grp[g].gid = gid => g \in InBucket(i, grp)
  BY <1>1, Zenon DEF InBucket
<1>7. \A g \in InBucket(i, grp) : g \in DOMAIN grp
  BY Zenon DEF InBucket
<1> QED BY <1>5, <1>6, <1>7, Zenon

\* The properties follow.
LEMMA InvGap == GroupsInv => GapLeft
<1> SUFFICES ASSUME GroupsInv, NEW g \in malloced
             PROVE  /\ grp[g].client_ids.len = Cardinality(Filled(grp[g].client_ids.ids))
                    /\ grp[g].client_ids.len < Cap(grp[g].client_ids.ids)
  BY Zenon DEF GapLeft
<1>1. Holds(grp[g].client_ids, members[grp[g].gid])
  BY Zenon DEF GroupsInv, TableInv, malloced
<1>2. PICK set : set = grp[g].client_ids
  OBVIOUS
<1>3. PICK c : Sound(set, c, members[grp[g].gid]) /\ set.len < c
  BY <1>1, <1>2, Zenon DEF Holds
<1>4. Slots(set.ids, c) /\ set.len = Cardinality(Filled(set.ids))
  BY <1>3, Zenon DEF Sound
<1>5. Cap(set.ids) = c
  BY <1>4, SlotFacts, Zenon
<1> QED BY <1>2, <1>3, <1>4, <1>5, Zenon

LEMMA InvHolds == GroupsInv => HoldsMembers
<1> SUFFICES ASSUME GroupsInv, NEW gid \in Gid, Live(gid)
             PROVE  /\ Cardinality(Find(gid)) = (IF members[gid] = {} THEN 0 ELSE 1)
                    /\ \A g \in Find(gid) :
                           /\ \A cid \in Cid :
                                  cid_set_exists(grp[g].client_ids, cid) <=> cid \in members[gid]
                           /\ grp[g].client_ids.len = Cardinality(members[gid])
  BY Zenon DEF HoldsMembers
<1>1. TableInv
  BY Zenon DEF GroupsInv
<1>2. Find(gid) = {g \in DOMAIN grp : grp[g].gid = gid}
  BY <1>1, FindIs, Zenon DEF Live
<1>3. Cardinality(Find(gid)) = IF members[gid] = {} THEN 0 ELSE 1
  <2>1. CASE members[gid] = {}
    <3>1. \A g \in DOMAIN grp : grp[g].gid # gid
      BY <1>1, <2>1, Zenon DEF TableInv
    <3>2. Find(gid) = {}
      BY <1>2, <3>1, Zenon
    <3> QED BY <2>1, <3>2, FS_EmptySet, Zenon
  <2>2. CASE members[gid] # {}
    <3>1. PICK g \in DOMAIN grp : grp[g].gid = gid
      BY <1>1, <2>2, Zenon DEF TableInv
    <3>2. \A h \in DOMAIN grp : grp[h].gid = gid => h = g
      BY <1>1, <3>1, Zenon DEF TableInv
    <3>3. Find(gid) = {g}
      BY <1>2, <3>1, <3>2, Zenon
    <3> QED BY <2>2, <3>3, FS_Singleton, Zenon
  <2> QED BY <2>1, <2>2
<1>4. ASSUME NEW g \in Find(gid)
      PROVE  /\ \A cid \in Cid :
                    cid_set_exists(grp[g].client_ids, cid) <=> cid \in members[gid]
             /\ grp[g].client_ids.len = Cardinality(members[gid])
  <2>1. g \in DOMAIN grp /\ grp[g].gid = gid
    BY <1>2, <1>4, Zenon
  <2>2. PICK set : set = grp[g].client_ids
    OBVIOUS
  <2>3. Holds(set, members[gid])
    BY <1>1, <2>1, <2>2, Zenon DEF TableInv
  <2>4. PICK c : Sound(set, c, members[gid]) /\ set.len < c
    BY <2>3, Zenon DEF Holds
  <2>5. ASSUME NEW cid \in Cid PROVE cid_set_exists(set, cid) <=> cid \in members[gid]
    BY <2>4, ExistsIs
  <2>6. set.len = Cardinality(members[gid])
    BY <2>4, Zenon DEF Sound
  <2> QED BY <2>2, <2>5, <2>6, Zenon
<1> QED BY <1>3, <1>4, Zenon

LEMMA InvIterates == GroupsInv => IteratesOnce
<1> SUFFICES ASSUME GroupsInv PROVE IteratesOnce
  OBVIOUS
<1>1. TableInv /\ IterInv
  BY Zenon DEF GroupsInv
<1>2. \A i, j \in 1..Len(got) : got[i] = got[j] => i = j
  BY <1>1, Zenon DEF IterInv, Distinct
<1>3. iter.grp # NULL => Range(got) \subseteq members[grp[iter.grp].gid]
  BY <1>1, Zenon DEF IterInv
<1>4. ASSUME IterLive, iter.idx = iter.len PROVE at_start \subseteq Range(got)
  <2>1. PICK s : s = grp[iter.grp].client_ids.ids
    OBVIOUS
  <2>2. iter.grp # NULL /\ iter.len = Cap(s)
    BY <1>4, <2>1, Zenon DEF IterLive
  <2>3. Reading(iter, s, Range(got), at_start) /\ iter.grp \in DOMAIN grp
    BY <1>1, <2>1, <2>2, Zenon DEF IterInv
  <2>4. Holds(grp[iter.grp].client_ids, members[grp[iter.grp].gid])
    BY <1>1, <2>3, Zenon DEF TableInv
  <2>5. PICK c : Slots(s, c)
    BY <2>1, <2>4, Zenon DEF Holds, Sound
  <2>6. Cap(s) = c /\ \A i \in Filled(s) : ~(c <= i)
    BY <2>5, SlotFacts DEF Slots
  <2>7. Placed(s, c, Range(got), at_start)
    BY <1>4, <2>2, <2>3, <2>6, Zenon DEF Reading
  <2> QED BY <2>6, <2>7, Zenon DEF Placed
<1> QED BY <1>2, <1>3, <1>4, Zenon DEF IteratesOnce
-----------------------------------------------------------------------------
(* Insertion.                                                              *)

LEMMA HoldsInsert ==
    ASSUME NEW set, NEW M, Holds(set, M), NEW cid \in Cid
    PROVE  Holds(cid_set_insert(set, cid), M \cup {cid})
<1>1. PICK c : c >= 4 /\ Sound(set, c, M) /\ set.len < c
  BY Zenon DEF Holds
<1>2. PICK d \in {c, 2 * c} :
          /\ Sound(cid_set_insert(set, cid), d, M \cup {cid})
          /\ cid_set_insert(set, cid).len < d
          /\ d = c => Stays(set.ids, cid_set_insert(set, cid).ids)
  BY <1>1, CidInsertSound, Zenon
<1>3. d >= 4
  BY <1>1, <1>2 DEF Sound, Slots
<1> QED BY <1>2, <1>3, Zenon DEF Holds

\* A new group's set holds its one client.
LEMMA HoldsFirst ==
    ASSUME NEW cid \in Cid
    PROVE  Holds(cid_set_insert(cid_set_init, cid), {cid})
<1>1. InitCap \in Nat /\ InitCap > 0 /\ InitCap >= 4
  BY CidSetAssumption
<1>2. PICK set : set = cid_set_init
  OBVIOUS
<1>3. set.ids = Blank(InitCap) /\ set.len = 0
  BY <1>2 DEF cid_set_init
<1>4. Sound(set, InitCap, {})
  BY <1>1, <1>3, BlankSound, Zenon
<1>5. set.len < InitCap
  BY <1>1, <1>3
<1>6. Holds(set, {})
  BY <1>1, <1>4, <1>5, Zenon DEF Holds
<1>7. Holds(cid_set_insert(set, cid), {} \cup {cid})
  BY <1>6, HoldsInsert, Zenon
<1>8. {} \cup {cid} = {cid}
  BY Zenon
<1> QED BY <1>2, <1>7, <1>8, Zenon

\* An iterator's place in an array is good in one where no id has moved.
LEMMA PlacedStays ==
    ASSUME NEW s, NEW t, Stays(s, t), NEW idx, NEW ids, NEW owed, Placed(s, idx, ids, owed)
    PROVE  Placed(t, idx, ids, owed)
<1>1. Filled(s) \subseteq Filled(t) /\ \A i \in Filled(s) : t[i] = s[i]
  BY Zenon DEF Stays
<1>2. ASSUME NEW x \in ids PROVE \E i \in Filled(t) : i < idx /\ t[i] = x
  BY <1>1, <1>2, Zenon DEF Placed
<1>3. ASSUME NEW x \in owed
      PROVE  x \in ids \/ \E i \in Filled(t) : idx <= i /\ t[i] = x
  BY <1>1, <1>3, Zenon DEF Placed
<1> QED BY <1>2, <1>3, Zenon DEF Placed

\* An insertion leaves the iterator where it is, or behind in a freed array.
LEMMA ReadingInsert ==
    ASSUME NEW set, NEW M, Holds(set, M), NEW cid \in Cid,
           NEW it, NEW ids, NEW owed, Reading(it, set.ids, ids, owed)
    PROVE  Reading(it, cid_set_insert(set, cid).ids, ids, owed)
<1>1. PICK c : c >= 4 /\ Sound(set, c, M) /\ set.len < c
  BY Zenon DEF Holds
<1>2. PICK t : t = cid_set_insert(set, cid).ids
  OBVIOUS
<1>3. PICK d \in {c, 2 * c} :
          /\ Sound(cid_set_insert(set, cid), d, M \cup {cid})
          /\ cid_set_insert(set, cid).len < d
          /\ d = c => Stays(set.ids, cid_set_insert(set, cid).ids)
  BY <1>1, CidInsertSound, Zenon
<1>4. Cap(set.ids) = c /\ Cap(t) = d /\ c \in Nat
  BY <1>1, <1>2, <1>3, SlotFacts DEF Sound, Slots
<1>5. /\ it = [grp |-> it.grp, idx |-> it.idx, len |-> it.len]
      /\ it.len \in Nat /\ it.idx \in 0..it.len /\ it.len <= c
      /\ it.len = c => Placed(set.ids, it.idx, ids, owed)
  BY <1>4, Zenon DEF Reading
<1>6. CASE d = c
  <2>1. it.len = c => Placed(t, it.idx, ids, owed)
    BY <1>2, <1>3, <1>5, <1>6, PlacedStays, Zenon
  <2> QED BY <1>2, <1>4, <1>5, <1>6, <2>1, Zenon DEF Reading
<1>7. CASE d = 2 * c
  <2>1. it.len <= d /\ it.len # d
    BY <1>1, <1>4, <1>5, <1>7
  <2> QED BY <1>2, <1>4, <1>5, <2>1, Zenon DEF Reading
<1> QED BY <1>3, <1>6, <1>7

\* cid joins the members of gid.
Joins(gid, cid) ==
    /\ members' = [members EXCEPT ![gid] = @ \cup {cid}]
    /\ UNCHANGED <<iter, at_start, got>>

LEMMA JoinsMembers ==
    ASSUME TableInv, NEW gid \in Gid, NEW cid \in Cid, Joins(gid, cid)
    PROVE  /\ members' \in [Gid -> SUBSET Cid]
           /\ members'[gid] = members[gid] \cup {cid}
           /\ \A x \in Gid : x # gid => members'[x] = members[x]
           /\ \A x \in Gid : members[x] \subseteq members'[x]
<1>1. members \in [Gid -> SUBSET Cid]
  BY Zenon DEF TableInv
<1>2. members' = [members EXCEPT ![gid] = members[gid] \cup {cid}]
  BY Zenon DEF Joins
<1> QED BY <1>1, <1>2

\* groups_insert into the group g.
JoinsOld(g, cid) ==
    /\ grp' = [grp EXCEPT ![g].client_ids = cid_set_insert(@, cid)]
    /\ UNCHANGED buckets

LEMMA OldGroups ==
    ASSUME TableInv, NEW g \in DOMAIN grp, NEW cid \in Cid, JoinsOld(g, cid)
    PROVE  /\ SameLinks(grp, grp') /\ DOMAIN grp' = DOMAIN grp
           /\ \A h \in DOMAIN grp : h # g => grp'[h] = grp[h]
           /\ IsGroup(grp'[g]) /\ grp'[g].gid = grp[g].gid
           /\ grp'[g].client_ids = cid_set_insert(grp[g].client_ids, cid)
<1>1. PICK X : X = cid_set_insert(grp[g].client_ids, cid)
  OBVIOUS
<1>2. /\ DOMAIN grp' = DOMAIN grp
      /\ \A h \in DOMAIN grp : h # g => grp'[h] = grp[h]
      /\ grp'[g] = [grp[g] EXCEPT !.client_ids = X]
  BY <1>1 DEF JoinsOld
<1>3. /\ grp[g] = [gid |-> grp[g].gid, next |-> grp[g].next, client_ids |-> grp[g].client_ids]
      /\ grp[g].gid \in Gid
  BY Zenon DEF TableInv, IsGroup
<1>4. grp'[g] = [gid |-> grp[g].gid, next |-> grp[g].next, client_ids |-> X]
  BY <1>2, <1>3
<1>5. grp'[g].gid = grp[g].gid /\ grp'[g].next = grp[g].next /\ grp'[g].client_ids = X
  BY <1>4
<1>6. IsGroup(grp'[g])
  BY <1>3, <1>4, <1>5, Zenon DEF IsGroup
<1>7. SameLinks(grp, grp')
  BY <1>2, <1>5, Zenon DEF SameLinks
<1> QED BY <1>1, <1>2, <1>5, <1>6, <1>7, Zenon

LEMMA InsertOld ==
    ASSUME GroupsInv, NEW g \in DOMAIN grp, NEW cid \in Cid,
           JoinsOld(g, cid), Joins(grp[g].gid, cid)
    PROVE  GroupsInv'
<1>1. TableInv /\ IterInv
  BY Zenon DEF GroupsInv
<1>2. PICK gid \in Gid : gid = grp[g].gid
  BY <1>1, Zenon DEF TableInv, IsGroup
<1>3. /\ SameLinks(grp, grp') /\ DOMAIN grp' = DOMAIN grp
      /\ \A h \in DOMAIN grp : h # g => grp'[h] = grp[h]
      /\ IsGroup(grp'[g]) /\ grp'[g].gid = gid
      /\ grp'[g].client_ids = cid_set_insert(grp[g].client_ids, cid)
  BY <1>1, <1>2, OldGroups, Zenon
<1>4. /\ members' \in [Gid -> SUBSET Cid]
      /\ members'[gid] = members[gid] \cup {cid}
      /\ \A x \in Gid : x # gid => members'[x] = members[x]
      /\ \A x \in Gid : members[x] \subseteq members'[x]
  BY <1>1, <1>2, JoinsMembers, Zenon
<1>5. buckets' = buckets /\ buckets \in [Index -> Grp \cup {NULL, Wild}] /\ DOMAIN grp \subseteq Grp
  BY <1>1, Zenon DEF JoinsOld, TableInv
<1>6. ASSUME NEW i \in Index PROVE Listed(i, buckets', grp')
  <2>1. Listed(i, buckets, grp)
    BY <1>1, Zenon DEF TableInv
  <2>2. Listed(i, buckets, grp')
    BY <1>3, <2>1, LinksKept, Zenon
  <2> QED BY <1>5, <2>2, Zenon
<1>7. \A h \in DOMAIN grp : grp'[h].gid = grp[h].gid /\ grp[h].gid \in Gid
  BY <1>1, <1>2, <1>3, Zenon DEF TableInv, IsGroup
<1>8. \A h, k \in DOMAIN grp : grp[h].gid = grp[k].gid => h = k
  BY <1>1, Zenon DEF TableInv
<1>9. ASSUME NEW h \in DOMAIN grp'
      PROVE  /\ IsGroup(grp'[h])
             /\ Holds(grp'[h].client_ids, members'[grp'[h].gid])
             /\ members'[grp'[h].gid] # {}
  <2>1. CASE h = g
    <3>1. Holds(grp[g].client_ids, members[gid])
      BY <1>1, <1>2, Zenon DEF TableInv
    <3>2. Holds(cid_set_insert(grp[g].client_ids, cid), members[gid] \cup {cid})
      BY <3>1, HoldsInsert, Zenon
    <3>3. Holds(grp'[g].client_ids, members'[gid])
      BY <1>3, <1>4, <3>2, Zenon
    <3> QED BY <1>3, <1>4, <2>1, <3>3, Zenon
  <2>2. CASE h # g
    <3>1. grp'[h] = grp[h] /\ h \in DOMAIN grp
      BY <1>3, <2>2, Zenon
    <3>2. grp[h].gid # gid
      BY <1>2, <1>8, <2>2, <3>1, Zenon
    <3>3. members'[grp[h].gid] = members[grp[h].gid]
      BY <1>4, <1>7, <3>1, <3>2, Zenon
    <3> QED BY <1>1, <3>1, <3>3, Zenon DEF TableInv
  <2> QED BY <2>1, <2>2
<1>10. \A h, k \in DOMAIN grp' : grp'[h].gid = grp'[k].gid => h = k
  BY <1>3, <1>7, <1>8, Zenon
<1>11. ASSUME NEW x \in Gid, members'[x] # {} PROVE \E h \in DOMAIN grp' : grp'[h].gid = x
  <2>1. CASE x = gid
    BY <1>3, <2>1, Zenon
  <2>2. CASE x # gid
    <3>1. members[x] # {}
      BY <1>4, <1>11, <2>2, Zenon
    <3>2. \E h \in DOMAIN grp : grp[h].gid = x
      BY <1>1, <3>1, Zenon DEF TableInv
    <3> QED BY <1>3, <1>7, <3>2, Zenon
  <2> QED BY <2>1, <2>2
<1>12. TableInv'
  BY <1>3, <1>4, <1>5, <1>6, <1>9, <1>10, <1>11, Zenon DEF TableInv
<1>13. iter' = iter /\ got' = got /\ at_start' = at_start
  BY Zenon DEF Joins
<1>14. ASSUME iter.grp # NULL
       PROVE  /\ iter.grp \in DOMAIN grp'
              /\ Range(got) \subseteq members'[grp'[iter.grp].gid]
              /\ Reading(iter, grp'[iter.grp].client_ids.ids, Range(got), at_start)
  <2>1. PICK h : h = iter.grp
    OBVIOUS
  <2>2. /\ h \in DOMAIN grp
        /\ Range(got) \subseteq members[grp[h].gid]
        /\ Reading(iter, grp[h].client_ids.ids, Range(got), at_start)
    BY <1>1, <1>14, <2>1, Zenon DEF IterInv
  <2>3. Range(got) \subseteq members'[grp'[h].gid]
    BY <1>4, <1>7, <2>2, Zenon
  <2>4. Reading(iter, grp'[h].client_ids.ids, Range(got), at_start)
    <3>1. CASE h = g
      <4>1. PICK set : set = grp[g].client_ids
        OBVIOUS
      <4>2. Holds(set, members[gid])
        BY <1>1, <1>2, <4>1, Zenon DEF TableInv
      <4>3. Reading(iter, set.ids, Range(got), at_start)
        BY <2>2, <3>1, <4>1, Zenon
      <4>4. Reading(iter, cid_set_insert(set, cid).ids, Range(got), at_start)
        BY <4>2, <4>3, ReadingInsert, Zenon
      <4> QED BY <1>3, <3>1, <4>1, <4>4, Zenon
    <3>2. CASE h # g
      BY <1>3, <2>2, <3>2, Zenon
    <3> QED BY <3>1, <3>2
  <2> QED BY <1>3, <2>1, <2>2, <2>3, <2>4, Zenon
<1>15. IterInv'
  BY <1>1, <1>13, <1>14, Zenon DEF IterInv
<1> QED BY <1>12, <1>15, Zenon DEF GroupsInv
\* groups_insert of a new group g.
JoinsNew(g, gid, cid) ==
    /\ g \in Grp /\ g \notin DOMAIN grp /\ buckets[Bucket(gid)] # Wild
    /\ grp' = [h \in DOMAIN grp \cup {g} |->
                  IF h = g THEN [gid |-> gid, next |-> buckets[Bucket(gid)],
                                 client_ids |-> cid_set_insert(cid_set_init, cid)]
                  ELSE grp[h]]
    /\ buckets' = [buckets EXCEPT ![Bucket(gid)] = g]

LEMMA NewGroups ==
    ASSUME TableInv, NEW g, NEW gid \in Gid, NEW cid \in Cid, JoinsNew(g, gid, cid)
    PROVE  /\ PutFirst(buckets, buckets', grp, grp', Bucket(gid), g)
           /\ buckets' \in [Index -> Grp \cup {NULL, Wild}]
           /\ IsGroup(grp'[g]) /\ grp'[g].gid = gid
           /\ grp'[g].client_ids = cid_set_insert(cid_set_init, cid)
<1>1. PICK X : X = cid_set_insert(cid_set_init, cid)
  OBVIOUS
<1>2. PICK i \in Index : i = Bucket(gid)
  BY BucketIndex
<1>3. g \in Grp /\ g \notin DOMAIN grp /\ buckets[i] # Wild
  BY <1>2, Zenon DEF JoinsNew
<1>4. grp' = [h \in DOMAIN grp \cup {g} |->
                 IF h = g THEN [gid |-> gid, next |-> buckets[i], client_ids |-> X]
                 ELSE grp[h]]
  BY <1>1, <1>2, Zenon DEF JoinsNew
<1>5. /\ DOMAIN grp' = DOMAIN grp \cup {g}
      /\ \A h \in DOMAIN grp : grp'[h] = grp[h]
      /\ grp'[g] = [gid |-> gid, next |-> buckets[i], client_ids |-> X]
  BY <1>3, <1>4, Zenon
<1>6. grp'[g].gid = gid /\ grp'[g].next = buckets[i] /\ grp'[g].client_ids = X
  BY <1>5
<1>7. IsGroup(grp'[g])
  BY <1>5, <1>6, Zenon DEF IsGroup
<1>8. buckets \in [Index -> Grp \cup {NULL, Wild}] /\ buckets' = [buckets EXCEPT ![i] = g]
  BY <1>2, Zenon DEF JoinsNew, TableInv
<1>9. /\ buckets' \in [Index -> Grp \cup {NULL, Wild}]
      /\ buckets'[i] = g /\ \A k \in Index : k # i => buckets'[k] = buckets[k]
  BY <1>3, <1>8
<1>10. PutFirst(buckets, buckets', grp, grp', i, g)
  BY <1>2, <1>3, <1>5, <1>6, <1>9, Zenon DEF PutFirst
<1> QED BY <1>1, <1>2, <1>6, <1>7, <1>9, <1>10, Zenon

LEMMA InsertNew ==
    ASSUME GroupsInv, NEW g, NEW gid \in Gid, NEW cid \in Cid,
           \A h \in DOMAIN grp : grp[h].gid # gid,
           JoinsNew(g, gid, cid), Joins(gid, cid)
    PROVE  GroupsInv'
<1>1. TableInv /\ IterInv
  BY Zenon DEF GroupsInv
<1>2. PICK i \in Index : i = Bucket(gid)
  BY BucketIndex
<1>3. /\ PutFirst(buckets, buckets', grp, grp', i, g)
      /\ buckets' \in [Index -> Grp \cup {NULL, Wild}]
      /\ IsGroup(grp'[g]) /\ grp'[g].gid = gid
      /\ grp'[g].client_ids = cid_set_insert(cid_set_init, cid)
  BY <1>1, <1>2, NewGroups, Zenon
<1>4. /\ g \in Grp /\ g \notin DOMAIN grp /\ DOMAIN grp' = DOMAIN grp \cup {g}
      /\ \A h \in DOMAIN grp : grp'[h] = grp[h]
  BY <1>3, Zenon DEF PutFirst
<1>5. /\ members' \in [Gid -> SUBSET Cid]
      /\ members'[gid] = members[gid] \cup {cid}
      /\ \A x \in Gid : x # gid => members'[x] = members[x]
      /\ \A x \in Gid : members[x] \subseteq members'[x]
  BY <1>1, JoinsMembers, Zenon
<1>6. members[gid] = {}
  BY <1>1, Zenon DEF TableInv
<1>7. members'[gid] = {cid}
  BY <1>5, <1>6, Zenon
<1>8. ASSUME NEW k \in Index PROVE Listed(k, buckets', grp')
  <2>1. Listed(i, buckets, grp) /\ Listed(k, buckets, grp)
    BY <1>1, Zenon DEF TableInv
  <2> QED BY <1>3, <2>1, PutFirstListed, Zenon
<1>9. \A h \in DOMAIN grp : grp[h].gid \in Gid
  BY <1>1, Zenon DEF TableInv, IsGroup
<1>10. ASSUME NEW h \in DOMAIN grp'
       PROVE  /\ IsGroup(grp'[h])
              /\ Holds(grp'[h].client_ids, members'[grp'[h].gid])
              /\ members'[grp'[h].gid] # {}
  <2>1. CASE h = g
    <3>1. Holds(cid_set_insert(cid_set_init, cid), {cid})
      BY HoldsFirst, Zenon
    <3> QED BY <1>3, <1>7, <2>1, <3>1, Zenon
  <2>2. CASE h # g
    <3>1. grp'[h] = grp[h] /\ h \in DOMAIN grp
      BY <1>4, <2>2, Zenon
    <3>2. members'[grp[h].gid] = members[grp[h].gid]
      BY <1>5, <1>9, <3>1, Zenon
    <3> QED BY <1>1, <3>1, <3>2, Zenon DEF TableInv
  <2> QED BY <2>1, <2>2
<1>11. \A h, k \in DOMAIN grp : grp[h].gid = grp[k].gid => h = k
  BY <1>1, Zenon DEF TableInv
<1>12. \A h, k \in DOMAIN grp' : grp'[h].gid = grp'[k].gid => h = k
  BY <1>3, <1>4, <1>11, Zenon
<1>13. ASSUME NEW x \in Gid, members'[x] # {} PROVE \E h \in DOMAIN grp' : grp'[h].gid = x
  <2>1. CASE x = gid
    BY <1>3, <1>4, <2>1, Zenon
  <2>2. CASE x # gid
    <3>1. members[x] # {}
      BY <1>5, <1>13, <2>2, Zenon
    <3>2. \E h \in DOMAIN grp : grp[h].gid = x
      BY <1>1, <3>1, Zenon DEF TableInv
    <3> QED BY <1>4, <3>2, Zenon
  <2> QED BY <2>1, <2>2
<1>14. DOMAIN grp' \subseteq Grp
  BY <1>1, <1>4, Zenon DEF TableInv
<1>15. TableInv'
  BY <1>3, <1>5, <1>8, <1>10, <1>12, <1>13, <1>14, Zenon DEF TableInv
<1>16. iter' = iter /\ got' = got /\ at_start' = at_start
  BY Zenon DEF Joins
<1>17. ASSUME iter.grp # NULL
       PROVE  /\ iter.grp \in DOMAIN grp'
              /\ Range(got) \subseteq members'[grp'[iter.grp].gid]
              /\ Reading(iter, grp'[iter.grp].client_ids.ids, Range(got), at_start)
  <2>1. PICK h : h = iter.grp
    OBVIOUS
  <2>2. /\ h \in DOMAIN grp
        /\ Range(got) \subseteq members[grp[h].gid]
        /\ Reading(iter, grp[h].client_ids.ids, Range(got), at_start)
    BY <1>1, <1>17, <2>1, Zenon DEF IterInv
  <2>3. grp'[h] = grp[h] /\ h \in DOMAIN grp'
    BY <1>4, <2>2, Zenon
  <2>4. Range(got) \subseteq members'[grp[h].gid]
    BY <1>5, <1>9, <2>2, Zenon
  <2> QED BY <2>1, <2>2, <2>3, <2>4, Zenon
<1>18. IterInv'
  BY <1>1, <1>16, <1>17, Zenon DEF IterInv
<1> QED BY <1>15, <1>18, Zenon DEF GroupsInv

-----------------------------------------------------------------------------
(* Iteration.                                                              *)

\* What groups_get does once it has found the group g of gid.
Begins(g, gid) ==
    /\ iter' = iter_of(g) /\ at_start' = members[gid] /\ got' = <<>>
    /\ UNCHANGED <<buckets, grp, lost, members>>

\* groups_get starts an iteration over the group g.
LEMMA GetInv ==
    ASSUME GroupsInv, NEW g \in DOMAIN grp, Begins(g, grp[g].gid)
    PROVE  GroupsInv'
<1>1. TableInv /\ buckets' = buckets /\ grp' = grp /\ members' = members
  BY Zenon DEF GroupsInv, Begins
<1>2. TableInv'
  BY <1>1, Zenon DEF TableInv
<1>3. PICK set : set = grp[g].client_ids
  OBVIOUS
<1>4. PICK M : M = members[grp[g].gid]
  OBVIOUS
<1>5. Holds(set, M)
  BY <1>1, <1>3, <1>4, Zenon DEF TableInv
<1>6. PICK c : Slots(set.ids, c) /\ M = {set.ids[i] : i \in Filled(set.ids)}
  BY <1>5, Zenon DEF Holds, Sound
<1>7. Cap(set.ids) = c /\ c \in Nat /\ \A i \in Filled(set.ids) : 0 <= i
  <2>1. Cap(set.ids) = c /\ Filled(set.ids) \subseteq 0..(c - 1)
    BY <1>6, SlotFacts, Zenon
  <2>2. c \in Nat
    BY <1>6, Zenon DEF Slots
  <2>3. PICK F : F = Filled(set.ids)
    OBVIOUS
  <2>4. \A i \in F : 0 <= i
    BY <2>1, <2>2, <2>3
  <2> QED BY <2>1, <2>2, <2>3, <2>4, Zenon
<1>8. PICK it : it = [grp |-> g, idx |-> 0, len |-> c]
  OBVIOUS
<1>9. iter' = it
  BY <1>3, <1>7, <1>8, Zenon DEF iter_of, Begins
<1>10. it.grp = g /\ it.idx = 0 /\ it.len = c
  BY <1>8
<1>11. Range(<<>>) = {}
  BY EmptyRange, Zenon
<1>12. Placed(set.ids, 0, {}, M)
  BY <1>6, <1>7, Zenon DEF Placed
<1>13. 0 \in 0..c /\ c <= c
  BY <1>7
<1>14. Reading(it, set.ids, {}, M)
  BY <1>7, <1>8, <1>10, <1>12, <1>13, Zenon DEF Reading
<1>15. got' \in Seq(Cid) /\ Distinct(got')
  BY EmptySeq DEF Distinct, Begins
<1>16. /\ iter'.grp = g /\ g \in DOMAIN grp' /\ grp'[g].client_ids.ids = set.ids
       /\ Range(got') = {} /\ at_start' = M
  BY <1>1, <1>3, <1>4, <1>9, <1>10, <1>11, Zenon DEF Begins
<1>17. Reading(iter', grp'[iter'.grp].client_ids.ids, Range(got'), at_start')
  BY <1>9, <1>14, <1>16, Zenon
<1>18. IterInv'
  BY <1>15, <1>16, <1>17, Zenon DEF IterInv
<1> QED BY <1>2, <1>18, Zenon DEF GroupsInv

\* A batch takes the iterator to its next place.
LEMMA BatchPlaced ==
    ASSUME NEW s, NEW c, Slots(s, c), Probed(s, c), NEW idx \in 0..c, NEW n \in Nat, n > 0,
           NEW ids, NEW owed, Placed(s, idx, ids, owed),
           NEW b, Reads(b, s, Batch(s, idx, n))
    PROVE  /\ NextIdx(s, idx, n) \in 0..c
           /\ Placed(s, NextIdx(s, idx, n), ids \cup Range(b), owed)
           /\ \A x \in ids : x \notin Range(b)
           /\ \A x \in Range(b) : \E i \in Filled(s) : x = s[i]
<1>1. PICK d : d = NextIdx(s, idx, n)
  OBVIOUS
<1>2. PICK B : B = Batch(s, idx, n)
  OBVIOUS
<1>3. d \in 0..c /\ idx <= d /\ B = Between(s, idx, d)
  BY <1>1, <1>2, BatchBetween, Zenon
<1>4. c \in Nat /\ Filled(s) \subseteq 0..(c - 1)
  BY SlotFacts DEF Slots
<1>5. \A i \in B : i \in Filled(s) /\ idx <= i /\ i < d
  BY <1>3, Zenon DEF Between
<1>6. \A x : x \in Range(b) <=> \E i \in B : x = s[i]
  BY <1>2, Zenon DEF Reads
<1>7. ASSUME NEW x \in ids, x \in Range(b) PROVE FALSE
  <2>1. PICK i \in Filled(s) : i < idx /\ s[i] = x
    BY <1>7, Zenon DEF Placed
  <2>2. PICK j \in B : x = s[j]
    BY <1>6, <1>7, Zenon
  <2>3. j \in Filled(s) /\ idx <= j
    BY <1>5, <2>2, Zenon
  <2>4. i = j
    BY <2>1, <2>2, <2>3, OneSlot, Zenon
  <2>5. i \in Nat
    BY <1>4, <2>1
  <2> QED BY <1>4, <2>1, <2>3, <2>4, <2>5
<1>8. ASSUME NEW x \in ids \cup Range(b) PROVE \E i \in Filled(s) : i < d /\ s[i] = x
  <2>1. CASE x \in ids
    <3>1. PICK i \in Filled(s) : i < idx /\ s[i] = x
      BY <2>1, Zenon DEF Placed
    <3>2. i < d
      BY <1>3, <1>4, <3>1
    <3> QED BY <3>1, <3>2, Zenon
  <2>2. CASE x \in Range(b)
    BY <1>5, <1>6, <2>2, Zenon
  <2> QED BY <1>8, <2>1, <2>2, Zenon
<1>9. ASSUME NEW x \in owed
      PROVE  x \in ids \cup Range(b) \/ \E i \in Filled(s) : d <= i /\ s[i] = x
  <2>1. CASE x \in ids
    BY <2>1, Zenon
  <2>2. CASE x \notin ids
    <3>1. PICK i \in Filled(s) : idx <= i /\ s[i] = x
      BY <1>9, <2>2, Zenon DEF Placed
    <3>2. CASE i < d
      <4>1. i \in B
        BY <1>3, <3>1, <3>2, Zenon DEF Between
      <4> QED BY <1>6, <3>1, <4>1, Zenon
    <3>3. CASE ~(i < d)
      <4>1. d <= i
        BY <1>3, <1>4, <3>3
      <4> QED BY <3>1, <4>1, Zenon
    <3> QED BY <3>2, <3>3
  <2> QED BY <2>1, <2>2
<1>10. Placed(s, d, ids \cup Range(b), owed)
  BY <1>8, <1>9, Zenon DEF Placed
<1>11. ASSUME NEW x \in Range(b) PROVE \E i \in Filled(s) : x = s[i]
  BY <1>5, <1>6, <1>11, Zenon
<1> QED BY <1>1, <1>3, <1>7, <1>10, <1>11, Zenon

\* cid_iter_next_batch returns none of the ids returned before.
LEMMA BatchInv ==
    ASSUME GroupsInv, NEW n \in Nat, n > 0, cid_iter_next_batch(n)
    PROVE  GroupsInv'
<1>1. TableInv /\ IterInv /\ IterLive
  BY Zenon DEF GroupsInv, cid_iter_next_batch
<1>2. buckets' = buckets /\ grp' = grp /\ members' = members /\ at_start' = at_start
  BY Zenon DEF cid_iter_next_batch
<1>3. TableInv'
  BY <1>1, <1>2, Zenon DEF TableInv
<1>4. PICK g : g = iter.grp
  OBVIOUS
<1>5. PICK s : s = grp[g].client_ids.ids
  OBVIOUS
<1>6. PICK M : M = members[grp[g].gid]
  OBVIOUS
<1>7. g # NULL /\ iter.len = Cap(s)
  BY <1>1, <1>4, <1>5, Zenon DEF IterLive
<1>8. /\ g \in DOMAIN grp /\ Range(got) \subseteq M
      /\ Reading(iter, s, Range(got), at_start)
      /\ got \in Seq(Cid) /\ Distinct(got)
  BY <1>1, <1>4, <1>5, <1>6, <1>7, Zenon DEF IterInv
<1>9. Holds(grp[g].client_ids, M)
  BY <1>1, <1>6, <1>8, Zenon DEF TableInv
<1>10. PICK c : Slots(s, c) /\ Probed(s, c) /\ M = {s[i] : i \in Filled(s)}
  BY <1>5, <1>9, Zenon DEF Holds, Sound
<1>11. Cap(s) = c
  BY <1>10, SlotFacts, Zenon
<1>12. /\ iter = [grp |-> iter.grp, idx |-> iter.idx, len |-> iter.len]
       /\ iter.len = c /\ c \in Nat /\ iter.idx \in 0..c
       /\ Placed(s, iter.idx, Range(got), at_start)
  BY <1>7, <1>8, <1>11, Zenon DEF Reading
<1>13. PICK b : b = BatchIds(s, iter.idx, n)
  OBVIOUS
<1>14. PICK d : d = NextIdx(s, iter.idx, n)
  OBVIOUS
<1>15. b \in Seq(Cid) /\ Distinct(b) /\ Reads(b, s, Batch(s, iter.idx, n))
  BY <1>10, <1>13, BatchIdsAre, Zenon
<1>16. /\ d \in 0..c
       /\ Placed(s, d, Range(got) \cup Range(b), at_start)
       /\ \A x \in Range(got) : x \notin Range(b)
       /\ \A x \in Range(b) : \E i \in Filled(s) : x = s[i]
  BY <1>10, <1>12, <1>14, <1>15, BatchPlaced, Zenon
<1>17. iter' = [iter EXCEPT !.idx = d] /\ got' = got \o b
  BY <1>4, <1>5, <1>13, <1>14, Zenon DEF cid_iter_next_batch
<1>18. iter' = [grp |-> g, idx |-> d, len |-> c]
  BY <1>4, <1>12, <1>17
<1>19. iter'.grp = g /\ iter'.idx = d /\ iter'.len = c
  BY <1>18
<1>20. /\ got' \in Seq(Cid) /\ Distinct(got')
       /\ Range(got') = Range(got) \cup Range(b)
  <2>1. /\ got \o b \in Seq(Cid) /\ Distinct(got \o b)
        /\ Range(got \o b) = Range(got) \cup Range(b)
    <3>1. \A x \in Range(got) : x \notin Range(b)
      BY <1>16, Zenon
    <3>2. got \in Seq(Cid) /\ Distinct(got) /\ b \in Seq(Cid) /\ Distinct(b)
      BY <1>8, <1>15, Zenon
    <3> QED BY <3>1, <3>2, ConcatDistinct
  <2> QED BY <1>17, <2>1, Zenon
<1>21. Range(got') \subseteq M
  BY <1>8, <1>10, <1>16, <1>20, Zenon
<1>22. c <= c
  BY <1>12
<1>23. Reading(iter', s, Range(got'), at_start)
  BY <1>11, <1>12, <1>16, <1>18, <1>19, <1>20, <1>22, Zenon DEF Reading
<1>24. IterInv'
  BY <1>2, <1>5, <1>6, <1>8, <1>19, <1>20, <1>21, <1>23, Zenon DEF IterInv
<1> QED BY <1>3, <1>24, Zenon DEF GroupsInv

-----------------------------------------------------------------------------

\* groups_create leaves every list empty or unset.
LEMMA GroupsInit == Init => GroupsInv
<1> SUFFICES ASSUME Init PROVE GroupsInv
  OBVIOUS
<1>1. /\ buckets \in [Index -> {NULL, Wild}] /\ grp = <<>>
      /\ iter = [grp |-> NULL, idx |-> 0, len |-> 0]
      /\ members = [gid \in Gid |-> {}] /\ got = <<>>
  BY Zenon DEF Init, groups_create, Index
<1>2. DOMAIN grp = {}
  BY <1>1
<1>3. buckets \in [Index -> Grp \cup {NULL, Wild}] /\ members \in [Gid -> SUBSET Cid]
  BY <1>1
<1>4. \A gid \in Gid : members[gid] = {}
  BY <1>1, Zenon
<1>5. PICK e : e = <<>>
  OBVIOUS
<1>6. e \in Seq(Grp) /\ Len(e) = 0 /\ \A j : ~(j \in 1..0)
  BY <1>5, EmptySeq
<1>7. Range(e) = {}
  BY <1>5, EmptyRange, Zenon
<1>8. Linked(e, NULL, grp)
  BY <1>6, Zenon DEF Linked, Distinct, Place
<1>9. ASSUME NEW i \in Index PROVE Listed(i, buckets, grp)
  <2>1. InBucket(i, grp) = {}
    BY <1>2, Zenon DEF InBucket
  <2>2. buckets[i] = NULL \/ buckets[i] = Wild
    BY <1>1
  <2> QED BY <1>7, <1>8, <2>1, <2>2, Zenon DEF Listed
<1>10. TableInv
  BY <1>2, <1>3, <1>4, <1>9, Zenon DEF TableInv
<1>11. iter.grp = NULL /\ got \in Seq(Cid) /\ Distinct(got)
  BY <1>1, EmptySeq DEF Distinct
<1>12. IterInv
  BY <1>11, Zenon DEF IterInv
<1> QED BY <1>10, <1>12, Zenon DEF GroupsInv

\* The invariant is inductive.
LEMMA GroupsNext == GroupsInv /\ [Next]_vars => GroupsInv'
<1> SUFFICES ASSUME GroupsInv, [Next]_vars PROVE GroupsInv'
  OBVIOUS
<1>1. TableInv
  BY Zenon DEF GroupsInv
<1>2. ASSUME UNCHANGED <<buckets, grp, iter, members, at_start, got>> PROVE GroupsInv'
  BY <1>2, Zenon DEF GroupsInv, TableInv, IterInv
<1>3. CASE UNCHANGED vars
  BY <1>2, <1>3, Zenon DEF vars
<1>4. ASSUME NEW gid \in Gid, follow_wild(gid) PROVE GroupsInv'
  BY <1>2, <1>4, Zenon DEF follow_wild
<1>5. ASSUME NEW gid \in Gid, groups_get(gid) PROVE GroupsInv'
  <2>1. CASE UNCHANGED vars
    BY <1>3, <2>1
  <2>2. ASSUME NEW g \in Find(gid), Begins(g, gid) PROVE GroupsInv'
    <3>1. Find(gid) = {h \in DOMAIN grp : grp[h].gid = gid}
      BY <1>1, <1>5, FindIs, Zenon DEF groups_get, Reaches
    <3>2. g \in DOMAIN grp /\ grp[g].gid = gid
      BY <2>2, <3>1, Zenon
    <3> QED BY <2>2, <3>2, GetInv, Zenon
  <2> QED BY <1>5, <2>1, <2>2, Zenon DEF groups_get, Begins
<1>6. ASSUME NEW gid \in Gid, NEW cid \in Cid, groups_insert(gid, cid) PROVE GroupsInv'
  <2>1. buckets[Bucket(gid)] # Wild
    BY <1>6, Zenon DEF groups_insert, Reaches
  <2>2. Find(gid) = {h \in DOMAIN grp : grp[h].gid = gid}
    BY <1>1, <2>1, FindIs, Zenon
  <2>3. CASE UNCHANGED vars
    BY <1>3, <2>3
  <2>4. ASSUME Find(gid) = {}, new_group(gid, cid), Joins(gid, cid) PROVE GroupsInv'
    <3>1. \A h \in DOMAIN grp : grp[h].gid # gid
      BY <2>2, <2>4, Zenon
    <3>2. PICK g : JoinsNew(g, gid, cid)
      BY <2>1, <2>4, Zenon DEF new_group, JoinsNew, malloced
    <3> QED BY <2>4, <3>1, <3>2, InsertNew, Zenon
  <2>5. ASSUME NEW g \in Find(gid), JoinsOld(g, cid), Joins(gid, cid) PROVE GroupsInv'
    <3>1. g \in DOMAIN grp /\ grp[g].gid = gid
      BY <2>2, <2>5, Zenon
    <3> QED BY <2>5, <3>1, InsertOld, Zenon
  <2> QED BY <1>6, <2>3, <2>4, <2>5, Zenon DEF groups_insert, Joins, JoinsOld
<1>7. ASSUME NEW n \in 1..MaxBatch, cid_iter_next_batch(n) PROVE GroupsInv'
  <2>1. n \in Nat /\ n > 0
    BY GroupsAssumption
  <2> QED BY <1>7, <2>1, BatchInv, Zenon
<1> QED BY <1>3, <1>4, <1>5, <1>6, <1>7, Zenon DEF Next

\* Every behaviour of groups.c satisfies the invariant.
THEOREM GroupsInvariant == Spec => []GroupsInv
BY GroupsInit, GroupsNext, PTL DEF Spec

\* Every probe of cid_set.c ends: each set keeps an empty slot, and its len
\* counts the slots that are taken (cid_set_insert, cid_set_grow).
THEOREM GroupsGapLeft == Spec => []GapLeft
BY GroupsInvariant, InvGap, PTL

\* groups_insert and groups_get find one group per id, with exactly the clients
\* that were inserted into it, through collisions and growth.
THEOREM GroupsHoldsMembers == Spec => []HoldsMembers
BY GroupsInvariant, InvHolds, PTL

\* cid_iter_next_batch returns no id twice, only members, and at the end every
\* member there was when the iteration began.
THEOREM GroupsIteratesOnce == Spec => []IteratesOnce
BY GroupsInvariant, InvIterates, PTL
=============================================================================
