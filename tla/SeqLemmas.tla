----------------------------- MODULE SeqLemmas -----------------------------
(***************************************************************************)
(* Facts about sequences without repetition, the form every free list and  *)
(* queue of the server has: what they hold after an element is put in at   *)
(* the end, or taken from the end or from the front.                       *)
(***************************************************************************)
EXTENDS Integers, Sequences, Functions, SequenceTheorems,
        WellFoundedInduction, TLAPS

\* A set of natural numbers that is not empty has a least element.
LEMMA LeastNat ==
    ASSUME NEW T \in SUBSET Nat, T # {}
    PROVE  \E x \in T : \A y \in T : x <= y
<1>1. PICK R : R = {p \in Nat \X Nat : p[1] < p[2]}
  OBVIOUS
<1>2. OpToRel(<, Nat) = R
  BY <1>1, Zenon DEF OpToRel
<1>3. IsWellFoundedOn(R, Nat)
  BY <1>2, NatLessThanWellFounded, Zenon
<1>4. PICK x \in T : \A y \in T : ~(<<y, x>> \in R)
  BY <1>3, WFMin, Zenon
<1>5. ASSUME NEW y \in T PROVE x <= y
  <2>1. x \in Nat /\ y \in Nat
    OBVIOUS
  <2>2. ~(y < x)
    BY <1>1, <1>4, <2>1
  <2> QED BY <2>1, <2>2
<1> QED BY <1>5

Distinct(s) == \A i, j \in 1..Len(s) : s[i] = s[j] => i = j

\* The range of a sequence is the set of its elements.
LEMMA SeqRange ==
    ASSUME NEW S, NEW s \in Seq(S)
    PROVE  /\ \A x : x \in Range(s) <=> \E i \in 1..Len(s) : x = s[i]
           /\ Range(s) \subseteq S
<1>1. DOMAIN s = 1..Len(s) /\ \A i \in 1..Len(s) : s[i] \in S
  OBVIOUS
<1>2. Range(s) = {s[i] : i \in DOMAIN s}
  BY Zenon DEF Range
<1>3. \A x : x \in Range(s) <=> \E i \in 1..Len(s) : x = s[i]
  BY <1>1, <1>2, Zenon
<1> QED BY <1>1, <1>3, Zenon

\* The empty sequence has no elements.
LEMMA EmptyRange == \A x : x \notin Range(<<>>)
<1>1. DOMAIN <<>> = {}
  OBVIOUS
<1> QED BY <1>1, Zenon DEF Range

\* Appending an element adds it to the range, and to a sequence that does not
\* hold it yet adds no repetition.
LEMMA AppendDistinct ==
    ASSUME NEW S, NEW s \in Seq(S), NEW e \in S
    PROVE  /\ Append(s, e) \in Seq(S)
           /\ Len(Append(s, e)) = Len(s) + 1
           /\ Range(Append(s, e)) = Range(s) \cup {e}
           /\ Distinct(s) /\ e \notin Range(s) => Distinct(Append(s, e))
<1> DEFINE t == Append(s, e)
<1>1. /\ t \in Seq(S)
      /\ Len(t) = Len(s) + 1
      /\ \A i \in 1..Len(s) : t[i] = s[i]
      /\ t[Len(s) + 1] = e
      /\ Len(s) \in Nat
  BY AppendProperties
<1>2. /\ \A x : x \in Range(s) <=> \E i \in 1..Len(s) : x = s[i]
      /\ \A x : x \in Range(t) <=> \E i \in 1..Len(t) : x = t[i]
  BY <1>1, SeqRange, Zenon
<1>3. Range(t) = Range(s) \cup {e}
  <2>1. 1..Len(t) = (1..Len(s)) \cup {Len(s) + 1}
    BY <1>1
  <2> QED BY <1>1, <1>2, <2>1
<1>4. ASSUME Distinct(s), e \notin Range(s) PROVE Distinct(t)
  <2> SUFFICES ASSUME NEW i \in 1..Len(t), NEW j \in 1..Len(t), t[i] = t[j]
               PROVE  i = j
    BY DEF Distinct
  <2>1. \A k \in 1..Len(s) : t[k] # e
    BY <1>1, <1>2, <1>4
  <2>2. CASE i \in 1..Len(s) /\ j \in 1..Len(s)
    BY <2>2, <1>1, <1>4 DEF Distinct
  <2>3. CASE i = Len(s) + 1 \/ j = Len(s) + 1
    BY <2>3, <2>1, <1>1
  <2> QED BY <2>2, <2>3, <1>1
<1> QED BY <1>1, <1>3, <1>4

\* Joining two sequences without repetition or a common element gives another.
LEMMA ConcatDistinct ==
    ASSUME NEW S, NEW s \in Seq(S), NEW t \in Seq(S), Distinct(s), Distinct(t),
           \A x \in Range(s) : x \notin Range(t)
    PROVE  s \o t \in Seq(S) /\ Distinct(s \o t) /\ Range(s \o t) = Range(s) \cup Range(t)
<1>1. PICK l \in Nat : l = Len(s)
  BY LenProperties
<1>2. PICK m \in Nat : m = Len(t)
  BY LenProperties
<1>3. PICK u : u = s \o t
  OBVIOUS
<1>4. /\ u \in Seq(S) /\ Len(u) = l + m
      /\ \A i \in 1..(l + m) : u[i] = IF i <= l THEN s[i] ELSE t[i - l]
  BY <1>1, <1>2, <1>3, ConcatProperties
<1>5. (\A i \in 1..l : s[i] \in Range(s)) /\ (\A i \in 1..m : t[i] \in Range(t))
  BY <1>1, <1>2, SeqRange
<1>6. ASSUME NEW i \in 1..(l + m), NEW j \in 1..(l + m), u[i] = u[j] PROVE i = j
  <2>1. CASE i <= l /\ j <= l
    BY <1>1, <1>4, <1>6, <2>1 DEF Distinct
  <2>2. CASE ~(i <= l) /\ ~(j <= l)
    <3>1. i - l \in 1..m /\ j - l \in 1..m /\ t[i - l] = t[j - l]
      BY <1>4, <1>6, <2>2
    <3>2. i - l = j - l
      BY <1>2, <3>1 DEF Distinct
    <3> QED BY <3>2
  <2>3. CASE i <= l /\ ~(j <= l)
    <3>1. i \in 1..l /\ j - l \in 1..m /\ s[i] = t[j - l]
      BY <1>4, <1>6, <2>3
    <3> QED BY <1>5, <3>1
  <2>4. CASE ~(i <= l) /\ j <= l
    <3>1. j \in 1..l /\ i - l \in 1..m /\ s[j] = t[i - l]
      BY <1>4, <1>6, <2>4
    <3> QED BY <1>5, <3>1
  <2> QED BY <2>1, <2>2, <2>3, <2>4
<1>7. Distinct(u)
  BY <1>4, <1>6, Zenon DEF Distinct
<1> QED BY <1>3, <1>4, <1>7, RangeConcatenation

\* A prefix has the elements of the sequence.
LEMMA PrefixOfSeq ==
    ASSUME NEW S, NEW s \in Seq(S), NEW n \in Int, n >= 0, n <= Len(s)
    PROVE  /\ SubSeq(s, 1, n) \in Seq(S)
           /\ Len(SubSeq(s, 1, n)) = n
           /\ \A i \in 1..n : SubSeq(s, 1, n)[i] = s[i]
PROOF OBVIOUS

\* Taking the last element removes it from the range of a sequence without
\* repetition.
LEMMA FrontDistinct ==
    ASSUME NEW S, NEW s \in Seq(S), s # <<>>, Distinct(s)
    PROVE  LET f == SubSeq(s, 1, Len(s) - 1)
           IN  /\ f \in Seq(S)
               /\ Len(f) = Len(s) - 1
               /\ Distinct(f)
               /\ Range(f) = Range(s) \ {s[Len(s)]}
               /\ s[Len(s)] \in Range(s)
<1> DEFINE f == SubSeq(s, 1, Len(s) - 1)
<1>1. Len(s) \in Nat /\ Len(s) > 0
  BY EmptySeq
<1>2. /\ f \in Seq(S)
      /\ Len(f) = Len(s) - 1
      /\ \A i \in 1..(Len(s) - 1) : f[i] = s[i]
  <2>1. Len(s) - 1 \in Int /\ Len(s) - 1 >= 0 /\ Len(s) - 1 <= Len(s)
    BY <1>1
  <2> QED BY <2>1, PrefixOfSeq, Zenon
<1>3. /\ \A x : x \in Range(s) <=> \E i \in 1..Len(s) : x = s[i]
      /\ \A x : x \in Range(f) <=> \E i \in 1..Len(f) : x = f[i]
  BY <1>2, SeqRange, Zenon
<1>4. Distinct(f)
  BY <1>1, <1>2 DEF Distinct
<1>5. 1..Len(s) = (1..Len(f)) \cup {Len(s)} /\ Len(s) \notin 1..Len(f)
  BY <1>1, <1>2
<1>6. Range(f) = Range(s) \ {s[Len(s)]}
  <2>1. \A i \in 1..Len(f) : f[i] = s[i] /\ s[i] # s[Len(s)]
    BY <1>1, <1>2, <1>5 DEF Distinct
  <2> QED BY <1>3, <1>5, <2>1
<1> QED BY <1>1, <1>2, <1>3, <1>4, <1>5, <1>6

\* Taking the first element removes it from the range of a sequence without
\* repetition.
LEMMA TailDistinct ==
    ASSUME NEW S, NEW s \in Seq(S), s # <<>>, Distinct(s)
    PROVE  /\ Head(s) \in S
           /\ Tail(s) \in Seq(S)
           /\ Len(Tail(s)) = Len(s) - 1
           /\ Distinct(Tail(s))
           /\ Range(Tail(s)) = Range(s) \ {Head(s)}
           /\ Head(s) \in Range(s)
<1> DEFINE t == Tail(s)
<1>1. Len(s) \in Nat /\ Len(s) > 0 /\ Head(s) = s[1] /\ Head(s) \in S
  BY EmptySeq
<1>2. /\ t \in Seq(S)
      /\ Len(t) = Len(s) - 1
      /\ \A i \in 1..Len(t) : t[i] = s[i + 1]
  BY <1>1, HeadTailProperties
<1>3. /\ \A x : x \in Range(s) <=> \E i \in 1..Len(s) : x = s[i]
      /\ \A x : x \in Range(t) <=> \E i \in 1..Len(t) : x = t[i]
  BY <1>2, SeqRange, Zenon
<1>4. Distinct(t)
  <2> SUFFICES ASSUME NEW i \in 1..Len(t), NEW j \in 1..Len(t), t[i] = t[j]
               PROVE  i = j
    BY DEF Distinct
  <2>1. i + 1 \in 1..Len(s) /\ j + 1 \in 1..Len(s)
    BY <1>1, <1>2
  <2> QED BY <1>2, <2>1 DEF Distinct
<1>5. Range(t) = Range(s) \ {Head(s)}
  <2>1. \A i \in 1..Len(t) : i + 1 \in 1..Len(s) /\ i + 1 # 1 /\ t[i] = s[i + 1]
    BY <1>1, <1>2
  <2>2. \A i \in 1..Len(s) : i # 1 => i - 1 \in 1..Len(t) /\ t[i - 1] = s[i]
    BY <1>1, <1>2
  <2>3. \A i \in 1..Len(s) : s[i] = s[1] => i = 1
    BY <1>1 DEF Distinct
  <2>4. ASSUME NEW x \in Range(t) PROVE x \in Range(s) \ {Head(s)}
    <3>1. PICK i \in 1..Len(t) : x = t[i]
      BY <1>3
    <3> QED BY <3>1, <2>1, <2>3, <1>1, <1>3
  <2>5. ASSUME NEW x \in Range(s) \ {Head(s)} PROVE x \in Range(t)
    <3>1. PICK i \in 1..Len(s) : x = s[i]
      BY <1>3
    <3>2. i # 1
      BY <3>1, <1>1
    <3> QED BY <3>1, <3>2, <2>2, <1>3
  <2> QED BY <2>4, <2>5
<1>6. Head(s) \in Range(s)
  BY <1>1, <1>3
<1> QED BY <1>1, <1>2, <1>4, <1>5, <1>6
=============================================================================
