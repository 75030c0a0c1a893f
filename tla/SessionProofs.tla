--------------------------- MODULE SessionProofs ----------------------------
(***************************************************************************)
(* The conversation with one client, for any usernames, groups and number  *)
(* of requests and any pieces the responses are written in: what is        *)
(* decoded is what was encoded, the name that is kept is the last good     *)
(* one, every response is written once and in order, and a client that     *)
(* waits, or whose writes are never short, reads whole answers.            *)
(***************************************************************************)
EXTENDS Session, SeqLemmas, FiniteSetTheorems, SequenceTheorems, TLAPS

USE DEF HdrLen, GroupLen, ErrorLen

Uint16 == {n \in Nat : n <= 65535}

-----------------------------------------------------------------------------
(* Numbers and byte order.                                                 *)

\* The length of a request that handle gets fits.
LEMMA ShortLength ==
    ASSUME NEW n \in Nat, n <= 2048
    PROVE  n \in Uint16
BY DEF Uint16

\* What fits a uint16_t is what ntohs makes of its two bytes.
LEMMA LengthValue ==
    ASSUME NEW n \in Uint16
    PROVE  /\ htons(n) = <<n \div 256, n % 256>>
           /\ n \div 256 \in Int /\ n % 256 \in Int
           /\ 256 * (n \div 256) + (n % 256) = n
<1> USE DEF Uint16
<1>1. n \div 256 \in Int /\ (n \div 256) >= 0 /\ (n \div 256) <= 255
  <2>1. n \div 256 \in Int
    OBVIOUS
  <2>2. (n \div 256) >= 0
    OBVIOUS
  <2>3. (n \div 256) <= 255
    OBVIOUS
  <2> QED BY <2>1, <2>2, <2>3
<1>2. n % 256 \in 0..255
  OBVIOUS
<1>3. n = 256 * (n \div 256) + (n % 256)
  OBVIOUS
<1>4. ASSUME NEW q \in Int, q >= 0, q <= 255 PROVE q % 256 = q
  BY <1>4
<1>5. (n \div 256) % 256 = n \div 256
  BY <1>1, <1>4
<1>6. htons(n) = <<n \div 256, n % 256>>
  BY <1>5 DEF htons
<1> QED BY <1>1, <1>2, <1>3, <1>6

LEMMA LengthBytes ==
    ASSUME NEW n \in Uint16
    PROVE  htons(n) \in Seq(Int) /\ Len(htons(n)) = 2
<1>1. n \div 256 \in Int /\ n % 256 \in Int /\ htons(n) = <<n \div 256, n % 256>>
  BY LengthValue
<1>2. ASSUME NEW q \in Int, NEW r \in Int
      PROVE  <<q, r>> \in Seq(Int) /\ Len(<<q, r>>) = 2
  OBVIOUS
<1> QED BY <1>1, <1>2

\* One time around.
LEMMA OneRound ==
    ASSUME NEW m \in Nat, m > 0, NEW a \in 0..(m - 1)
    PROVE  (m + a) % m = a
OBVIOUS

\* The length of a username: below a bare header it is far above any name.
LEMMA UnameLength ==
    ASSUME NEW n \in Uint16
    PROVE  /\ n >= HdrLen => deser_set_username(n) = n - HdrLen
           /\ n < HdrLen => deser_set_username(n) > MAX_UNAME_LEN
<1> USE DEF Uint16
<1>1. PICK m \in Nat : m = SizeT /\ m > 65536
  BY ProtocolAssumption
<1>2. deser_set_username(n) = (n + m - HdrLen) % m
  BY <1>1 DEF deser_set_username
<1>3. CASE n >= HdrLen
  <2>1. PICK a \in 0..(m - 1) : a = n - HdrLen
    BY <1>1, <1>3
  <2>2. n + m - HdrLen = m + a
    BY <1>1, <2>1
  <2>3. (m + a) % m = a
    BY <1>1, OneRound
  <2> QED BY <1>2, <1>3, <2>1, <2>2, <2>3
<1>4. CASE n < HdrLen
  <2>1. PICK a \in 0..(m - 1) : a = n + m - HdrLen /\ a > MAX_UNAME_LEN
    BY <1>1, <1>4 DEF MAX_UNAME_LEN
  <2>2. a % m = a
    BY <1>1
  <2> QED BY <1>2, <1>4, <2>1, <2>2
<1> QED BY <1>3, <1>4

\* A piece of a sequence.
LEMMA Piece ==
    ASSUME NEW S, NEW s \in Seq(S), NEW a \in 1..Len(s), NEW b \in a..Len(s)
    PROVE  /\ SubSeq(s, a, b) \in Seq(S) /\ Len(SubSeq(s, a, b)) = b - a + 1
           /\ \A i \in 1..(b - a + 1) : SubSeq(s, a, b)[i] = s[a + i - 1]
<1>1. a \in Int /\ b \in Int /\ a <= b
  OBVIOUS
<1>2. \A i \in a..b : s[i] \in S
  BY ElementOfSeq
<1> QED BY <1>1, <1>2, SubSeqProperties

\* A sequence from its end to its beginning.
LEMMA ReverseBytes ==
    ASSUME NEW S, NEW s \in Seq(S)
    PROVE  /\ Reverse(s) \in Seq(S) /\ Len(Reverse(s)) = Len(s)
           /\ \A i \in 1..Len(s) : Reverse(s)[i] = s[(Len(s) - i) + 1]
<1>1. \A i \in 1..Len(s) : s[(Len(s) - i) + 1] \in S
  BY ElementOfSeq
<1>2. Reverse(s) \in [1..Len(s) -> S]
  BY <1>1 DEF Reverse
<1> QED BY <1>2 DEF Reverse

\* The eight bytes are turned around.
LEMMA TurnedAround ==
    ASSUME NEW v \in Seq(Int), Len(v) = 8
    PROVE  /\ htonll(v) \in Seq(Int) /\ Len(htonll(v)) = 8
           /\ \A i \in 1..8 : htonll(v)[i] = v[9 - i]
           /\ ntohll(v) = htonll(v)
<1>1. PICK lo : lo = SubSeq(v, 1, 4)
  OBVIOUS
<1>2. PICK hi : hi = SubSeq(v, 5, 8)
  OBVIOUS
<1>3. lo \in Seq(Int) /\ Len(lo) = 4 /\ \A i \in 1..4 : lo[i] = v[i]
  <2>1. 1 \in 1..Len(v) /\ 4 \in 1..Len(v)
    OBVIOUS
  <2>2. /\ SubSeq(v, 1, 4) \in Seq(Int) /\ Len(SubSeq(v, 1, 4)) = 4 - 1 + 1
        /\ \A i \in 1..(4 - 1 + 1) : SubSeq(v, 1, 4)[i] = v[1 + i - 1]
    BY <2>1, Piece
  <2> QED BY <1>1, <2>2
<1>4. hi \in Seq(Int) /\ Len(hi) = 4 /\ \A i \in 1..4 : hi[i] = v[i + 4]
  <2>1. 5 \in 1..Len(v) /\ 8 \in 5..Len(v)
    OBVIOUS
  <2>2. /\ SubSeq(v, 5, 8) \in Seq(Int) /\ Len(SubSeq(v, 5, 8)) = 8 - 5 + 1
        /\ \A i \in 1..(8 - 5 + 1) : SubSeq(v, 5, 8)[i] = v[5 + i - 1]
    BY <2>1, Piece
  <2> QED BY <1>2, <2>2
<1>5. htonll(v) = htonl(hi) \o htonl(lo) /\ ntohll(v) = htonll(v)
  BY <1>1, <1>2 DEF htonll, ntohll
<1>6. htonl(lo) \in Seq(Int) /\ Len(htonl(lo)) = 4 /\ \A i \in 1..4 : htonl(lo)[i] = lo[5 - i]
  <2>1. /\ Reverse(lo) \in Seq(Int) /\ Len(Reverse(lo)) = Len(lo)
        /\ \A i \in 1..Len(lo) : Reverse(lo)[i] = lo[(Len(lo) - i) + 1]
    BY <1>3, ReverseBytes
  <2> QED BY <1>3, <2>1 DEF htonl
<1>7. htonl(hi) \in Seq(Int) /\ Len(htonl(hi)) = 4 /\ \A i \in 1..4 : htonl(hi)[i] = hi[5 - i]
  <2>1. /\ Reverse(hi) \in Seq(Int) /\ Len(Reverse(hi)) = Len(hi)
        /\ \A i \in 1..Len(hi) : Reverse(hi)[i] = hi[(Len(hi) - i) + 1]
    BY <1>4, ReverseBytes
  <2> QED BY <1>4, <2>1 DEF htonl
<1>8. /\ htonll(v) \in Seq(Int) /\ Len(htonll(v)) = 8
      /\ \A i \in 1..8 : htonll(v)[i] = IF i <= 4 THEN htonl(hi)[i] ELSE htonl(lo)[i - 4]
  <2>1. PICK h \in Seq(Int) : h = htonl(hi) /\ Len(h) = 4
    BY <1>7
  <2>2. PICK l \in Seq(Int) : l = htonl(lo) /\ Len(l) = 4
    BY <1>6
  <2>3. /\ h \o l \in Seq(Int) /\ Len(h \o l) = Len(h) + Len(l)
        /\ \A i \in 1..Len(h) + Len(l) :
               (h \o l)[i] = IF i <= Len(h) THEN h[i] ELSE l[i - Len(h)]
    BY ConcatProperties
  <2> QED BY <1>5, <2>1, <2>2, <2>3
<1>9. \A i \in 1..8 : htonll(v)[i] = v[9 - i]
  BY <1>3, <1>4, <1>6, <1>7, <1>8
<1> QED BY <1>5, <1>8, <1>9

\* Turned around twice a value is what it was.
LEMMA TurnedTwice ==
    ASSUME NEW v \in Seq(Int), Len(v) = 8
    PROVE  ntohll(htonll(v)) = v
<1>1. PICK w \in Seq(Int) : w = htonll(v) /\ Len(w) = 8 /\ \A i \in 1..8 : w[i] = v[9 - i]
  BY TurnedAround
<1>2. PICK x \in Seq(Int) : x = ntohll(w) /\ Len(x) = 8 /\ \A i \in 1..8 : x[i] = w[9 - i]
  <2>1. ntohll(w) = htonll(w) /\ htonll(w) \in Seq(Int) /\ Len(htonll(w)) = 8
        /\ \A i \in 1..8 : htonll(w)[i] = w[9 - i]
    BY <1>1, TurnedAround
  <2> QED BY <2>1
<1>3. \A i \in 1..8 : x[i] = v[i]
  BY <1>1, <1>2
<1>4. x = v
  BY <1>2, <1>3, SeqEqual
<1> QED BY <1>1, <1>2, <1>4

-----------------------------------------------------------------------------
(* Headers.                                                                *)

\* Two sequences one after the other.
LEMMA Joined ==
    ASSUME NEW s \in Seq(Int), NEW t \in Seq(Int)
    PROVE  /\ s \o t \in Seq(Int) /\ Len(s \o t) = Len(s) + Len(t)
           /\ \A i \in 1..Len(s) : (s \o t)[i] = s[i]
           /\ \A i \in 1..Len(t) : (s \o t)[Len(s) + i] = t[i]
<1>1. /\ s \o t \in Seq(Int) /\ Len(s \o t) = Len(s) + Len(t)
      /\ \A i \in 1..Len(s) + Len(t) :
             (s \o t)[i] = IF i <= Len(s) THEN s[i] ELSE t[i - Len(s)]
  BY ConcatProperties
<1>2. \A i \in 1..Len(s) : (s \o t)[i] = s[i]
  BY <1>1
<1>3. ASSUME NEW i \in 1..Len(t) PROVE (s \o t)[Len(s) + i] = t[i]
  <2>1. PICK p \in 1..(Len(s) + Len(t)) : p = Len(s) + i
    OBVIOUS
  <2>2. (s \o t)[p] = t[p - Len(s)] /\ p - Len(s) = i
    BY <1>1, <2>1
  <2> QED BY <2>1, <2>2
<1> QED BY <1>1, <1>2, <1>3

\* h is parts of 2, 1 and 8 bytes.
Parts(h, a, b, c) ==
    /\ h \in Seq(Int) /\ Len(h) = 11
    /\ h[1] = a[1] /\ h[2] = a[2] /\ h[3] = b[1]
    /\ \A i \in 1..8 : h[3 + i] = c[i]

LEMMA ThreeParts ==
    ASSUME NEW a \in Seq(Int), Len(a) = 2, NEW b \in Seq(Int), Len(b) = 1,
           NEW c \in Seq(Int), Len(c) = 8
    PROVE  Parts(a \o b \o c, a, b, c)
<1>1. PICK d : d = a \o b
  OBVIOUS
<1>2. /\ d \in Seq(Int) /\ Len(d) = Len(a) + Len(b)
      /\ \A i \in 1..Len(a) : d[i] = a[i]
      /\ \A i \in 1..Len(b) : d[Len(a) + i] = b[i]
  BY <1>1, Joined, Zenon
<1>3. Len(d) = 3 /\ d[1] = a[1] /\ d[2] = a[2] /\ d[3] = b[1]
  BY <1>2
<1>4. PICK h : h = d \o c
  OBVIOUS
<1>5. /\ h \in Seq(Int) /\ Len(h) = Len(d) + Len(c)
      /\ \A i \in 1..Len(d) : h[i] = d[i]
      /\ \A i \in 1..Len(c) : h[Len(d) + i] = c[i]
  <2>1. d \in Seq(Int)
    BY <1>2, Zenon
  <2> QED BY <2>1, <1>4, Joined, Zenon
<1>6. Len(h) = 11 /\ h[1] = a[1] /\ h[2] = a[2] /\ h[3] = b[1]
      /\ \A i \in 1..8 : h[3 + i] = c[i]
  BY <1>3, <1>5
<1>7. h = a \o b \o c
  BY <1>1, <1>4
<1> QED BY <1>5, <1>6, <1>7, Zenon DEF Parts

\* Where the fields of a header are.
LEMMA HeaderBytes ==
    ASSUME NEW n \in Uint16, NEW t \in Int, NEW id \in Seq(Int), Len(id) = 8
    PROVE  /\ Header(n, t, id) \in Seq(Int) /\ Len(Header(n, t, id)) = HdrLen
           /\ Header(n, t, id)[1] = htons(n)[1]
           /\ Header(n, t, id)[2] = htons(n)[2]
           /\ Header(n, t, id)[3] = t
           /\ \A i \in 1..8 : Header(n, t, id)[3 + i] = htonll(id)[i]
<1>1. htons(n) \in Seq(Int) /\ Len(htons(n)) = 2
  BY LengthBytes
<1>2. htonll(id) \in Seq(Int) /\ Len(htonll(id)) = 8
  BY TurnedAround
<1>3. <<t>> \in Seq(Int) /\ Len(<<t>>) = 1 /\ <<t>>[1] = t
  OBVIOUS
<1>4. PICK b : b = <<t>>
  OBVIOUS
<1>5. b \in Seq(Int) /\ Len(b) = 1 /\ b[1] = t
  BY <1>3, <1>4, Zenon
<1>6. PICK a : a = htons(n)
  OBVIOUS
<1>7. PICK c : c = htonll(id)
  OBVIOUS
<1>8. a \in Seq(Int) /\ Len(a) = 2 /\ c \in Seq(Int) /\ Len(c) = 8
  BY <1>1, <1>2, <1>6, <1>7, Zenon
<1>9. Parts(a \o b \o c, a, b, c)
  BY <1>5, <1>8, ThreeParts, Zenon
<1>10. Header(n, t, id) = a \o b \o c
  <2>1. Header(n, t, id) = htons(n) \o <<t>> \o htonll(id)
    BY DEF Header
  <2> QED BY <2>1, <1>4, <1>6, <1>7
<1> QED BY <1>5, <1>6, <1>7, <1>9, <1>10, Zenon DEF Parts

\* A message that begins with this header.
HasHeader(f, n, t, id) ==
    /\ f \in Seq(Int) /\ Len(f) >= 11
    /\ f[1] = htons(n)[1] /\ f[2] = htons(n)[2] /\ f[3] = t
    /\ \A i \in 1..8 : f[3 + i] = htonll(id)[i]

LEMMA DecodeLength ==
    ASSUME NEW n \in Uint16, NEW t, NEW id, NEW f, HasHeader(f, n, t, id)
    PROVE  ntohs(SubSeq(f, 1, 2)) = n
<1>1. f \in Seq(Int) /\ 1 \in 1..Len(f) /\ 2 \in 1..Len(f)
  <2>1. f \in Seq(Int) /\ Len(f) >= 11
    BY Zenon DEF HasHeader
  <2> QED BY <2>1
<1>2. \A i \in 1..(2 - 1 + 1) : SubSeq(f, 1, 2)[i] = f[1 + i - 1]
  BY <1>1, Piece
<1>3. SubSeq(f, 1, 2)[1] = f[1] /\ SubSeq(f, 1, 2)[2] = f[2]
  BY <1>2
<1>4. f[1] = htons(n)[1] /\ f[2] = htons(n)[2]
  BY Zenon DEF HasHeader
<1>5. htons(n) = <<n \div 256, n % 256>>
  BY LengthValue
<1>6. htons(n)[1] = n \div 256 /\ htons(n)[2] = n % 256
  BY <1>5
<1>7. ntohs(SubSeq(f, 1, 2)) = 256 * (n \div 256) + (n % 256)
  BY <1>3, <1>4, <1>6 DEF ntohs
<1>8. 256 * (n \div 256) + (n % 256) = n
  BY LengthValue
<1> QED BY <1>7, <1>8

LEMMA DecodeSeqid ==
    ASSUME NEW n \in Uint16, NEW t, NEW id \in Seq(Int), Len(id) = 8,
           NEW f, HasHeader(f, n, t, id)
    PROVE  ntohll(SubSeq(f, 4, 11)) = id /\ SubSeq(f, 4, 11) = Reverse(id)
<1>1. f \in Seq(Int) /\ 4 \in 1..Len(f) /\ 11 \in 4..Len(f)
  BY DEF HasHeader
<1>2. PICK x : x = SubSeq(f, 4, 11)
  OBVIOUS
<1>3. /\ x \in Seq(Int) /\ Len(x) = 11 - 4 + 1
      /\ \A i \in 1..(11 - 4 + 1) : x[i] = f[4 + i - 1]
  BY <1>1, <1>2, Piece
<1>4. x \in Seq(Int) /\ Len(x) = 8 /\ \A i \in 1..8 : x[i] = f[3 + i]
  BY <1>3
<1>5. PICK w : w = htonll(id)
  OBVIOUS
<1>6. w \in Seq(Int) /\ Len(w) = 8 /\ \A i \in 1..8 : w[i] = id[9 - i]
  BY <1>5, TurnedAround
<1>7. \A i \in 1..8 : f[3 + i] = w[i]
  BY <1>5, Zenon DEF HasHeader
<1>8. x = w
  <2>1. Len(x) = Len(w) /\ \A i \in 1..Len(x) : x[i] = w[i]
    BY <1>4, <1>6, <1>7
  <2>2. x \in Seq(Int) /\ w \in Seq(Int)
    BY <1>4, <1>6
  <2> QED BY <2>1, <2>2, SeqEqual
<1>9. ntohll(w) = id
  BY <1>5, TurnedTwice
<1>10. PICK r : r = Reverse(id)
  OBVIOUS
<1>11. /\ r \in Seq(Int) /\ Len(r) = Len(id)
       /\ \A i \in 1..Len(id) : r[i] = id[(Len(id) - i) + 1]
  BY <1>10, ReverseBytes
<1>12. Len(r) = Len(w) /\ \A i \in 1..Len(r) : r[i] = w[i]
  BY <1>6, <1>11
<1>13. r = w
  BY <1>6, <1>11, <1>12, SeqEqual
<1> QED BY <1>2, <1>8, <1>9, <1>10, <1>13, Zenon

\* The seqid is in network byte order.
LEMMA SeqidOnWire ==
    ASSUME NEW n \in Uint16, NEW t, NEW id \in Seq(Int), Len(id) = 8,
           NEW f, HasHeader(f, n, t, id)
    PROVE  SubSeq(f, 4, 11) = Reverse(id)
BY DecodeSeqid

\* What deser_header makes of a message.
LEMMA DecodeHeader ==
    ASSUME NEW n \in Uint16, NEW t, NEW id \in Seq(Int), Len(id) = 8,
           NEW f, HasHeader(f, n, t, id)
    PROVE  deser_header(f) = [len |-> n, msgt |-> t, seqid |-> id]
<1>1. ntohs(SubSeq(f, 1, 2)) = n
  BY DecodeLength
<1>2. ntohll(SubSeq(f, 4, 11)) = id
  BY DecodeSeqid
<1>3. f[3] = t
  BY Zenon DEF HasHeader
<1> QED BY <1>1, <1>2, <1>3 DEF deser_header

-----------------------------------------------------------------------------
(* The requests.                                                           *)

LEMMA SeqIdBytes ==
    ASSUME NEW k \in Int
    PROVE  SeqId(k) \in Seq(Int) /\ Len(SeqId(k)) = 8
BY DEF SeqId

\* A header alone.
LEMMA BareHeader ==
    ASSUME NEW n \in Uint16, NEW t \in Int, NEW id \in Seq(Int), Len(id) = 8
    PROVE  HasHeader(Header(n, t, id), n, t, id)
<1>1. /\ Header(n, t, id) \in Seq(Int) /\ Len(Header(n, t, id)) = 11
      /\ Header(n, t, id)[1] = htons(n)[1]
      /\ Header(n, t, id)[2] = htons(n)[2]
      /\ Header(n, t, id)[3] = t
      /\ \A i \in 1..8 : Header(n, t, id)[3 + i] = htonll(id)[i]
  BY HeaderBytes
<1>2. Len(Header(n, t, id)) >= 11
  BY <1>1
<1> QED BY <1>1, <1>2, Zenon DEF HasHeader

\* What follows a header does not change it.
LEMMA HeaderKept ==
    ASSUME NEW n, NEW t, NEW id, NEW f, HasHeader(f, n, t, id),
           NEW g \in Seq(Int), Len(g) >= 11, \A i \in 1..11 : g[i] = f[i]
    PROVE  HasHeader(g, n, t, id)
<1>1. f[1] = htons(n)[1] /\ f[2] = htons(n)[2] /\ f[3] = t
      /\ \A i \in 1..8 : f[3 + i] = htonll(id)[i]
  BY Zenon DEF HasHeader
<1>2. g[1] = f[1] /\ g[2] = f[2] /\ g[3] = f[3]
  OBVIOUS
<1>3. ASSUME NEW i \in 1..8 PROVE g[3 + i] = f[3 + i]
  <2>1. 3 + i \in 1..11
    OBVIOUS
  <2> QED BY <2>1
<1>4. \A i \in 1..8 : g[3 + i] = htonll(id)[i]
  BY <1>1, <1>3, Zenon
<1> QED BY <1>1, <1>2, <1>4, Zenon DEF HasHeader

LEMMA HeaderThen ==
    ASSUME NEW n, NEW t, NEW id, NEW f, HasHeader(f, n, t, id), NEW rest \in Seq(Int)
    PROVE  HasHeader(f \o rest, n, t, id)
<1>1. f \in Seq(Int) /\ Len(f) >= 11
  BY Zenon DEF HasHeader
<1>2. PICK g : g = f \o rest
  OBVIOUS
<1>3. g \in Seq(Int) /\ Len(g) = Len(f) + Len(rest) /\ \A i \in 1..Len(f) : g[i] = f[i]
  BY <1>1, <1>2, Joined
<1>4. Len(g) >= 11 /\ \A i \in 1..11 : g[i] = f[i]
  <2>1. Len(f) \in Nat /\ Len(rest) \in Nat
    BY <1>1
  <2>2. Len(g) >= 11
    BY <1>1, <1>3, <2>1
  <2>3. \A i \in 1..11 : i \in 1..Len(f)
    BY <1>1, <2>1
  <2> QED BY <1>3, <2>2, <2>3, Zenon
<1>5. HasHeader(g, n, t, id)
  BY <1>3, <1>4, HeaderKept
<1> QED BY <1>2, <1>5, Zenon

\* The frame of a username.
LEMMA UsernameFrame ==
    ASSUME NEW id \in Seq(Int), Len(id) = 8, NEW u \in Unames
    PROVE  /\ u \in Seq(Int) /\ 11 + Len(u) \in Uint16
           /\ HasHeader(ser_set_username(id, u), 11 + Len(u), MSGT_SET_USERNAME, id)
           /\ Len(ser_set_username(id, u)) = 11 + Len(u)
           /\ \A i \in 1..Len(u) : ser_set_username(id, u)[11 + i] = u[i]
<1>1. u \in Seq(0..255) /\ 11 + Len(u) <= BUFFER_SIZE_2KB
  BY SessionAssumption
<1>2. u \in Seq(Int)
  <2>1. 0..255 \subseteq Int
    OBVIOUS
  <2> QED BY <1>1, <2>1, SeqMonotonic, Zenon
<1>3. PICK n : n = 11 + Len(u)
  OBVIOUS
<1>4. n \in Uint16
  <2>1. Len(u) \in Nat
    BY <1>2
  <2>2. n \in Nat /\ n <= 2048
    BY <1>1, <1>3, <2>1 DEF BUFFER_SIZE_2KB
  <2> QED BY <2>2, ShortLength
<1>5. PICK h : h = Header(n, MSGT_SET_USERNAME, id)
  OBVIOUS
<1>6. MSGT_SET_USERNAME \in Int
  BY DEF MSGT_SET_USERNAME
<1>7. HasHeader(h, n, MSGT_SET_USERNAME, id)
  BY <1>4, <1>5, <1>6, BareHeader
<1>8. h \in Seq(Int) /\ Len(h) = 11
  BY <1>4, <1>5, <1>6, HeaderBytes
<1>9. ser_set_username(id, u) = h \o u
  BY <1>3, <1>5 DEF ser_set_username
<1>10. HasHeader(h \o u, n, MSGT_SET_USERNAME, id)
  BY <1>2, <1>7, HeaderThen
<1>11. Len(h \o u) = Len(h) + Len(u) /\ \A i \in 1..Len(u) : (h \o u)[Len(h) + i] = u[i]
  BY <1>2, <1>8, Joined
<1>12. Len(h \o u) = 11 + Len(u) /\ \A i \in 1..Len(u) : (h \o u)[11 + i] = u[i]
  BY <1>8, <1>11
<1> QED BY <1>2, <1>3, <1>4, <1>9, <1>10, <1>12, Zenon

\* A number of a group's member.
LEMMA Uint64Bytes ==
    ASSUME NEW v \in Uint64
    PROVE  v \in Seq(Int) /\ Len(v) = 8
<1>1. v \in [1..8 -> Int]
  BY DEF Uint64
<1>2. ASSUME NEW n \in Nat, v \in [1..n -> Int] PROVE v \in Seq(Int) /\ Len(v) = n
  BY <1>2
<1>3. 8 \in Nat
  OBVIOUS
<1> QED BY <1>1, <1>2, <1>3, Zenon

\* The byte of a list of numbers of eight bytes: which number, and which of it.
LEMMA ByteIndex ==
    ASSUME NEW l \in Nat, NEW j \in Nat, j >= 1, j <= 8 * l
    PROVE  /\ 1 + ((j - 1) \div 8) \in Int
           /\ 1 + ((j - 1) \div 8) >= 1 /\ 1 + ((j - 1) \div 8) <= l
           /\ 1 + ((j - 1) % 8) \in Int
           /\ 1 + ((j - 1) % 8) >= 1 /\ 1 + ((j - 1) % 8) <= 8
<1>1. PICK p \in Nat : p = j - 1 /\ p < 8 * l
  OBVIOUS
<1>2. p \div 8 \in Int
  OBVIOUS
<1>3. p \div 8 >= 0
  OBVIOUS
<1>4. p \div 8 < l
  BY <1>1
<1>5. p % 8 \in Int
  OBVIOUS
<1>6. p % 8 >= 0
  OBVIOUS
<1>7. p % 8 <= 7
  OBVIOUS
<1> QED BY <1>1, <1>2, <1>3, <1>4, <1>5, <1>6, <1>7

LEMMA IndexByte ==
    ASSUME NEW i \in Nat, i >= 1, NEW m \in Nat, m >= 1, m <= 8
    PROVE  /\ 1 + ((8 * i - 8 + m - 1) \div 8) = i
           /\ 1 + ((8 * i - 8 + m - 1) % 8) = m
<1>1. PICK p \in Nat : p = 8 * i - 8 + m - 1
  OBVIOUS
<1>2. p \div 8 = i - 1
  BY <1>1
<1>3. p % 8 = m - 1
  BY <1>1
<1> QED BY <1>1, <1>2, <1>3

\* The bytes of the members of a group.
GroupBody(us) ==
    [j \in 1..(8 * Len(us)) |-> htonll(us[1 + ((j - 1) \div 8)])[1 + ((j - 1) % 8)]]

LEMMA GroupBodyBytes ==
    ASSUME NEW us \in Seq(Uint64)
    PROVE  /\ GroupBody(us) \in Seq(Int) /\ Len(GroupBody(us)) = 8 * Len(us)
           /\ \A i \in 1..Len(us) : \A m \in 1..8 :
                  GroupBody(us)[8 * i - 8 + m] = htonll(us[i])[m]
<1>1. Len(us) \in Nat
  OBVIOUS
<1>2. \A i \in 1..Len(us) : us[i] \in Seq(Int) /\ Len(us[i]) = 8
  BY ElementOfSeq, Uint64Bytes
<1>3. \A i \in 1..Len(us) : htonll(us[i]) \in Seq(Int) /\ Len(htonll(us[i])) = 8
  BY <1>2, TurnedAround
<1>4. \A i \in 1..Len(us) : \A m \in 1..8 : htonll(us[i])[m] \in Int
  BY <1>3, ElementOfSeq
<1>5. ASSUME NEW j \in 1..(8 * Len(us))
      PROVE  htonll(us[1 + ((j - 1) \div 8)])[1 + ((j - 1) % 8)] \in Int
  <2>1. PICK q : q = 1 + ((j - 1) \div 8)
    OBVIOUS
  <2>2. PICK r : r = 1 + ((j - 1) % 8)
    OBVIOUS
  <2>3. q \in Int /\ q >= 1 /\ q <= Len(us) /\ r \in Int /\ r >= 1 /\ r <= 8
    BY <1>1, <2>1, <2>2, ByteIndex
  <2>4. q \in 1..Len(us) /\ r \in 1..8
    BY <1>1, <2>3
  <2>5. htonll(us[q])[r] \in Int
    BY <1>4, <2>4, Zenon
  <2> QED BY <2>1, <2>2, <2>5
<1>6. 8 * Len(us) \in Nat
  BY <1>1
<1>7. GroupBody(us) \in [1..(8 * Len(us)) -> Int]
  BY <1>5 DEF GroupBody
<1>8. GroupBody(us) \in Seq(Int) /\ Len(GroupBody(us)) = 8 * Len(us)
  BY <1>6, <1>7
<1>9. ASSUME NEW i \in 1..Len(us), NEW m \in 1..8
      PROVE  GroupBody(us)[8 * i - 8 + m] = htonll(us[i])[m]
  <2>1. PICK j : j = 8 * i - 8 + m
    OBVIOUS
  <2>2. j \in 1..(8 * Len(us))
    BY <1>1, <2>1
  <2>3. 1 + ((j - 1) \div 8) = i /\ 1 + ((j - 1) % 8) = m
    BY <1>1, <2>1, IndexByte
  <2>4. GroupBody(us)[j] = htonll(us[1 + ((j - 1) \div 8)])[1 + ((j - 1) % 8)]
    BY <2>2 DEF GroupBody
  <2>5. GroupBody(us)[j] = htonll(us[i])[m]
    BY <2>3, <2>4
  <2> QED BY <2>1, <2>5
<1> QED BY <1>8, <1>9

\* The frame of a group message.
LEMMA GroupFrame ==
    ASSUME NEW id \in Seq(Int), Len(id) = 8, NEW us \in UidLists
    PROVE  /\ us \in Seq(Uint64) /\ 12 + 8 * Len(us) \in Uint16
           /\ HasHeader(ser_create_group(id, us), 12 + 8 * Len(us), MSGT_CREATE_GROUP, id)
           /\ Len(ser_create_group(id, us)) = 12 + 8 * Len(us)
           /\ ser_create_group(id, us)[12] = Len(us)
           /\ \A j \in 1..(8 * Len(us)) : ser_create_group(id, us)[12 + j] = GroupBody(us)[j]
<1>1. us \in Seq(Uint64) /\ 12 + 8 * Len(us) <= BUFFER_SIZE_2KB
  BY SessionAssumption
<1>2. Len(us) \in Nat
  BY <1>1
<1>3. PICK n : n = 12 + 8 * Len(us)
  OBVIOUS
<1>4. n \in Uint16
  <2>1. n \in Nat /\ n <= 2048
    BY <1>1, <1>2, <1>3 DEF BUFFER_SIZE_2KB
  <2> QED BY <2>1, ShortLength
<1>5. PICK h : h = Header(n, MSGT_CREATE_GROUP, id)
  OBVIOUS
<1>6. MSGT_CREATE_GROUP \in Int
  BY DEF MSGT_CREATE_GROUP
<1>7. HasHeader(h, n, MSGT_CREATE_GROUP, id)
  BY <1>4, <1>5, <1>6, BareHeader
<1>8. h \in Seq(Int) /\ Len(h) = 11
  BY <1>4, <1>5, <1>6, HeaderBytes
<1>9. PICK b : b = GroupBody(us)
  OBVIOUS
<1>10. b \in Seq(Int) /\ Len(b) = 8 * Len(us)
  BY <1>1, <1>9, GroupBodyBytes
<1>11. PICK c : c = <<Len(us)>>
  OBVIOUS
<1>12. c \in Seq(Int) /\ Len(c) = 1 /\ c[1] = Len(us)
  BY <1>2, <1>11
<1>13. ser_create_group(id, us) = h \o c \o b
  BY <1>3, <1>5, <1>9, <1>11 DEF ser_create_group, GroupBody
<1>14. PICK d : d = h \o c
  OBVIOUS
<1>15. HasHeader(d, n, MSGT_CREATE_GROUP, id)
  BY <1>7, <1>12, <1>14, HeaderThen
<1>16. /\ d \in Seq(Int) /\ Len(d) = Len(h) + Len(c)
       /\ \A i \in 1..Len(c) : d[Len(h) + i] = c[i]
  BY <1>8, <1>12, <1>14, Joined
<1>17. d \in Seq(Int) /\ Len(d) = 12 /\ d[12] = Len(us)
  <2>1. 1 \in 1..Len(c) /\ Len(h) + 1 = 12 /\ Len(h) + Len(c) = 12
    BY <1>8, <1>12
  <2>2. d[Len(h) + 1] = c[1]
    BY <1>16, <2>1, Zenon
  <2> QED BY <1>12, <1>16, <2>1, <2>2, Zenon
<1>18. HasHeader(d \o b, n, MSGT_CREATE_GROUP, id)
  BY <1>10, <1>15, HeaderThen
<1>19. /\ Len(d \o b) = Len(d) + Len(b)
       /\ \A i \in 1..Len(d) : (d \o b)[i] = d[i]
       /\ \A i \in 1..Len(b) : (d \o b)[Len(d) + i] = b[i]
  BY <1>10, <1>17, Joined
<1>20. 12 \in 1..Len(d) /\ Len(d) + Len(b) = 12 + 8 * Len(us)
  BY <1>2, <1>10, <1>17
<1>21. Len(d \o b) = 12 + 8 * Len(us) /\ (d \o b)[12] = Len(us)
  BY <1>17, <1>19, <1>20, Zenon
<1>22. \A i \in 1..(8 * Len(us)) : (d \o b)[12 + i] = b[i]
  BY <1>10, <1>17, <1>19, Zenon
<1>23. ser_create_group(id, us) = d \o b
  BY <1>13, <1>14, Zenon
<1> QED BY <1>1, <1>3, <1>4, <1>9, <1>18, <1>21, <1>22, <1>23, Zenon

\* What is decoded from the bytes of the members.
LEMMA DecodeMember ==
    ASSUME NEW us \in Seq(Uint64), NEW g \in Seq(Int), Len(g) = 12 + 8 * Len(us),
           \A j \in 1..(8 * Len(us)) : g[12 + j] = GroupBody(us)[j],
           NEW i \in 1..Len(us)
    PROVE  ntohll(SubSeq(g, 12 + 8 * i - 7, 12 + 8 * i)) = us[i]
<1>1. Len(us) \in Nat /\ i \in Nat /\ i >= 1 /\ i <= Len(us)
  OBVIOUS
<1>2. us[i] \in Seq(Int) /\ Len(us[i]) = 8
  BY ElementOfSeq, Uint64Bytes
<1>3. PICK w : w = htonll(us[i])
  OBVIOUS
<1>4. w \in Seq(Int) /\ Len(w) = 8
  BY <1>2, <1>3, TurnedAround
<1>5. PICK a : a = 12 + 8 * i - 7
  OBVIOUS
<1>6. PICK e : e = 12 + 8 * i
  OBVIOUS
<1>7. a \in 1..Len(g) /\ e \in a..Len(g) /\ e - a + 1 = 8
  BY <1>1, <1>5, <1>6
<1>8. PICK x : x = SubSeq(g, a, e)
  OBVIOUS
<1>9. x \in Seq(Int) /\ Len(x) = e - a + 1 /\ \A m \in 1..(e - a + 1) : x[m] = g[a + m - 1]
  BY <1>7, <1>8, Piece
<1>10. Len(x) = 8 /\ \A m \in 1..8 : x[m] = g[a + m - 1]
  BY <1>7, <1>9, Zenon
<1>11. ASSUME NEW m \in 1..8 PROVE x[m] = w[m]
  <2>1. PICK j : j = 8 * i - 8 + m
    OBVIOUS
  <2>2. j \in 1..(8 * Len(us)) /\ a + m - 1 = 12 + j
    BY <1>1, <1>5, <2>1
  <2>3. x[m] = GroupBody(us)[j]
    BY <1>10, <2>2, Zenon
  <2>4. GroupBody(us)[8 * i - 8 + m] = htonll(us[i])[m]
    BY GroupBodyBytes
  <2> QED BY <1>3, <2>1, <2>3, <2>4
<1>12. x = w
  <2>1. Len(x) = Len(w) /\ \A m \in 1..Len(x) : x[m] = w[m]
    BY <1>4, <1>10, <1>11
  <2>2. x \in Seq(Int) /\ w \in Seq(Int)
    BY <1>4, <1>9
  <2> QED BY <2>1, <2>2, SeqEqual
<1>13. ntohll(w) = us[i]
  BY <1>2, <1>3, TurnedTwice
<1> QED BY <1>5, <1>6, <1>8, <1>12, <1>13

\* A group message is taken with the count of its members only, and if they
\* fit the array.
LEMMA DecodeGroup ==
    ASSUME NEW us \in Seq(Uint64), NEW g \in Seq(Int), Len(g) = 12 + 8 * Len(us),
           \A j \in 1..(8 * Len(us)) : g[12 + j] = GroupBody(us)[j],
           g[12] = Len(us) \/ g[12] = Len(us) + 1
    PROVE  deser_create_group(12 + 8 * Len(us), g) =
               IF g[12] = Len(us) /\ Len(us) <= MaxUids
               THEN [ret |-> 0, uids |-> us] ELSE [ret |-> -1]
<1>1. Len(us) \in Nat /\ MaxUids \in Nat
  BY ProtocolAssumption
<1>2. PICK uids : uids = [i \in 1..g[12] |->
                             ntohll(SubSeq(g, 12 + 8 * i - 7, 12 + 8 * i))]
  OBVIOUS
<1>3. PICK n : n = 12 + 8 * Len(us)
  OBVIOUS
<1>4. deser_create_group(n, g) =
          IF n < 12 \/ g[12] > MaxUids \/ 8 * g[12] # n - 12
          THEN [ret |-> -1] ELSE [ret |-> 0, uids |-> uids]
  BY <1>2 DEF deser_create_group
<1>5. CASE g[12] = Len(us)
  <2>1. \A i \in 1..Len(us) : ntohll(SubSeq(g, 12 + 8 * i - 7, 12 + 8 * i)) = us[i]
    BY DecodeMember
  <2>2. us = [i \in 1..Len(us) |-> us[i]]
    OBVIOUS
  <2>3. uids = us
    BY <1>2, <1>5, <2>1, <2>2
  <2>4. (n < 12 \/ g[12] > MaxUids \/ 8 * g[12] # n - 12) <=> ~(Len(us) <= MaxUids)
    BY <1>1, <1>3, <1>5
  <2> QED BY <1>3, <1>4, <1>5, <2>3, <2>4
<1>6. CASE g[12] = Len(us) + 1
  <2>1. 8 * g[12] # n - 12 /\ g[12] # Len(us)
    BY <1>1, <1>3, <1>6
  <2> QED BY <1>3, <1>4, <2>1
<1> QED BY <1>5, <1>6

-----------------------------------------------------------------------------
(* The server decodes what the client has encoded.                         *)

\* What RoundTrip says of request k.
Decoded(req, k) ==
    /\ deser_header(req.frame).msgt = req.msgt
    /\ deser_header(req.frame).seqid = SeqId(k)
    /\ SubSeq(req.frame, 4, HdrLen) = Reverse(SeqId(k))
    /\ req.msgt = MSGT_CREATE_GROUP =>
           deser_create_group(deser_header(req.frame).len, req.frame) =
               IF req.honest /\ Len(req.body) <= MaxUids
               THEN [ret |-> 0, uids |-> req.body] ELSE [ret |-> -1]

LEMMA SetUsernameDecoded ==
    ASSUME NEW k \in Int, NEW req, req.msgt = MSGT_SET_USERNAME, NEW n \in Uint16,
           HasHeader(req.frame, n, MSGT_SET_USERNAME, SeqId(k))
    PROVE  Decoded(req, k)
<1>1. SeqId(k) \in Seq(Int) /\ Len(SeqId(k)) = 8
  BY SeqIdBytes
<1>2. deser_header(req.frame) = [len |-> n, msgt |-> MSGT_SET_USERNAME, seqid |-> SeqId(k)]
  BY <1>1, DecodeHeader
<1>3. SubSeq(req.frame, 4, 11) = Reverse(SeqId(k))
  BY <1>1, DecodeSeqid
<1>4. /\ deser_header(req.frame).msgt = MSGT_SET_USERNAME
      /\ deser_header(req.frame).seqid = SeqId(k)
  BY <1>2
<1>5. req.msgt # MSGT_CREATE_GROUP
  BY DEF MSGT_SET_USERNAME, MSGT_CREATE_GROUP
<1> QED BY <1>3, <1>4, <1>5 DEF Decoded

LEMMA CreateGroupDecoded ==
    ASSUME NEW k \in Int, NEW us \in UidLists, NEW req, req.msgt = MSGT_CREATE_GROUP,
           req.body = us, NEW g, g = req.frame,
           g \in Seq(Int), Len(g) = 12 + 8 * Len(us),
           HasHeader(g, 12 + 8 * Len(us), MSGT_CREATE_GROUP, SeqId(k)),
           \A j \in 1..(8 * Len(us)) : g[12 + j] = GroupBody(us)[j],
           (req.honest /\ g[12] = Len(us)) \/ (~req.honest /\ g[12] = Len(us) + 1)
    PROVE  Decoded(req, k)
<1>1. SeqId(k) \in Seq(Int) /\ Len(SeqId(k)) = 8
  BY SeqIdBytes
<1>2. us \in Seq(Uint64) /\ 12 + 8 * Len(us) \in Uint16
  BY <1>1, GroupFrame
<1>3. PICK n : n = 12 + 8 * Len(us)
  OBVIOUS
<1>10. n \in Uint16 /\ HasHeader(g, n, MSGT_CREATE_GROUP, SeqId(k))
  BY <1>2, <1>3, Zenon
<1>4. deser_header(g) = [len |-> n, msgt |-> MSGT_CREATE_GROUP, seqid |-> SeqId(k)]
  BY <1>1, <1>10, DecodeHeader
<1>5. SubSeq(g, 4, 11) = Reverse(SeqId(k))
  BY <1>1, <1>10, SeqidOnWire, Zenon
<1>6. /\ deser_header(g).msgt = MSGT_CREATE_GROUP /\ deser_header(g).len = n
      /\ deser_header(g).seqid = SeqId(k)
  BY <1>4
<1>7. deser_create_group(n, g) = IF g[12] = Len(us) /\ Len(us) <= MaxUids
                                 THEN [ret |-> 0, uids |-> us] ELSE [ret |-> -1]
  <2>1. g[12] = Len(us) \/ g[12] = Len(us) + 1
    OBVIOUS
  <2> QED BY <1>2, <1>3, <2>1, DecodeGroup
<1>8. req.honest <=> g[12] = Len(us)
  <2>1. Len(us) # Len(us) + 1
    BY <1>2
  <2> QED BY <2>1
<1>9. deser_create_group(n, g) = IF req.honest /\ Len(us) <= MaxUids
                                 THEN [ret |-> 0, uids |-> us] ELSE [ret |-> -1]
  BY <1>7, <1>8
<1> QED BY <1>5, <1>6, <1>9 DEF Decoded

\* Every request of the client.
LEMMA AskDecoded ==
    ASSUME NEW k \in Int, NEW req \in Asks(k)
    PROVE  Decoded(req, k)
<1>1. SeqId(k) \in Seq(Int) /\ Len(SeqId(k)) = 8
  BY SeqIdBytes
<1>2. ASSUME NEW u \in Unames,
             req = [msgt |-> MSGT_SET_USERNAME, body |-> u, honest |-> TRUE,
                    frame |-> ser_set_username(SeqId(k), u)]
      PROVE  Decoded(req, k)
  <2>1. req.msgt = MSGT_SET_USERNAME /\ req.frame = ser_set_username(SeqId(k), u)
    BY <1>2
  <2>2. /\ 11 + Len(u) \in Uint16
        /\ HasHeader(ser_set_username(SeqId(k), u), 11 + Len(u), MSGT_SET_USERNAME, SeqId(k))
    BY <1>1, UsernameFrame
  <2> QED BY <2>1, <2>2, SetUsernameDecoded
<1>3. ASSUME NEW n \in LowLens,
             req = [msgt |-> MSGT_SET_USERNAME, body |-> <<>>, honest |-> FALSE,
                    frame |-> Header(n, MSGT_SET_USERNAME, SeqId(k))]
      PROVE  Decoded(req, k)
  <2>1. req.msgt = MSGT_SET_USERNAME /\ req.frame = Header(n, MSGT_SET_USERNAME, SeqId(k))
    BY <1>3
  <2>2. n \in Nat /\ n <= 2048
    BY SessionAssumption
  <2>3. n \in Uint16 /\ MSGT_SET_USERNAME \in Int
    BY <2>2, ShortLength DEF MSGT_SET_USERNAME
  <2>4. HasHeader(Header(n, MSGT_SET_USERNAME, SeqId(k)), n, MSGT_SET_USERNAME, SeqId(k))
    BY <1>1, <2>3, BareHeader
  <2> QED BY <2>1, <2>3, <2>4, SetUsernameDecoded
<1>4. ASSUME NEW us \in UidLists, NEW f, f = ser_create_group(SeqId(k), us),
             \/ req = [msgt |-> MSGT_CREATE_GROUP, body |-> us, honest |-> TRUE, frame |-> f]
             \/ req = [msgt |-> MSGT_CREATE_GROUP, body |-> us, honest |-> FALSE,
                       frame |-> ReplaceAt(f, GroupLen, Len(us) + 1)]
      PROVE  Decoded(req, k)
  <2>1. /\ us \in Seq(Uint64)
        /\ HasHeader(f, 12 + 8 * Len(us), MSGT_CREATE_GROUP, SeqId(k))
        /\ Len(f) = 12 + 8 * Len(us) /\ f[12] = Len(us)
        /\ \A j \in 1..(8 * Len(us)) : f[12 + j] = GroupBody(us)[j]
    BY <1>1, <1>4, GroupFrame, Zenon
  <2>2. f \in Seq(Int) /\ Len(us) \in Nat
    BY <2>1 DEF HasHeader
  <2>3. CASE req = [msgt |-> MSGT_CREATE_GROUP, body |-> us, honest |-> TRUE, frame |-> f]
    <3>1. req.msgt = MSGT_CREATE_GROUP /\ req.body = us /\ req.honest /\ req.frame = f
      BY <2>3
    <3>2. (req.honest /\ f[12] = Len(us)) \/ (~req.honest /\ f[12] = Len(us) + 1)
      BY <2>1, <3>1, Zenon
    <3> QED BY <2>1, <2>2, <3>1, <3>2, CreateGroupDecoded, Zenon
  <2>4. CASE req = [msgt |-> MSGT_CREATE_GROUP, body |-> us, honest |-> FALSE,
                    frame |-> ReplaceAt(f, GroupLen, Len(us) + 1)]
    <3>1. PICK g : g = [f EXCEPT ![12] = Len(us) + 1]
      OBVIOUS
    <3>2. req.msgt = MSGT_CREATE_GROUP /\ req.body = us /\ ~req.honest /\ req.frame = g
      BY <2>4, <3>1 DEF ReplaceAt
    <3>3. 12 \in 1..Len(f) /\ Len(us) + 1 \in Int
      BY <2>1, <2>2
    <3>4. /\ g \in Seq(Int) /\ Len(g) = Len(f)
          /\ \A j \in 1..Len(f) : g[j] = IF j = 12 THEN Len(us) + 1 ELSE f[j]
      BY <2>2, <3>1, <3>3, ExceptSeq
    <3>5. g[12] = Len(us) + 1 /\ \A i \in 1..11 : g[i] = f[i]
      <4>1. \A i \in 1..11 : i \in 1..Len(f) /\ i # 12
        BY <2>1, <2>2
      <4> QED BY <3>3, <3>4, <4>1, Zenon
    <3>6. \A j \in 1..(8 * Len(us)) : g[12 + j] = GroupBody(us)[j]
      <4>1. \A j \in 1..(8 * Len(us)) : 12 + j \in 1..Len(f) /\ 12 + j # 12
        BY <2>1, <2>2
      <4> QED BY <2>1, <3>4, <4>1, Zenon
    <3>7. Len(g) = 12 + 8 * Len(us) /\ Len(g) >= 11
      BY <2>1, <2>2, <3>4
    <3>8. HasHeader(g, 12 + 8 * Len(us), MSGT_CREATE_GROUP, SeqId(k))
      BY <2>1, <3>4, <3>5, <3>7, HeaderKept
    <3> QED BY <3>2, <3>4, <3>5, <3>6, <3>7, <3>8, CreateGroupDecoded
  <2> QED BY <1>4, <2>3, <2>4
<1>5. \/ \E u \in Unames :
             req = [msgt |-> MSGT_SET_USERNAME, body |-> u, honest |-> TRUE,
                    frame |-> ser_set_username(SeqId(k), u)]
      \/ \E us \in UidLists :
             req = [msgt |-> MSGT_CREATE_GROUP, body |-> us, honest |-> TRUE,
                    frame |-> ser_create_group(SeqId(k), us)]
      \/ \E us \in UidLists :
             req = [msgt |-> MSGT_CREATE_GROUP, body |-> us, honest |-> FALSE,
                    frame |-> ReplaceAt(ser_create_group(SeqId(k), us), GroupLen, Len(us) + 1)]
      \/ \E n \in LowLens :
             req = [msgt |-> MSGT_SET_USERNAME, body |-> <<>>, honest |-> FALSE,
                    frame |-> Header(n, MSGT_SET_USERNAME, SeqId(k))]
  BY Zenon DEF Asks
<1> QED BY <1>2, <1>3, <1>4, <1>5, Zenon

\* The requests so far are requests of the client, in their order.
Requests == UNION {Asks(k) : k \in Int}

AskedInv ==
    /\ asked \in Seq(Requests)
    /\ \A k \in 1..Len(asked) : asked[k] \in Asks(k)

LEMMA AskedGrows ==
    ASSUME AskedInv, NEW req \in Asks(Len(asked) + 1), asked' = Append(asked, req)
    PROVE  /\ AskedInv' /\ Len(asked) \in Nat /\ Len(asked') = Len(asked) + 1
           /\ asked'[Len(asked) + 1] = req
           /\ \A k \in 1..Len(asked) : asked'[k] = asked[k]
<1>1. asked \in Seq(Requests) /\ Len(asked) \in Nat
  BY DEF AskedInv
<1>2. req \in Requests
  <2>1. Len(asked) + 1 \in Int
    BY <1>1
  <2> QED BY <2>1, Zenon DEF Requests
<1>3. /\ asked' \in Seq(Requests) /\ Len(asked') = Len(asked) + 1
      /\ asked'[Len(asked) + 1] = req
      /\ \A k \in 1..Len(asked) : asked'[k] = asked[k]
  BY <1>1, <1>2
<1>4. ASSUME NEW k \in 1..Len(asked') PROVE asked'[k] \in Asks(k)
  <2>1. k \in 1..Len(asked) \/ k = Len(asked) + 1
    BY <1>1, <1>3
  <2>2. \A j \in 1..Len(asked) : asked[j] \in Asks(j)
    BY Zenon DEF AskedInv
  <2> QED BY <1>3, <2>1, <2>2, Zenon
<1>5. AskedInv'
  <2>1. AskedInv' <=> /\ asked' \in Seq(Requests')
                      /\ \A k \in 1..Len(asked') : asked'[k] \in Asks(k)'
    BY Zenon DEF AskedInv
  <2>2. Requests' = Requests /\ \A k : Asks(k)' = Asks(k)
    BY Zenon DEF Requests, Asks
  <2> QED BY <1>3, <1>4, <2>1, <2>2, Zenon
<1> QED BY <1>1, <1>3, <1>5

LEMMA AskedNext == AskedInv /\ [Next]_vars => AskedInv'
<1> SUFFICES ASSUME AskedInv, [Next]_vars PROVE AskedInv'
  OBVIOUS
<1>1. CASE handle_recv
  <2>1. PICK req \in Asks(Len(asked) + 1) : asked' = Append(asked, req)
    BY <1>1 DEF handle_recv
  <2> QED BY <2>1, AskedGrows
<1>2. CASE UNCHANGED asked
  BY <1>2, Zenon DEF AskedInv, Requests, Asks
<1> QED
  BY <1>1, <1>2 DEF Next, KernelSend, handle_send, op_failed, vars

LEMMA AskedInit == Init => AskedInv
BY DEF Init, AskedInv

\* Every header the client has written is read as it was meant, seqid and all,
\* and a group message only with members that fit and are as many as it says.
THEOREM SessionRoundTrip == Spec => []RoundTrip
<1>1. AskedInv => RoundTrip
  <2> SUFFICES ASSUME AskedInv, NEW k \in 1..Len(asked) PROVE Decoded(asked[k], k)
    BY DEF RoundTrip, Decoded
  <2>1. k \in Int /\ asked[k] \in Asks(k)
    BY DEF AskedInv
  <2> QED BY <2>1, AskDecoded
<1> QED BY <1>1, AskedInit, AskedNext, PTL DEF Spec

-----------------------------------------------------------------------------
(* The name.                                                               *)

\* What handle does to the name, by the length it has found.
LEMMA HandleByLength ==
    ASSUME NEW req, NEW len, handle(req), deser_header(req.frame).msgt = MSGT_SET_USERNAME,
           len = deser_set_username(deser_header(req.frame).len)
    PROVE  username' = IF ~BadLen(len) /\ username_valid(UnameAt(req.frame, len))
                       THEN UnameAt(req.frame, len) ELSE username
BY Zenon DEF handle

\* All the bytes of the name, and none from behind them.
LEMMA UnameWhole ==
    ASSUME NEW u \in Seq(Int), NEW f, Len(f) = 11 + Len(u),
           \A i \in 1..Len(u) : f[11 + i] = u[i]
    PROVE  UnameAt(f, Len(u)) = u
<1>1. Len(u) \in Nat
  OBVIOUS
<1>2. \A i \in 1..Len(u) : 11 + i <= Len(f)
  BY <1>1
<1>3. UnameAt(f, Len(u)) = [i \in 1..Len(u) |-> u[i]]
  BY <1>2 DEF UnameAt
<1>4. u = [i \in 1..Len(u) |-> u[i]]
  OBVIOUS
<1> QED BY <1>3, <1>4, Zenon

\* The length fits and the bytes are letters and digits: the request is good.
LEMMA GoodByLength ==
    ASSUME NEW req, req.msgt = MSGT_SET_USERNAME, req.body \in Seq(Int)
    PROVE  Good(req) <=> ~BadLen(Len(req.body)) /\ username_valid(req.body)
<1>1. Len(req.body) \in Int
  OBVIOUS
<1>2. ASSUME NEW l \in Int
      PROVE  l \in MIN_UNAME_LEN..MAX_UNAME_LEN <=> ~BadLen(l)
  BY DEF BadLen, MIN_UNAME_LEN, MAX_UNAME_LEN
<1> QED BY <1>1, <1>2, Zenon DEF Good

\* What handle finds where a username should be: the name that was asked for, or
\* a length no name has.
Found(req, len) ==
    /\ Good(req) <=> ~BadLen(len) /\ username_valid(UnameAt(req.frame, len))
    /\ Len(req.body) \in MIN_UNAME_LEN..MAX_UNAME_LEN <=> ~BadLen(len)
    /\ ~BadLen(len) => UnameAt(req.frame, len) = req.body

LEMMA UnameFound ==
    ASSUME NEW k \in Int, NEW req \in Asks(k), req.msgt = MSGT_SET_USERNAME
    PROVE  Found(req, deser_set_username(deser_header(req.frame).len))
<1>1. SeqId(k) \in Seq(Int) /\ Len(SeqId(k)) = 8
  BY SeqIdBytes
<1>2. ASSUME NEW l \in Int PROVE l \in MIN_UNAME_LEN..MAX_UNAME_LEN <=> ~BadLen(l)
  BY DEF BadLen, MIN_UNAME_LEN, MAX_UNAME_LEN
<1>3. ASSUME NEW u \in Unames,
             req = [msgt |-> MSGT_SET_USERNAME, body |-> u, honest |-> TRUE,
                    frame |-> ser_set_username(SeqId(k), u)]
      PROVE  Found(req, deser_set_username(deser_header(req.frame).len))
  <2>1. PICK f : f = ser_set_username(SeqId(k), u)
    OBVIOUS
  <2>2. req.msgt = MSGT_SET_USERNAME /\ req.frame = f /\ req.body = u
    BY <1>3, <2>1
  <2>3. /\ u \in Seq(Int) /\ 11 + Len(u) \in Uint16
        /\ HasHeader(f, 11 + Len(u), MSGT_SET_USERNAME, SeqId(k))
        /\ Len(f) = 11 + Len(u) /\ \A i \in 1..Len(u) : f[11 + i] = u[i]
    BY <1>1, <2>1, UsernameFrame, Zenon
  <2>4. PICK n : n = 11 + Len(u)
    OBVIOUS
  <2>5. n \in Uint16 /\ HasHeader(f, n, MSGT_SET_USERNAME, SeqId(k))
    BY <2>3, <2>4, Zenon
  <2>6. deser_header(f) = [len |-> n, msgt |-> MSGT_SET_USERNAME, seqid |-> SeqId(k)]
    BY <1>1, <2>5, DecodeHeader, Zenon
  <2>7. deser_header(f).len = n
    BY <2>6
  <2>8. deser_set_username(n) = Len(u) /\ Len(u) \in Int
    <3>1. Len(u) \in Nat
      BY <2>3
    <3>2. n >= HdrLen /\ n - HdrLen = Len(u)
      BY <2>4, <3>1
    <3>3. n >= HdrLen => deser_set_username(n) = n - HdrLen
      BY <2>5, UnameLength
    <3> QED BY <3>1, <3>2, <3>3
  <2>9. UnameAt(f, Len(u)) = u
    BY <2>3, UnameWhole
  <2>10. Good(req) <=> ~BadLen(Len(u)) /\ username_valid(u)
    BY <2>2, <2>3, GoodByLength, Zenon
  <2>11. Found(req, Len(u))
    BY <1>2, <2>2, <2>8, <2>9, <2>10, Zenon DEF Found
  <2> QED BY <2>2, <2>7, <2>8, <2>11, Zenon
<1>4. ASSUME NEW n \in LowLens,
             req = [msgt |-> MSGT_SET_USERNAME, body |-> <<>>, honest |-> FALSE,
                    frame |-> Header(n, MSGT_SET_USERNAME, SeqId(k))]
      PROVE  Found(req, deser_set_username(deser_header(req.frame).len))
  <2>1. PICK f : f = Header(n, MSGT_SET_USERNAME, SeqId(k))
    OBVIOUS
  <2>2. req.msgt = MSGT_SET_USERNAME /\ req.frame = f /\ req.body = <<>>
    BY <1>4, <2>1
  <2>3. n \in Nat /\ n <= 2048 /\ n < HdrLen
    BY SessionAssumption
  <2>4. n \in Uint16 /\ MSGT_SET_USERNAME \in Int
    BY <2>3, ShortLength DEF MSGT_SET_USERNAME
  <2>5. HasHeader(f, n, MSGT_SET_USERNAME, SeqId(k))
    BY <1>1, <2>1, <2>4, BareHeader
  <2>6. deser_header(f) = [len |-> n, msgt |-> MSGT_SET_USERNAME, seqid |-> SeqId(k)]
    BY <1>1, <2>4, <2>5, DecodeHeader, Zenon
  <2>7. deser_header(f).len = n
    BY <2>6
  <2>8. PICK len : len = deser_set_username(n)
    OBVIOUS
  <2>9. len > MAX_UNAME_LEN
    BY <2>3, <2>4, <2>8, UnameLength
  <2>10. BadLen(len)
    BY <2>9 DEF BadLen
  <2>11. Len(req.body) \notin MIN_UNAME_LEN..MAX_UNAME_LEN /\ ~Good(req)
    <3>1. Len(<<>>) = 0 /\ 0 \notin MIN_UNAME_LEN..MAX_UNAME_LEN
      BY DEF MIN_UNAME_LEN, MAX_UNAME_LEN
    <3> QED BY <2>2, <3>1, Zenon DEF Good
  <2>12. Found(req, len)
    BY <2>10, <2>11, Zenon DEF Found
  <2> QED BY <2>2, <2>7, <2>8, <2>12, Zenon
<1>5. \/ \E u \in Unames :
             req = [msgt |-> MSGT_SET_USERNAME, body |-> u, honest |-> TRUE,
                    frame |-> ser_set_username(SeqId(k), u)]
      \/ req.msgt = MSGT_CREATE_GROUP
      \/ \E n \in LowLens :
             req = [msgt |-> MSGT_SET_USERNAME, body |-> <<>>, honest |-> FALSE,
                    frame |-> Header(n, MSGT_SET_USERNAME, SeqId(k))]
  BY DEF Asks
<1>6. MSGT_CREATE_GROUP # MSGT_SET_USERNAME
  BY DEF MSGT_CREATE_GROUP, MSGT_SET_USERNAME
<1> QED BY <1>3, <1>4, <1>5, <1>6, Zenon

LEMMA HandleName ==
    ASSUME NEW k \in Int, NEW req \in Asks(k), handle(req)
    PROVE  username' = IF Good(req) THEN req.body ELSE username
<1>1. deser_header(req.frame).msgt = req.msgt
  BY AskDecoded, Zenon DEF Decoded
<1>2. CASE req.msgt = MSGT_SET_USERNAME
  <2>1. PICK len : len = deser_set_username(deser_header(req.frame).len)
    OBVIOUS
  <2>2. Found(req, len)
    BY <1>2, <2>1, UnameFound, Zenon
  <2>3. username' = IF ~BadLen(len) /\ username_valid(UnameAt(req.frame, len))
                    THEN UnameAt(req.frame, len) ELSE username
    BY <1>1, <1>2, <2>1, HandleByLength, Zenon
  <2> QED BY <2>2, <2>3, Zenon DEF Found
<1>3. CASE req.msgt # MSGT_SET_USERNAME
  BY <1>1, <1>3, Zenon DEF handle, Good
<1> QED BY <1>2, <1>3

\* Request k is the last acceptable one of s.
Latest(s, k) ==
    /\ k \in 1..Len(s) /\ Good(s[k])
    /\ \A j \in 1..Len(s) : Good(s[j]) => j <= k

NameInv ==
    \/ username = <<>> /\ \A k \in 1..Len(asked) : ~Good(asked[k])
    \/ \E k \in 1..Len(asked) : Latest(asked, k) /\ username = asked[k].body

\* There is one last request, so it is the one LastGoodName chooses.
LEMMA NameChosen == AskedInv /\ NameInv => LastGoodName
<1> SUFFICES ASSUME AskedInv, NameInv PROVE LastGoodName
  OBVIOUS
<1>1. Len(asked) \in Nat
  BY DEF AskedInv
<1>2. PICK good : good = {k \in 1..Len(asked) : Good(asked[k])}
  OBVIOUS
<1>3. SUFFICES username = IF good = {} THEN <<>>
                          ELSE asked[CHOOSE k \in good : \A j \in good : j <= k].body
  BY <1>2 DEF LastGoodName
<1>4. CASE username = <<>> /\ \A k \in 1..Len(asked) : ~Good(asked[k])
  <2>1. good = {}
    BY <1>2, <1>4, Zenon
  <2> QED BY <1>4, <2>1, Zenon
<1>5. ASSUME NEW k \in 1..Len(asked), Latest(asked, k), username = asked[k].body
      PROVE  username = IF good = {} THEN <<>>
                        ELSE asked[CHOOSE i \in good : \A j \in good : j <= i].body
  <2>1. k \in good /\ \A j \in good : j <= k
    BY <1>2, <1>5, Zenon DEF Latest
  <2>2. PICK c : c = CHOOSE i \in good : \A j \in good : j <= i
    OBVIOUS
  <2>3. c \in good /\ \A j \in good : j <= c
    BY <2>1, <2>2, Zenon
  <2>4. c \in Int /\ k \in Int
    <3>1. c \in 1..Len(asked)
      BY <1>2, <2>3, Zenon
    <3> QED BY <1>1, <3>1
  <2>5. c <= k /\ k <= c
    BY <2>1, <2>3
  <2>6. c = k
    BY <2>4, <2>5
  <2>7. good # {}
    BY <2>1, Zenon
  <2> QED BY <1>5, <2>2, <2>6, <2>7, Zenon
<1> QED BY <1>4, <1>5, Zenon DEF NameInv

\* An acceptable request is the last one from then on, any other leaves the
\* name with the one that was.
LEMMA NameGrows ==
    ASSUME AskedInv, NameInv, NEW req \in Asks(Len(asked) + 1), handle(req),
           asked' = Append(asked, req)
    PROVE  NameInv'
<1>1. /\ Len(asked) \in Nat /\ Len(asked') = Len(asked) + 1
      /\ asked'[Len(asked) + 1] = req
      /\ \A k \in 1..Len(asked) : asked'[k] = asked[k]
  BY AskedGrows, Zenon
<1>2. PICK l \in Nat : l = Len(asked)
  BY <1>1, Zenon
<1>3. l + 1 \in Int /\ l + 1 \in 1..(l + 1)
  BY <1>2
<1>4. username' = IF Good(req) THEN req.body ELSE username
  BY <1>2, <1>3, HandleName, Zenon
<1>5. \A k \in 1..(l + 1) : k \in 1..l \/ k = l + 1
  BY <1>2
<1>6. \A k \in 1..(l + 1) : k <= l + 1
  BY <1>2
<1>7. \A k \in 1..l : k \in 1..(l + 1)
  BY <1>2
<1>8. PICK s : s = asked'
  OBVIOUS
<1>9. /\ Len(s) = l + 1 /\ s[l + 1] = req
      /\ \A k \in 1..l : s[k] = asked[k]
  BY <1>1, <1>2, <1>8, Zenon
<1>10. SUFFICES \/ username' = <<>> /\ \A k \in 1..Len(s) : ~Good(s[k])
                \/ \E k \in 1..Len(s) : Latest(s, k) /\ username' = s[k].body
  BY <1>8, Zenon DEF NameInv, Latest
<1>11. CASE Good(req)
  <2>1. Latest(s, l + 1)
    BY <1>3, <1>6, <1>9, <1>11, Zenon DEF Latest
  <2> QED BY <1>3, <1>4, <1>9, <1>11, <2>1, Zenon
<1>12. CASE ~Good(req)
  <2>1. username' = username
    BY <1>4, <1>12, Zenon
  <2>2. CASE username = <<>> /\ \A k \in 1..l : ~Good(asked[k])
    <3>1. \A k \in 1..Len(s) : ~Good(s[k])
      BY <1>5, <1>9, <1>12, <2>2, Zenon
    <3> QED BY <2>1, <2>2, <3>1, Zenon
  <2>3. ASSUME NEW k \in 1..l, Latest(asked, k), username = asked[k].body
        PROVE  Latest(s, k) /\ username' = s[k].body /\ k \in 1..Len(s)
    <3>1. \A j \in 1..Len(s) : Good(s[j]) => j \in 1..l /\ Good(asked[j])
      BY <1>5, <1>9, <1>12, Zenon
    <3>2. \A j \in 1..l : Good(asked[j]) => j <= k
      BY <1>2, <2>3, Zenon DEF Latest
    <3> QED BY <1>2, <1>7, <1>9, <2>1, <2>3, <3>1, <3>2, Zenon DEF Latest
  <2> QED BY <1>2, <2>2, <2>3, Zenon DEF NameInv
<1> QED BY <1>11, <1>12

LEMMA NameNext == AskedInv /\ NameInv /\ [Next]_vars => NameInv'
<1> SUFFICES ASSUME AskedInv, NameInv, [Next]_vars PROVE NameInv'
  OBVIOUS
<1>1. CASE handle_recv
  <2>1. PICK req \in Asks(Len(asked) + 1) : handle(req) /\ asked' = Append(asked, req)
    BY <1>1, Zenon DEF handle_recv
  <2> QED BY <2>1, NameGrows, Zenon
<1>2. CASE UNCHANGED <<username, asked>>
  BY <1>2, Zenon DEF NameInv, Latest
<1> QED
  BY <1>1, <1>2 DEF Next, KernelSend, handle_send, op_failed, vars

\* The name is that of the last acceptable request, whole, whatever lengths the
\* client has sent before and after it.
THEOREM SessionLastGoodName == Spec => []LastGoodName
<1>1. Init => NameInv
  BY DEF Init, NameInv
<1> QED BY <1>1, NameChosen, NameNext, AskedInit, AskedNext, PTL DEF Spec

-----------------------------------------------------------------------------
(* The stream.                                                             *)

\* How many of the first m bytes of w are of response k.
Count(w, m, k) == Cardinality({j \in 1..m : w[j].of = k})

LEMMA CountNat ==
    ASSUME NEW w, NEW m \in Nat, NEW k
    PROVE  IsFiniteSet({j \in 1..m : w[j].of = k}) /\ Count(w, m, k) \in Nat
<1>1. IsFiniteSet(1..m)
  BY FS_Interval
<1>2. {j \in 1..m : w[j].of = k} \in SUBSET (1..m)
  OBVIOUS
<1>3. IsFiniteSet({j \in 1..m : w[j].of = k})
  BY <1>1, <1>2, FS_Subset, Zenon
<1> QED BY <1>3, FS_CardinalityType, Zenon DEF Count

\* The first m bytes of v are those of w.
Same(v, w, m) == \A j \in 1..m : v[j] = w[j]

\* The n bytes of v behind the first l are of response k.
Block(v, l, n, k) == \A j \in (l + 1)..(l + n) : v[j].of = k

\* After n more bytes than the first m of w, all of response k.
CountsOn(v, w, m, n, k) ==
    /\ Count(v, m + n, k) = Count(w, m, k) + n
    /\ \A i : i # k => Count(v, m + n, i) = Count(w, m, i)

SameCounts(v, w, m) == \A k : Count(v, m, k) = Count(w, m, k)

\* What comes behind does not matter.
LEMMA CountKept ==
    ASSUME NEW w, NEW v, NEW m, Same(v, w, m)
    PROVE  SameCounts(v, w, m)
<1> SUFFICES ASSUME NEW k PROVE Count(v, m, k) = Count(w, m, k)
  BY DEF SameCounts
<1>1. {j \in 1..m : v[j].of = k} = {j \in 1..m : w[j].of = k}
  <2>1. \A j \in 1..m : v[j].of = w[j].of
    BY Zenon DEF Same
  <2> QED BY <2>1, Zenon
<1> QED BY <1>1, Zenon DEF Count

\* A piece of n bytes of response k behind the first l.
LEMMA CountPiece ==
    ASSUME NEW v, NEW l \in Nat, NEW n \in Nat, NEW k, Block(v, l, n, k)
    PROVE  CountsOn(v, v, l, n, k)
<1>1. \A j \in 1..(l + n) : j \in 1..l \/ j \in (l + 1)..(l + n)
  OBVIOUS
<1>2. /\ \A j \in 1..l : j \in 1..(l + n) /\ j \notin (l + 1)..(l + n)
      /\ \A j \in (l + 1)..(l + n) : j \in 1..(l + n)
  OBVIOUS
<1>3. PICK A : A = {j \in 1..l : v[j].of = k}
  OBVIOUS
<1>4. PICK B : B = (l + 1)..(l + n)
  OBVIOUS
<1>5. IsFiniteSet(A) /\ Cardinality(A) = Count(v, l, k) /\ Count(v, l, k) \in Nat
  <2>1. IsFiniteSet({j \in 1..l : v[j].of = k}) /\ Count(v, l, k) \in Nat
    BY CountNat, Zenon
  <2> QED BY <1>3, <2>1, Zenon DEF Count
<1>6. IsFiniteSet(B) /\ Cardinality(B) = n
  <2>1. l + 1 \in Int /\ l + n \in Int
    OBVIOUS
  <2>2. /\ IsFiniteSet((l + 1)..(l + n))
        /\ Cardinality((l + 1)..(l + n)) =
               IF l + 1 > l + n THEN 0 ELSE (l + n) - (l + 1) + 1
    BY <2>1, FS_Interval, Zenon
  <2>3. (IF l + 1 > l + n THEN 0 ELSE (l + n) - (l + 1) + 1) = n
    OBVIOUS
  <2> QED BY <1>4, <2>2, <2>3, Zenon
<1>7. {j \in 1..(l + n) : v[j].of = k} = A \cup B
  BY <1>1, <1>2, <1>3, <1>4, Zenon DEF Block
<1>8. A \cap B = {}
  BY <1>2, <1>3, <1>4, Zenon
<1>9. Cardinality(A \cup B) = Cardinality(A) + Cardinality(B) - Cardinality(A \cap B)
  BY <1>5, <1>6, FS_Union, Zenon
<1>10. Cardinality(A \cap B) = 0
  BY <1>8, FS_EmptySet, Zenon
<1>11. Cardinality(A \cup B) = Count(v, l, k) + n
  BY <1>5, <1>6, <1>9, <1>10
<1>12. Count(v, l + n, k) = Count(v, l, k) + n
  BY <1>7, <1>11, Zenon DEF Count
<1>13. ASSUME NEW i, i # k PROVE Count(v, l + n, i) = Count(v, l, i)
  <2>1. {j \in 1..(l + n) : v[j].of = i} = {j \in 1..l : v[j].of = i}
    BY <1>1, <1>2, <1>13, Zenon DEF Block
  <2> QED BY <2>1, Zenon DEF Count
<1> QED BY <1>12, <1>13, Zenon DEF CountsOn

Piped == [of : Int, byte : Int]

OpRec == [buf : Seq(Int), processed : Nat, res : Nat, at : {"kernel", "cq", "free"}]

\* An Operation of whose response n bytes were written: they are the ones it
\* has processed and, once the write is in the completion queue, its result.
OpSound(op, n, ph) ==
    /\ op \in OpRec
    /\ Len(op.buf) <= SmallCap
    /\ n <= Len(op.buf)
    /\ op.at = "kernel" => n = op.processed
    /\ op.at = "cq" => n = op.processed + op.res
    /\ op.at = "free" => ph = "closed" \/ n = Len(op.buf)

\* Byte i of the stream w is the next one of its response at that point.
ByteSound(o, w, i) ==
    /\ w[i].of \in DOMAIN o
    /\ w[i].byte = o[w[i].of].buf[Count(w, i, w[i].of)]

\* The responses o of the first l requests and the stream w.
StreamSound(o, w, l, ph) ==
    /\ w \in Seq(Piped)
    /\ o = [k \in DOMAIN o |-> o[k]]
    /\ DOMAIN o \subseteq 1..l
    /\ \A k \in DOMAIN o : OpSound(o[k], Count(w, Len(w), k), ph)
    /\ \A i \in 1..Len(w) : ByteSound(o, w, i)

StreamInv == StreamSound(ops, wire, Len(asked), phase)

\* An Operation goes on to its next state with the same buffer; the client may
\* be dropped with it.
LEMMA StreamReplaced ==
    ASSUME NEW o, NEW w, NEW l, NEW ph, NEW nph, StreamSound(o, w, l, ph),
           ph = "closed" => nph = "closed",
           NEW k \in DOMAIN o, NEW op, op.buf = o[k].buf,
           OpSound(op, Count(w, Len(w), k), nph),
           NEW p, p = [o EXCEPT ![k] = op]
    PROVE  StreamSound(p, w, l, nph)
<1>1. /\ w \in Seq(Piped) /\ o = [j \in DOMAIN o |-> o[j]] /\ DOMAIN o \subseteq 1..l
      /\ \A j \in DOMAIN o : OpSound(o[j], Count(w, Len(w), j), ph)
      /\ \A i \in 1..Len(w) : ByteSound(o, w, i)
  BY Zenon DEF StreamSound
<1>2. p = [j \in DOMAIN o |-> IF j = k THEN op ELSE o[j]]
  BY <1>1
<1>3. DOMAIN p = DOMAIN o /\ p = [j \in DOMAIN p |-> p[j]]
  BY <1>2
<1>4. p[k] = op /\ \A j \in DOMAIN o : j # k => p[j] = o[j]
  BY <1>2
<1>5. ASSUME NEW j \in DOMAIN p PROVE OpSound(p[j], Count(w, Len(w), j), nph)
  <2>1. CASE j = k
    BY <1>4, <2>1, Zenon
  <2>2. CASE j # k
    <3>1. OpSound(o[j], Count(w, Len(w), j), nph)
      BY <1>1, <1>3, Zenon DEF OpSound
    <3> QED BY <1>3, <1>4, <2>2, <3>1, Zenon
  <2> QED BY <2>1, <2>2
<1>6. \A j \in DOMAIN o : p[j].buf = o[j].buf
  BY <1>4, Zenon
<1>7. \A i \in 1..Len(w) : ByteSound(p, w, i)
  BY <1>1, <1>3, <1>6, Zenon DEF ByteSound
<1> QED BY <1>1, <1>3, <1>5, <1>7, Zenon DEF StreamSound

AllInt(s, n) == \A i \in 1..n : s[i] \in Int

\* What is left of a buffer of which c bytes were written.
LEMMA RestOf ==
    ASSUME NEW b \in Seq(Int), NEW c \in Nat, c <= Len(b)
    PROVE  /\ Len(SubSeq(b, c + 1, Len(b))) = Len(b) - c
           /\ \A i \in 1..(Len(b) - c) :
                  /\ SubSeq(b, c + 1, Len(b))[i] = b[c + i]
                  /\ SubSeq(b, c + 1, Len(b))[i] \in Int
<1>1. PICK m \in Nat : m = Len(b)
  OBVIOUS
<1>2. CASE c = m
  <2>1. SubSeq(b, c + 1, Len(b)) = << >>
    BY <1>1, <1>2, SubSeqProperties
  <2>2. Len(b) - c = 0 /\ Len(<< >>) = 0
    BY <1>1, <1>2
  <2> QED BY <2>1, <2>2
<1>3. CASE c < m
  <2>1. c + 1 \in 1..Len(b) /\ Len(b) \in (c + 1)..Len(b)
    BY <1>1, <1>3
  <2>2. PICK left : left = SubSeq(b, c + 1, Len(b))
    OBVIOUS
  <2>3. /\ left \in Seq(Int) /\ Len(left) = Len(b) - (c + 1) + 1
        /\ \A i \in 1..(Len(b) - (c + 1) + 1) : left[i] = b[c + 1 + i - 1]
    BY <2>1, <2>2, Piece
  <2>4. Len(left) = Len(b) - c
    BY <1>1, <2>3
  <2>5. ASSUME NEW i \in 1..(Len(b) - c) PROVE left[i] = b[c + i] /\ left[i] \in Int
    <3>1. i \in 1..(Len(b) - (c + 1) + 1) /\ c + 1 + i - 1 = c + i
      BY <1>1
    <3>2. left[i] = b[c + i]
      BY <2>3, <3>1
    <3>3. c + i \in 1..Len(b)
      BY <1>1
    <3>4. b[c + i] \in Int
      BY <3>3, ElementOfSeq
    <3> QED BY <3>2, <3>4
  <2> QED BY <2>2, <2>4, <2>5
<1> QED BY <1>1, <1>2, <1>3

\* v is w and behind it n bytes of response k, of which left begins.
Extends(v, w, n, k, left) ==
    /\ v \in Seq(Piped) /\ Len(v) = Len(w) + n
    /\ Same(v, w, Len(w)) /\ Block(v, Len(w), n, k)
    /\ \A i \in 1..n : v[Len(w) + i].byte = left[i]

LEMMA Behind ==
    ASSUME NEW w \in Seq(Piped), NEW k \in Int, NEW n \in Nat, NEW left,
           AllInt(left, n), NEW v,
           v = w \o [i \in 1..n |-> [of |-> k, byte |-> left[i]]]
    PROVE  Extends(v, w, n, k, left)
<1>1. PICK t : t = [i \in 1..n |-> [of |-> k, byte |-> left[i]]]
  OBVIOUS
<1>2. \A i \in 1..n : [of |-> k, byte |-> left[i]] \in Piped
  BY DEF Piped, AllInt
<1>3. /\ t \in Seq(Piped) /\ Len(t) = n
      /\ \A i \in 1..n : t[i] = [of |-> k, byte |-> left[i]]
  BY <1>1, <1>2
<1>4. v = w \o t
  BY <1>1, Zenon
<1>5. /\ v \in Seq(Piped) /\ Len(v) = Len(w) + Len(t)
      /\ \A i \in 1..Len(w) + Len(t) :
             v[i] = IF i <= Len(w) THEN w[i] ELSE t[i - Len(w)]
  BY <1>3, <1>4, ConcatProperties
<1>6. PICK m \in Nat : m = Len(w)
  OBVIOUS
<1>7. ASSUME NEW j \in 1..m PROVE v[j] = w[j]
  <2>1. j \in 1..Len(w) + Len(t) /\ j <= Len(w)
    BY <1>3, <1>6
  <2> QED BY <1>5, <2>1, Zenon
<1>8. ASSUME NEW i \in 1..n PROVE v[m + i].of = k /\ v[m + i].byte = left[i]
  <2>1. PICK q : q = m + i
    OBVIOUS
  <2>2. q \in 1..Len(w) + Len(t) /\ ~(q <= Len(w)) /\ q - Len(w) = i
    BY <1>3, <1>6, <2>1
  <2>3. v[q] = t[i]
    BY <1>5, <2>2, Zenon
  <2>4. t[i].of = k /\ t[i].byte = left[i]
    BY <1>3
  <2> QED BY <2>1, <2>3, <2>4, Zenon
<1>9. Len(v) = Len(w) + n
  BY <1>3, <1>5, Zenon
<1>10. Same(v, w, Len(w))
  BY <1>6, <1>7, Zenon DEF Same
<1>11. ASSUME NEW j \in (m + 1)..(m + n) PROVE v[j].of = k
  <2>1. j - m \in 1..n /\ m + (j - m) = j
    OBVIOUS
  <2>2. v[m + (j - m)].of = k
    BY <1>8, <2>1, Zenon
  <2> QED BY <2>1, <2>2, Zenon
<1>12. Block(v, Len(w), n, k)
  BY <1>6, <1>11, Zenon DEF Block
<1> QED BY <1>5, <1>6, <1>8, <1>9, <1>10, <1>12, Zenon DEF Extends

\* The count of each response after every byte of the piece.
LEMMA CountBehind ==
    ASSUME NEW w, NEW v, NEW m \in Nat, NEW n \in Nat, NEW k, NEW i \in 0..n,
           Same(v, w, m), Block(v, m, n, k)
    PROVE  CountsOn(v, w, m, i, k)
<1>1. SameCounts(v, w, m)
  BY CountKept, Zenon
<1>2. i \in Nat
  OBVIOUS
<1>3. Block(v, m, i, k)
  <2>1. \A j \in (m + 1)..(m + i) : j \in (m + 1)..(m + n)
    OBVIOUS
  <2> QED BY <2>1, Zenon DEF Block
<1>4. CountsOn(v, v, m, i, k)
  BY <1>2, <1>3, CountPiece, Zenon
<1> QED BY <1>1, <1>4, Zenon DEF CountsOn, SameCounts

\* A piece of the buffer is written: its bytes are the next ones.
Written(o, w, k, v, p) ==
    /\ o[k].at = "kernel"
    /\ LET left == SubSeq(o[k].buf, o[k].processed + 1, Len(o[k].buf))
       IN  \E n \in 0..Len(left) :
               /\ v = w \o [i \in 1..n |-> [of |-> k, byte |-> left[i]]]
               /\ p = [o EXCEPT ![k] = [@ EXCEPT !.at = "cq", !.res = n]]

LEMMA StreamWritten ==
    ASSUME NEW o, NEW w, NEW l \in Nat, NEW ph, StreamSound(o, w, l, ph),
           NEW k \in DOMAIN o, NEW v, NEW p, Written(o, w, k, v, p)
    PROVE  StreamSound(p, v, l, ph)
<1>1. PICK left : left = SubSeq(o[k].buf, o[k].processed + 1, Len(o[k].buf))
  OBVIOUS
<1>2. PICK n \in 0..Len(left) :
          /\ v = w \o [i \in 1..n |-> [of |-> k, byte |-> left[i]]]
          /\ p = [o EXCEPT ![k] = [@ EXCEPT !.at = "cq", !.res = n]]
  BY <1>1, Zenon DEF Written
<1>3. o[k].at = "kernel"
  BY Zenon DEF Written
<1>4. /\ w \in Seq(Piped) /\ o = [j \in DOMAIN o |-> o[j]] /\ DOMAIN o \subseteq 1..l
      /\ \A j \in DOMAIN o : OpSound(o[j], Count(w, Len(w), j), ph)
      /\ \A i \in 1..Len(w) : ByteSound(o, w, i)
  BY Zenon DEF StreamSound
<1>5. PICK op : op = o[k]
  OBVIOUS
<1>6. PICK b : b = op.buf
  OBVIOUS
<1>7. PICK c : c = op.processed
  OBVIOUS
<1>8. /\ op \in OpRec /\ b \in Seq(Int) /\ c \in Nat /\ Len(b) <= SmallCap
      /\ Count(w, Len(w), k) = c /\ c <= Len(b)
  <2>1. OpSound(op, Count(w, Len(w), k), ph) /\ op.at = "kernel"
    BY <1>3, <1>4, <1>5, Zenon
  <2>2. op.buf \in Seq(Int) /\ op.processed \in Nat
    BY <2>1 DEF OpSound, OpRec
  <2> QED BY <1>6, <1>7, <2>1, <2>2, Zenon DEF OpSound
<1>9. left = SubSeq(b, c + 1, Len(b))
  BY <1>1, <1>5, <1>6, <1>7, Zenon
<1>10. PICK d \in Nat : d = Len(b)
  BY <1>8, LenProperties
<1>11. Len(left) = d - c /\ \A i \in 1..(d - c) : left[i] = b[c + i] /\ left[i] \in Int
  BY <1>8, <1>9, <1>10, RestOf, Zenon
<1>12. n \in Nat /\ n <= d - c /\ \A i \in 1..n : i \in 1..(d - c)
  <2>1. n \in 0..(d - c)
    BY <1>11, Zenon
  <2> HIDE <1>11
  <2> QED BY <1>8, <1>10, <2>1
<1>13. \A i \in 1..n : left[i] = b[c + i] /\ left[i] \in Int
  BY <1>11, <1>12, Zenon
<1>14. PICK m \in Nat : m = Len(w)
  BY <1>4, LenProperties
<1>15. /\ v \in Seq(Piped) /\ Len(v) = m + n
       /\ Same(v, w, m) /\ Block(v, m, n, k)
       /\ \A i \in 1..n : v[m + i].byte = left[i]
  <2>1. k \in Int
    BY <1>4
  <2>2. AllInt(left, n)
    BY <1>13, Zenon DEF AllInt
  <2>3. Extends(v, w, n, k, left)
    BY <1>2, <1>4, <1>12, <2>1, <2>2, Behind, Zenon
  <2> QED BY <1>14, <2>3, Zenon DEF Extends
<1>16. \A i \in 0..n : /\ Count(v, m + i, k) = c + i
                       /\ \A j : j # k => Count(v, m + i, j) = Count(w, m, j)
  <2>1. TAKE i \in 0..n
  <2>2. CountsOn(v, w, m, i, k)
    BY <1>12, <1>15, CountBehind, Zenon
  <2> QED BY <1>8, <1>14, <2>2, Zenon DEF CountsOn
<1>17. PICK nop : nop = [op EXCEPT !.at = "cq", !.res = n]
  OBVIOUS
<1>18. nop \in OpRec /\ nop.buf = b /\ nop.processed = c /\ nop.res = n /\ nop.at = "cq"
  BY <1>6, <1>7, <1>8, <1>12, <1>17 DEF OpRec
<1>19. p = [j \in DOMAIN o |-> IF j = k THEN nop ELSE o[j]]
  BY <1>2, <1>4, <1>5, <1>17
<1>20. /\ DOMAIN p = DOMAIN o /\ p = [j \in DOMAIN p |-> p[j]]
       /\ p[k] = nop /\ \A j \in DOMAIN o : j # k => p[j] = o[j]
  BY <1>19
<1>21. ASSUME NEW j \in DOMAIN p PROVE OpSound(p[j], Count(v, Len(v), j), ph)
  <2>1. n \in 0..n /\ Len(v) = m + n
    BY <1>12, <1>15
  <2>2. CASE j = k
    <3>1. Count(v, Len(v), k) = c + n
      BY <1>16, <2>1, Zenon
    <3>2. c + n <= Len(b)
      BY <1>8, <1>10, <1>12
    <3>3. OpSound(nop, c + n, ph)
      <4>1. nop.at # "kernel" /\ nop.at # "free"
        BY <1>18
      <4> QED BY <1>8, <1>18, <3>2, <4>1, Zenon DEF OpSound
    <3> QED BY <1>20, <2>2, <3>1, <3>3, Zenon
  <2>3. CASE j # k
    <3>1. Count(v, Len(v), j) = Count(w, Len(w), j)
      BY <1>14, <1>16, <2>1, <2>3, Zenon
    <3> QED BY <1>4, <1>20, <2>3, <3>1, Zenon
  <2> QED BY <2>2, <2>3
<1>22. \A j \in DOMAIN o : p[j].buf = o[j].buf
  BY <1>5, <1>6, <1>18, <1>20, Zenon
<1>23. ASSUME NEW i \in 1..Len(v) PROVE ByteSound(p, v, i)
  <2>1. i \in 1..m \/ \E q \in 1..n : i = m + q
    <3>1. i \in 1..m \/ (i - m \in 1..n /\ i = m + (i - m))
      BY <1>12, <1>14, <1>15
    <3> QED BY <3>1
  <2>2. CASE i \in 1..m
    <3>1. v[i] = w[i] /\ ByteSound(o, w, i)
      BY <1>4, <1>14, <1>15, <2>2, Zenon DEF Same
    <3>2. \A j \in 1..i : j \in 1..m
      BY <2>2
    <3>3. Same(v, w, i)
      BY <1>15, <3>2, Zenon DEF Same
    <3>4. SameCounts(v, w, i)
      BY <3>3, CountKept, Zenon
    <3>5. Count(v, i, w[i].of) = Count(w, i, w[i].of)
      BY <3>4, Zenon DEF SameCounts
    <3> QED BY <1>20, <1>22, <3>1, <3>5, Zenon DEF ByteSound
  <2>3. ASSUME NEW q \in 1..n, i = m + q PROVE ByteSound(p, v, i)
    <3>1. v[i].of = k /\ v[i].byte = b[c + q]
      <4>1. m + q \in (m + 1)..(m + n)
        BY <1>12
      <4> QED BY <1>13, <1>15, <2>3, <4>1, Zenon DEF Block
    <3>2. q \in 0..n
      BY <1>12
    <3>3. Count(v, i, k) = c + q
      BY <1>16, <2>3, <3>2, Zenon
    <3> QED BY <1>18, <1>20, <3>1, <3>3, Zenon DEF ByteSound
  <2> QED BY <2>1, <2>2, <2>3, Zenon
<1> QED BY <1>4, <1>15, <1>20, <1>21, <1>23, Zenon DEF StreamSound

\* A response fits its buffer.
Fits(buf) == buf \in Seq(Int) /\ Len(buf) <= SmallCap

LEMMA ResponseFits ==
    ASSUME NEW id \in Seq(Int), Len(id) = 8
    PROVE  /\ Fits(ser_set_username_response(id))
           /\ \A code \in Int : Fits(ser_server_error(id, code))
<1>1. /\ HdrLen \in Uint16 /\ ErrorLen \in Uint16
      /\ MSGT_SET_USERNAME_RESPONSE \in Int /\ MSGT_SERVER_ERROR \in Int
  <2>1. /\ HdrLen \in Nat /\ HdrLen <= 2048 /\ ErrorLen \in Nat /\ ErrorLen <= 2048
        /\ MSGT_SET_USERNAME_RESPONSE \in Int /\ MSGT_SERVER_ERROR \in Int
    BY DEF HdrLen, ErrorLen, MSGT_SET_USERNAME_RESPONSE, MSGT_SERVER_ERROR
  <2> QED BY <2>1, ShortLength
<1>2. ASSUME NEW n \in Uint16, NEW t \in Int
      PROVE  Header(n, t, id) \in Seq(Int) /\ Len(Header(n, t, id)) = 11
  BY HeaderBytes
<1>3. Fits(ser_set_username_response(id))
  <2>1. PICK h : h = Header(HdrLen, MSGT_SET_USERNAME_RESPONSE, id)
    OBVIOUS
  <2>2. h \in Seq(Int) /\ Len(h) = 11
    BY <1>1, <1>2, <2>1, Zenon
  <2>3. 11 <= SmallCap
    BY DEF SmallCap
  <2> QED BY <2>1, <2>2, <2>3, Zenon DEF ser_set_username_response, Fits
<1>4. ASSUME NEW code \in Int PROVE Fits(ser_server_error(id, code))
  <2>1. PICK h : h = Header(ErrorLen, MSGT_SERVER_ERROR, id)
    OBVIOUS
  <2>2. h \in Seq(Int) /\ Len(h) = 11
    BY <1>1, <1>2, <2>1, Zenon
  <2>3. <<code>> \in Seq(Int) /\ Len(<<code>>) = 1
    OBVIOUS
  <2>4. h \o <<code>> \in Seq(Int) /\ Len(h \o <<code>>) = Len(h) + Len(<<code>>)
    BY <2>2, <2>3, Joined
  <2>5. Len(h \o <<code>>) <= SmallCap
    BY <2>2, <2>3, <2>4 DEF SmallCap
  <2> QED BY <2>1, <2>4, <2>5, Zenon DEF ser_server_error, Fits
<1> QED BY <1>3, <1>4

\* The Operation of a new response: nothing of it was written.
LEMMA NewOperation ==
    ASSUME NEW buf, Fits(buf), NEW ph
    PROVE  OpSound([buf |-> buf, processed |-> 0, res |-> 0, at |-> "kernel"], 0, ph)
<1>1. PICK op : op = [buf |-> buf, processed |-> 0, res |-> 0, at |-> "kernel"]
  OBVIOUS
<1>2. op \in OpRec /\ op.buf = buf /\ op.processed = 0 /\ op.at = "kernel"
  BY <1>1 DEF Fits, OpRec
<1>3. Len(buf) <= SmallCap /\ 0 <= Len(buf)
  <2>1. buf \in Seq(Int) /\ Len(buf) <= SmallCap
    BY Zenon DEF Fits
  <2>2. Len(buf) \in Nat
    BY <2>1
  <2> QED BY <2>1, <2>2
<1>4. op.at # "cq" /\ op.at # "free"
  BY <1>2
<1>5. OpSound(op, 0, ph)
  BY <1>2, <1>3, <1>4, Zenon DEF OpSound
<1> QED BY <1>1, <1>5, Zenon

Added(o, l, buf, p) ==
    p = [k \in DOMAIN o \cup {l + 1} |->
            IF k \in DOMAIN o THEN o[k]
            ELSE [buf |-> buf, processed |-> 0, res |-> 0, at |-> "kernel"]]

LEMMA StreamAdded ==
    ASSUME NEW o, NEW w, NEW l \in Nat, NEW ph, NEW nph, StreamSound(o, w, l, ph),
           ph = "closed" => nph = "closed", NEW buf, Fits(buf), NEW p, Added(o, l, buf, p)
    PROVE  StreamSound(p, w, l + 1, nph)
<1> PICK op : op = [buf |-> buf, processed |-> 0, res |-> 0, at |-> "kernel"]
  OBVIOUS
<1>0. p = [k \in DOMAIN o \cup {l + 1} |-> IF k \in DOMAIN o THEN o[k] ELSE op]
  BY Zenon DEF Added
<1>1. /\ w \in Seq(Piped) /\ o = [j \in DOMAIN o |-> o[j]] /\ DOMAIN o \subseteq 1..l
      /\ \A j \in DOMAIN o : OpSound(o[j], Count(w, Len(w), j), ph)
      /\ \A i \in 1..Len(w) : ByteSound(o, w, i)
  BY Zenon DEF StreamSound
<1>2. l + 1 \notin 1..l /\ \A j \in 1..l : j \in 1..(l + 1)
  OBVIOUS
<1>3. l + 1 \in 1..(l + 1)
  OBVIOUS
<1>4. l + 1 \notin DOMAIN o
  BY <1>1, <1>2, Zenon
<1>5. /\ DOMAIN p = DOMAIN o \cup {l + 1} /\ p = [j \in DOMAIN p |-> p[j]]
      /\ p[l + 1] = op /\ \A j \in DOMAIN o : p[j] = o[j]
  BY <1>0, <1>4, Zenon
<1>6. DOMAIN p \subseteq 1..(l + 1)
  BY <1>1, <1>2, <1>3, <1>5, Zenon
<1>7. Count(w, Len(w), l + 1) = 0
  <2>1. {j \in 1..Len(w) : w[j].of = l + 1} = {}
    BY <1>1, <1>4, Zenon DEF ByteSound
  <2> QED BY <2>1, FS_EmptySet, Zenon DEF Count
<1>8. OpSound(op, 0, nph)
  BY NewOperation, Zenon
<1>9. ASSUME NEW j \in DOMAIN p PROVE OpSound(p[j], Count(w, Len(w), j), nph)
  <2>1. CASE j = l + 1
    BY <1>5, <1>7, <1>8, <2>1, Zenon
  <2>2. CASE j \in DOMAIN o
    <3>1. OpSound(o[j], Count(w, Len(w), j), nph)
      BY <1>1, <2>2, Zenon DEF OpSound
    <3> QED BY <1>5, <2>2, <3>1, Zenon
  <2> QED BY <1>5, <2>1, <2>2, Zenon
<1>10. \A i \in 1..Len(w) : ByteSound(p, w, i)
  BY <1>1, <1>5, Zenon DEF ByteSound
<1> QED BY <1>1, <1>5, <1>6, <1>9, <1>10, Zenon DEF StreamSound

\* A request that has no response.
LEMMA StreamClosed ==
    ASSUME NEW o, NEW w, NEW l \in Nat, NEW ph, StreamSound(o, w, l, ph)
    PROVE  StreamSound(o, w, l + 1, "closed")
<1>1. \A j \in 1..l : j \in 1..(l + 1)
  OBVIOUS
<1>2. DOMAIN o \subseteq 1..(l + 1)
  BY <1>1, Zenon DEF StreamSound
<1>3. \A j \in DOMAIN o : OpSound(o[j], Count(w, Len(w), j), "closed")
  BY Zenon DEF StreamSound, OpSound
<1> QED BY <1>2, <1>3, Zenon DEF StreamSound

\* The request that has been handled has its response in the stream to come,
\* or the client is dropped.
LEMMA HandleStream ==
    ASSUME NEW l \in Nat, NEW req \in Asks(l + 1), handle(req), l = Len(asked),
           phase = "open", StreamSound(ops, wire, l, phase)
    PROVE  StreamSound(ops', wire, l + 1, phase')
<1>1. PICK hdr : hdr = deser_header(req.frame)
  OBVIOUS
<1>2. hdr.seqid \in Seq(Int) /\ Len(hdr.seqid) = 8
  <2>1. l + 1 \in Int
    OBVIOUS
  <2>2. hdr.seqid = SeqId(l + 1)
    BY <1>1, <2>1, AskDecoded, Zenon DEF Decoded
  <2>3. SeqId(l + 1) \in Seq(Int) /\ Len(SeqId(l + 1)) = 8
    BY <2>1, SeqIdBytes
  <2> QED BY <2>2, <2>3, Zenon
<1>3. \/ phase' = "closed" /\ ops' = ops
      \/ \E buf : Fits(buf) /\ add_send(buf)
  <2>1. \/ phase' = "closed" /\ ops' = ops
        \/ add_send(ser_server_error(hdr.seqid, CODE_INVALID_MSG_LEN))
        \/ add_send(ser_server_error(hdr.seqid, CODE_INVALID_USERNAME))
        \/ add_send(ser_set_username_response(hdr.seqid))
    BY <1>1, Zenon DEF handle
  <2>2. CODE_INVALID_MSG_LEN \in Int /\ CODE_INVALID_USERNAME \in Int
    BY DEF CODE_INVALID_MSG_LEN, CODE_INVALID_USERNAME
  <2>3. /\ Fits(ser_set_username_response(hdr.seqid))
        /\ \A code \in Int : Fits(ser_server_error(hdr.seqid, code))
    BY <1>2, ResponseFits, Zenon
  <2> QED BY <2>1, <2>2, <2>3, Zenon
<1>4. CASE phase' = "closed" /\ ops' = ops
  BY <1>4, StreamClosed, Zenon
<1>5. ASSUME NEW buf, Fits(buf), add_send(buf)
      PROVE  StreamSound(ops', wire, l + 1, phase')
  <2>1. Added(ops, l, buf, ops')
    BY <1>5, Zenon DEF add_send, Added
  <2>2. "open" # "closed"
    OBVIOUS
  <2>3. phase = "closed" => phase' = "closed"
    BY <2>2, Zenon
  <2> QED BY <1>5, <2>1, <2>3, StreamAdded, Zenon
<1> QED BY <1>3, <1>4, <1>5, Zenon

LEMMA SendStream ==
    ASSUME NEW l \in Nat, StreamSound(ops, wire, l, phase), NEW k \in DOMAIN ops,
           KernelSend(k)
    PROVE  StreamSound(ops', wire', l, phase')
<1>1. Written(ops, wire, k, wire', ops') /\ phase' = phase
  BY Zenon DEF KernelSend, Written
<1> QED BY <1>1, StreamWritten, Zenon

\* What the completion of a write does to its Operation.
LEMMA CompletionSound ==
    ASSUME NEW op, NEW n \in Nat, NEW ph, OpSound(op, n, ph), op.at = "cq"
    PROVE  /\ OpSound(resume_send(op), n, ph) /\ resume_send(op).buf = op.buf
           /\ ph = "closed" \/ ~(op.res < Len(op.buf) - op.processed) =>
                  /\ OpSound([op EXCEPT !.at = "free"], n, ph)
                  /\ [op EXCEPT !.at = "free"].buf = op.buf
<1>1. /\ op \in OpRec /\ Len(op.buf) <= SmallCap /\ n <= Len(op.buf)
      /\ n = op.processed + op.res
  BY Zenon DEF OpSound
<1>2. /\ op.processed \in Nat /\ op.res \in Nat /\ op.buf \in Seq(Int)
      /\ Len(op.buf) \in Nat
  BY <1>1 DEF OpRec
<1>3. PICK a : a = resume_send(op)
  OBVIOUS
<1>4. /\ a \in OpRec /\ a.buf = op.buf /\ a.at = "kernel"
      /\ a.processed = op.processed + op.res
  <2>1. op.processed + op.res \in Nat
    BY <1>2
  <2> QED BY <1>1, <1>3, <2>1 DEF resume_send, OpRec
<1>5. OpSound(a, n, ph)
  <2>1. a.at # "cq" /\ a.at # "free"
    BY <1>4
  <2> QED BY <1>1, <1>4, <2>1, Zenon DEF OpSound
<1>6. PICK f : f = [op EXCEPT !.at = "free"]
  OBVIOUS
<1>7. f \in OpRec /\ f.buf = op.buf /\ f.at = "free"
  BY <1>1, <1>6 DEF OpRec
<1>8. ASSUME ph = "closed" \/ ~(op.res < Len(op.buf) - op.processed)
      PROVE  OpSound(f, n, ph)
  <2>1. f.at # "kernel" /\ f.at # "cq"
    BY <1>7
  <2>2. ph = "closed" \/ n = Len(f.buf)
    BY <1>1, <1>2, <1>7, <1>8
  <2> QED BY <1>1, <1>7, <2>1, <2>2, Zenon DEF OpSound
<1> QED BY <1>3, <1>4, <1>5, <1>6, <1>7, <1>8, Zenon

LEMMA FailureSound ==
    ASSUME NEW op, NEW n, NEW ph, OpSound(op, n, ph)
    PROVE  /\ OpSound([op EXCEPT !.at = "free"], n, "closed")
           /\ [op EXCEPT !.at = "free"].buf = op.buf
<1>1. op \in OpRec /\ Len(op.buf) <= SmallCap /\ n <= Len(op.buf)
  BY Zenon DEF OpSound
<1>2. PICK f : f = [op EXCEPT !.at = "free"]
  OBVIOUS
<1>3. f \in OpRec /\ f.buf = op.buf /\ f.at = "free"
  BY <1>1, <1>2 DEF OpRec
<1>4. f.at # "kernel" /\ f.at # "cq"
  BY <1>3
<1>5. OpSound(f, n, "closed")
  BY <1>1, <1>3, <1>4, Zenon DEF OpSound
<1> QED BY <1>2, <1>3, <1>5, Zenon

LEMMA CompletionStream ==
    ASSUME NEW l \in Nat, StreamSound(ops, wire, l, phase), NEW k \in DOMAIN ops,
           handle_send(k)
    PROVE  StreamSound(ops', wire', l, phase')
<1>1. PICK n : n = Count(wire, Len(wire), k)
  OBVIOUS
<1>2. PICK op : op = ops[k]
  OBVIOUS
<1>3. OpSound(op, n, phase) /\ op.at = "cq" /\ wire' = wire /\ phase' = phase
  BY <1>1, <1>2, Zenon DEF StreamSound, handle_send
<1>4. n \in Nat
  <2>1. wire \in Seq(Piped)
    BY Zenon DEF StreamSound
  <2>2. Len(wire) \in Nat
    BY <2>1, LenProperties
  <2> QED BY <1>1, <2>2, CountNat, Zenon
<1>5. PICK nop : nop = IF op.res < Len(op.buf) - op.processed /\ phase # "closed"
                       THEN resume_send(op) ELSE [op EXCEPT !.at = "free"]
  OBVIOUS
<1>6. OpSound(nop, n, phase) /\ nop.buf = op.buf
  <2>1. /\ OpSound(resume_send(op), n, phase) /\ resume_send(op).buf = op.buf
        /\ phase = "closed" \/ ~(op.res < Len(op.buf) - op.processed) =>
               /\ OpSound([op EXCEPT !.at = "free"], n, phase)
               /\ [op EXCEPT !.at = "free"].buf = op.buf
    BY <1>3, <1>4, CompletionSound, Zenon
  <2> QED BY <1>5, <2>1, Zenon
<1>7. ops' = [ops EXCEPT ![k] = nop]
  BY <1>2, <1>5, Zenon DEF handle_send, op_is_incomplete
<1> QED BY <1>1, <1>2, <1>3, <1>6, <1>7, StreamReplaced, Zenon

LEMMA FailureStream ==
    ASSUME NEW l \in Nat, StreamSound(ops, wire, l, phase), NEW k \in DOMAIN ops,
           op_failed(k)
    PROVE  StreamSound(ops', wire', l, phase')
<1>1. PICK n : n = Count(wire, Len(wire), k)
  OBVIOUS
<1>2. PICK op : op = ops[k]
  OBVIOUS
<1>3. OpSound(op, n, phase) /\ wire' = wire /\ phase' = "closed"
  BY <1>1, <1>2, Zenon DEF StreamSound, op_failed
<1>4. PICK nop : nop = [op EXCEPT !.at = "free"]
  OBVIOUS
<1>5. OpSound(nop, n, phase') /\ nop.buf = op.buf
  BY <1>3, <1>4, FailureSound, Zenon
<1>6. ops' = [ops EXCEPT ![k] = nop]
  BY <1>2, <1>4, Zenon DEF op_failed
<1> QED BY <1>1, <1>2, <1>3, <1>5, <1>6, StreamReplaced, Zenon

LEMMA StreamNext == AskedInv /\ StreamInv /\ [Next]_vars => StreamInv'
<1> SUFFICES ASSUME AskedInv, StreamInv, [Next]_vars PROVE StreamInv'
  OBVIOUS
<1>1. PICK l \in Nat : l = Len(asked)
  BY DEF AskedInv
<1>2. StreamSound(ops, wire, l, phase)
  BY <1>1, Zenon DEF StreamInv
<1>3. SUFFICES StreamSound(ops', wire', Len(asked'), phase')
  BY Zenon DEF StreamInv, StreamSound, OpSound, ByteSound, Count, OpRec, Piped
<1>4. CASE handle_recv
  <2>1. PICK req \in Asks(Len(asked) + 1) : handle(req) /\ asked' = Append(asked, req)
    BY <1>4, Zenon DEF handle_recv
  <2>2. phase = "open" /\ wire' = wire
    BY <1>4, Zenon DEF handle_recv
  <2>3. StreamSound(ops', wire, l + 1, phase')
    BY <1>1, <1>2, <2>1, <2>2, HandleStream, Zenon
  <2>4. Len(asked') = l + 1
    BY <1>1, <2>1, AskedGrows, Zenon
  <2> QED BY <2>2, <2>3, <2>4, Zenon
<1>5. ASSUME NEW k \in DOMAIN ops, KernelSend(k) \/ handle_send(k) \/ op_failed(k)
      PROVE  StreamSound(ops', wire', Len(asked'), phase')
  <2>1. StreamSound(ops', wire', l, phase')
    BY <1>2, <1>5, SendStream, CompletionStream, FailureStream, Zenon
  <2>2. asked' = asked
    BY <1>5, Zenon DEF KernelSend, handle_send, op_failed
  <2> QED BY <1>1, <2>1, <2>2, Zenon
<1>6. CASE UNCHANGED vars
  <2>1. ops' = ops /\ wire' = wire /\ asked' = asked /\ phase' = phase
    BY <1>6 DEF vars
  <2> QED BY <1>1, <1>2, <2>1, Zenon
<1> QED BY <1>4, <1>5, <1>6, Zenon DEF Next

LEMMA StreamInit == Init => StreamInv
<1> SUFFICES ASSUME Init PROVE StreamInv
  OBVIOUS
<1>1. ops = << >> /\ wire = << >>
  BY DEF Init
<1>2. << >> \in Seq(Piped) /\ Len(<< >>) = 0 /\ DOMAIN << >> = {} /\ 1..0 = {}
  OBVIOUS
<1>3. ops = [k \in DOMAIN ops |-> ops[k]]
  BY <1>1
<1> QED BY <1>1, <1>2, <1>3, Zenon DEF StreamInv, StreamSound

\* However the writes of the responses are mixed and split, each byte of each
\* response is written once and in its order, and none is left unwritten while
\* the client is there.
THEOREM SessionBytesOnce == Spec => []BytesOnce
<1>1. StreamInv => BytesOnce
  <2> SUFFICES ASSUME StreamInv, NEW k \in DOMAIN ops
               PROVE  /\ Taken(k) <= Len(ops[k].buf) /\ Len(ops[k].buf) <= SmallCap
                      /\ \A i \in DOMAIN wire :
                             wire[i].of = k => wire[i].byte = ops[k].buf[Nth(i)]
                      /\ ops[k].at = "free" => phase = "closed" \/ ~Unfinished(k)
    BY Zenon DEF BytesOnce
  <2>1. /\ wire \in Seq(Piped) /\ OpSound(ops[k], Count(wire, Len(wire), k), phase)
        /\ \A i \in 1..Len(wire) : ByteSound(ops, wire, i)
    BY Zenon DEF StreamInv, StreamSound
  <2>2. DOMAIN wire = 1..Len(wire)
    BY <2>1
  <2>3. Taken(k) = Count(wire, Len(wire), k)
    BY <2>2, Zenon DEF Taken, Count
  <2>4. Taken(k) <= Len(ops[k].buf) /\ Len(ops[k].buf) <= SmallCap
    BY <2>1, <2>3, Zenon DEF OpSound
  <2>5. ASSUME NEW i \in DOMAIN wire, wire[i].of = k
        PROVE  wire[i].byte = ops[k].buf[Nth(i)]
    <3>1. ByteSound(ops, wire, i)
      BY <2>1, <2>2, Zenon
    <3>2. Nth(i) = Count(wire, i, wire[i].of)
      BY Zenon DEF Nth, Count
    <3> QED BY <2>5, <3>1, <3>2, Zenon DEF ByteSound
  <2>6. ASSUME ops[k].at = "free", phase # "closed" PROVE ~Unfinished(k)
    <3>1. Taken(k) = Len(ops[k].buf)
      BY <2>1, <2>3, <2>6, Zenon DEF OpSound
    <3>2. Len(ops[k].buf) \in Int
      BY <2>1 DEF OpSound, OpRec
    <3>3. ~(Taken(k) < Len(ops[k].buf))
      BY <3>1, <3>2
    <3> QED BY <3>3, Zenon DEF Unfinished
  <2> QED BY <2>4, <2>5, <2>6, Zenon
<1> QED BY <1>1, StreamInit, StreamNext, AskedInit, AskedNext, PTL DEF Spec

-----------------------------------------------------------------------------
(* The answers.                                                            *)

\* The response that the protocol has for request req with this seqid.
Reply(b, req, id) ==
    IF Good(req) THEN b = ser_set_username_response(id)
    ELSE b = ser_server_error(id, IF Len(req.body) \in MIN_UNAME_LEN..MAX_UNAME_LEN
                                  THEN CODE_INVALID_USERNAME ELSE CODE_INVALID_MSG_LEN)

\* handle gives a request the response it should have, or none.
LEMMA HandleReplies ==
    ASSUME NEW k \in Int, NEW req \in Asks(k), handle(req)
    PROVE  \/ ops' = ops
           \/ \E b : add_send(b) /\ Reply(b, req, SeqId(k))
<1>1. PICK hdr : hdr = deser_header(req.frame)
  OBVIOUS
<1>2. PICK len : len = deser_set_username(hdr.len)
  OBVIOUS
<1>3. hdr.msgt = req.msgt /\ hdr.seqid = SeqId(k)
  BY <1>1, AskDecoded, Zenon DEF Decoded
<1>4. CASE hdr.msgt # MSGT_SET_USERNAME
  BY <1>1, <1>4, Zenon DEF handle
<1>5. CASE hdr.msgt = MSGT_SET_USERNAME
  <2>1. Found(req, len)
    BY <1>1, <1>2, <1>3, <1>5, UnameFound, Zenon
  <2>2. \/ BadLen(len) /\ add_send(ser_server_error(hdr.seqid, CODE_INVALID_MSG_LEN))
        \/ /\ ~BadLen(len) /\ ~username_valid(UnameAt(req.frame, len))
           /\ add_send(ser_server_error(hdr.seqid, CODE_INVALID_USERNAME))
        \/ /\ ~BadLen(len) /\ username_valid(UnameAt(req.frame, len))
           /\ add_send(ser_set_username_response(hdr.seqid))
    BY <1>1, <1>2, <1>5, Zenon DEF handle
  <2>3. CASE BadLen(len) /\ add_send(ser_server_error(hdr.seqid, CODE_INVALID_MSG_LEN))
    BY <1>3, <2>1, <2>3, Zenon DEF Found, Reply
  <2>4. CASE /\ ~BadLen(len) /\ ~username_valid(UnameAt(req.frame, len))
             /\ add_send(ser_server_error(hdr.seqid, CODE_INVALID_USERNAME))
    BY <1>3, <2>1, <2>4, Zenon DEF Found, Reply
  <2>5. CASE /\ ~BadLen(len) /\ username_valid(UnameAt(req.frame, len))
             /\ add_send(ser_set_username_response(hdr.seqid))
    BY <1>3, <2>1, <2>5, Zenon DEF Found, Reply
  <2> QED BY <2>2, <2>3, <2>4, <2>5, Zenon
<1> QED BY <1>4, <1>5

\* A response begins with a header that gives its length.
LEMMA ReplyHeader ==
    ASSUME NEW req, NEW id \in Seq(Int), Len(id) = 8, NEW b, Reply(b, req, id)
    PROVE  /\ b \in Seq(Int) /\ Len(b) \in {11, 12}
           /\ \E t : /\ HasHeader(b, Len(b), t, id)
                     /\ IF Good(req) THEN t = MSGT_SET_USERNAME_RESPONSE /\ Len(b) = 11
                        ELSE /\ t = MSGT_SERVER_ERROR /\ Len(b) = 12
                             /\ b[12] = IF Len(req.body) \in MIN_UNAME_LEN..MAX_UNAME_LEN
                                        THEN CODE_INVALID_USERNAME ELSE CODE_INVALID_MSG_LEN
<1>1. /\ HdrLen \in Uint16 /\ ErrorLen \in Uint16
      /\ MSGT_SET_USERNAME_RESPONSE \in Int /\ MSGT_SERVER_ERROR \in Int
  <2>1. /\ HdrLen \in Nat /\ HdrLen <= 2048 /\ ErrorLen \in Nat /\ ErrorLen <= 2048
        /\ MSGT_SET_USERNAME_RESPONSE \in Int /\ MSGT_SERVER_ERROR \in Int
    BY DEF HdrLen, ErrorLen, MSGT_SET_USERNAME_RESPONSE, MSGT_SERVER_ERROR
  <2> QED BY <2>1, ShortLength
<1>2. ASSUME NEW n \in Uint16, NEW t \in Int
      PROVE  /\ Header(n, t, id) \in Seq(Int) /\ Len(Header(n, t, id)) = 11
             /\ HasHeader(Header(n, t, id), n, t, id)
  BY HeaderBytes, BareHeader
<1>3. CASE Good(req)
  <2>1. b = Header(HdrLen, MSGT_SET_USERNAME_RESPONSE, id)
    BY <1>3, Zenon DEF Reply, ser_set_username_response
  <2>2. b \in Seq(Int) /\ Len(b) = 11 /\ HasHeader(b, 11, MSGT_SET_USERNAME_RESPONSE, id)
    BY <1>1, <1>2, <2>1
  <2> QED BY <1>3, <2>2, Zenon
<1>4. CASE ~Good(req)
  <2>1. PICK code : code = IF Len(req.body) \in MIN_UNAME_LEN..MAX_UNAME_LEN
                           THEN CODE_INVALID_USERNAME ELSE CODE_INVALID_MSG_LEN
    OBVIOUS
  <2>2. code \in Int
    BY <2>1 DEF CODE_INVALID_USERNAME, CODE_INVALID_MSG_LEN
  <2>3. PICK h : h = Header(ErrorLen, MSGT_SERVER_ERROR, id)
    OBVIOUS
  <2>4. h \in Seq(Int) /\ Len(h) = 11 /\ HasHeader(h, 12, MSGT_SERVER_ERROR, id)
    BY <1>1, <1>2, <2>3
  <2>5. PICK c : c = <<code>>
    OBVIOUS
  <2>6. c \in Seq(Int) /\ Len(c) = 1 /\ c[1] = code
    BY <2>2, <2>5
  <2>7. b = h \o c
    BY <1>4, <2>1, <2>3, <2>5, Zenon DEF Reply, ser_server_error
  <2>8. /\ h \o c \in Seq(Int) /\ Len(h \o c) = Len(h) + Len(c)
        /\ \A i \in 1..Len(h) : (h \o c)[i] = h[i]
        /\ \A i \in 1..Len(c) : (h \o c)[Len(h) + i] = c[i]
    BY <2>4, <2>6, Joined
  <2>9. b \in Seq(Int) /\ Len(b) = 12 /\ b[12] = code
    <3>1. Len(h) + Len(c) = 12 /\ Len(h) + 1 = 12 /\ 1 \in 1..Len(c)
      BY <2>4, <2>6
    <3>2. (h \o c)[Len(h) + 1] = c[1]
      BY <2>8, <3>1, Zenon
    <3> QED BY <2>6, <2>7, <2>8, <3>1, <3>2, Zenon
  <2>10. HasHeader(b, 12, MSGT_SERVER_ERROR, id)
    BY <2>4, <2>6, <2>7, HeaderThen, Zenon
  <2> QED BY <1>4, <2>1, <2>9, <2>10, Zenon
<1> QED BY <1>3, <1>4

\* It answers its request.
LEMMA ReplyAnswers ==
    ASSUME NEW k \in Int, NEW b, Reply(b, asked[k], SeqId(k))
    PROVE  Answers(b, k)
<1>1. SeqId(k) \in Seq(Int) /\ Len(SeqId(k)) = 8
  BY SeqIdBytes
<1>2. PICK req : req = asked[k]
  OBVIOUS
<1>3. PICK t : /\ HasHeader(b, Len(b), t, SeqId(k)) /\ Len(b) \in {11, 12}
               /\ IF Good(req) THEN t = MSGT_SET_USERNAME_RESPONSE /\ Len(b) = 11
                  ELSE /\ t = MSGT_SERVER_ERROR /\ Len(b) = 12
                       /\ b[12] = IF Len(req.body) \in MIN_UNAME_LEN..MAX_UNAME_LEN
                                  THEN CODE_INVALID_USERNAME ELSE CODE_INVALID_MSG_LEN
  BY <1>1, <1>2, ReplyHeader, Zenon
<1>4. Len(b) \in Uint16
  <2>1. ASSUME NEW n \in {11, 12} PROVE n \in Uint16
    BY DEF Uint16
  <2> QED BY <1>3, <2>1, Zenon
<1>5. PICK hdr : hdr = deser_header(b)
  OBVIOUS
<1>6. hdr = [len |-> Len(b), msgt |-> t, seqid |-> SeqId(k)]
  BY <1>1, <1>3, <1>4, <1>5, DecodeHeader, Zenon
<1>7. hdr.len = Len(b) /\ hdr.msgt = t /\ hdr.seqid = SeqId(k)
  BY <1>6
<1>8. CASE Good(req)
  BY <1>2, <1>3, <1>5, <1>7, <1>8, Zenon DEF Answers
<1>9. CASE ~Good(req)
  <2>1. hdr.len = ErrorLen /\ HdrLen + 1 = 12
    BY <1>3, <1>7, <1>9
  <2>2. deser_server_error(hdr.len, b) = [ret |-> 0, code |-> b[12]]
    BY <2>1, Zenon DEF deser_server_error
  <2> QED BY <1>2, <1>3, <1>5, <1>7, <1>9, <2>2, Zenon DEF Answers
<1> QED BY <1>8, <1>9

-----------------------------------------------------------------------------
(* The stream as messages.                                                 *)

\* The first n bytes of response k are those behind the first p of the stream.
Follows(o, w, p, k, n) == \A i \in 1..n : w[p + i].byte = o[k].buf[i]

\* All of response k was written, behind the first a bytes and up to byte b.
Whole(o, w, k, a, b) ==
    /\ b = a + Len(o[k].buf)
    /\ Follows(o, w, a, k, Len(o[k].buf))
    /\ Count(w, Len(w), k) = Len(o[k].buf)

Among(q, m, k) == \E j \in 1..m : q[j] = k

\* The stream begins with the responses q[1] to q[m], each of them whole, once
\* and behind the first e[j] bytes.
Cuts(o, w, m, q, e) ==
    /\ m \in Nat /\ q \in [1..m -> DOMAIN o] /\ e \in [1..(m + 1) -> Nat]
    /\ \A i, j \in 1..m : q[i] = q[j] => i = j
    /\ e[1] = 0
    /\ \A j \in 1..(m + 1) : e[j] <= Len(w)
    /\ \A j \in 1..m : Whole(o, w, q[j], e[j], e[j + 1])

\* What follows them, behind the first x bytes, is the beginning of response t,
\* and nothing was written of any other.
Ends(o, w, m, q, x, t) ==
    /\ Follows(o, w, x, t, Len(w) - x)
    /\ x < Len(w) => t \in DOMAIN o /\ ~Among(q, m, t) /\ Len(w) - x < Len(o[t].buf)
    /\ \A k \in DOMAIN o : ~Among(q, m, k) =>
           Count(w, Len(w), k) = IF k = t THEN Len(w) - x ELSE 0

Cut(o, w) == \E m, q, e, t : Cuts(o, w, m, q, e) /\ Ends(o, w, m, q, e[m + 1], t)

\* The responses of o, and others of which nothing was written.
More(o, w, p) ==
    /\ DOMAIN o \subseteq DOMAIN p
    /\ \A k \in DOMAIN o : p[k].buf = o[k].buf
    /\ \A k \in DOMAIN p : k \notin DOMAIN o => Count(w, Len(w), k) = 0

LEMMA CutKept ==
    ASSUME NEW o, NEW w, Len(w) \in Nat, NEW p, More(o, w, p), Cut(o, w)
    PROVE  Cut(p, w)
<1>1. PICK m, q, e, t : Cuts(o, w, m, q, e) /\ Ends(o, w, m, q, e[m + 1], t)
  BY Zenon DEF Cut
<1>2. PICK x : x = e[m + 1]
  OBVIOUS
<1>3. m \in Nat /\ q \in [1..m -> DOMAIN o] /\ e \in [1..(m + 1) -> Nat]
      /\ \A j \in 1..(m + 1) : e[j] <= Len(w)
  BY <1>1, Zenon DEF Cuts
<1>4. x \in Nat /\ x <= Len(w)
  <2>1. m + 1 \in 1..(m + 1)
    BY <1>3
  <2> QED BY <1>2, <1>3, <2>1
<1>5. q \in [1..m -> DOMAIN p] /\ \A j \in 1..m : q[j] \in DOMAIN o
  <2>1. DOMAIN o \subseteq DOMAIN p
    BY Zenon DEF More
  <2> QED BY <1>3, <2>1
<1>6. \A j \in 1..m : p[q[j]].buf = o[q[j]].buf
  BY <1>5, Zenon DEF More
<1>7. Cuts(p, w, m, q, e)
  <2>1. ASSUME NEW j \in 1..m PROVE Whole(p, w, q[j], e[j], e[j + 1])
    <3>1. Whole(o, w, q[j], e[j], e[j + 1])
      BY <1>1, Zenon DEF Cuts
    <3> QED BY <1>6, <3>1, Zenon DEF Whole, Follows
  <2> QED BY <1>1, <1>5, <2>1, Zenon DEF Cuts
<1>8. Ends(o, w, m, q, x, t)
  BY <1>1, <1>2, Zenon
<1>9. ASSUME x < Len(w)
      PROVE  /\ t \in DOMAIN o /\ t \in DOMAIN p /\ p[t].buf = o[t].buf
             /\ ~Among(q, m, t) /\ Len(w) - x < Len(o[t].buf)
  BY <1>8, <1>9, Zenon DEF Ends, More
<1>10. Follows(p, w, x, t, Len(w) - x)
  <2>1. CASE x < Len(w)
    BY <1>8, <1>9, <2>1, Zenon DEF Ends, Follows
  <2>2. CASE ~(x < Len(w))
    <3>1. \A i : i \notin 1..(Len(w) - x)
      BY <1>4, <2>2
    <3> QED BY <3>1, Zenon DEF Follows
  <2> QED BY <2>1, <2>2
<1>11. ASSUME NEW k \in DOMAIN p, ~Among(q, m, k)
       PROVE  Count(w, Len(w), k) = IF k = t THEN Len(w) - x ELSE 0
  <2>1. CASE k \in DOMAIN o
    BY <1>8, <1>11, <2>1, Zenon DEF Ends
  <2>2. CASE k \notin DOMAIN o
    <3>1. Count(w, Len(w), k) = 0
      BY <2>2, Zenon DEF More
    <3>2. CASE k = t
      <4>1. ~(x < Len(w))
        BY <1>9, <2>2, <3>2, Zenon
      <4>2. Len(w) - x = 0
        BY <1>4, <4>1
      <4> QED BY <3>1, <3>2, <4>2, Zenon
    <3> QED BY <3>1, <3>2, Zenon
  <2> QED BY <2>1, <2>2
<1>12. Ends(p, w, m, q, x, t)
  BY <1>9, <1>10, <1>11, Zenon DEF Ends
<1> QED BY <1>2, <1>7, <1>12, Zenon DEF Cut

\* No other response than k was begun and not finished.
Only(o, w, k) ==
    \A j \in DOMAIN o :
        Count(w, Len(w), j) # 0 /\ Count(w, Len(w), j) < Len(o[j].buf) => j = k

\* Response k goes behind the whole ones of q, the only one that does.
NextIs(o, w, k, m, q, e) ==
    /\ Cuts(o, w, m, q, e) /\ ~Among(q, m, k)
    /\ e[m + 1] \in Nat /\ e[m + 1] + Count(w, Len(w), k) = Len(w)
    /\ Follows(o, w, e[m + 1], k, Count(w, Len(w), k))
    /\ \A j \in DOMAIN o : ~Among(q, m, j) /\ j # k => Count(w, Len(w), j) = 0

LEMMA CutPlace ==
    ASSUME NEW o, NEW w, Len(w) \in Nat, Cut(o, w), NEW k \in DOMAIN o, Only(o, w, k),
           Len(o[k].buf) \in Nat, Count(w, Len(w), k) < Len(o[k].buf)
    PROVE  \E m, q, e : NextIs(o, w, k, m, q, e)
<1>1. PICK m, q, e, t : Cuts(o, w, m, q, e) /\ Ends(o, w, m, q, e[m + 1], t)
  BY Zenon DEF Cut
<1>2. PICK x : x = e[m + 1]
  OBVIOUS
<1>3. m \in Nat /\ e \in [1..(m + 1) -> Nat] /\ \A j \in 1..(m + 1) : e[j] <= Len(w)
  BY <1>1, Zenon DEF Cuts
<1>4. x \in Nat /\ x <= Len(w)
  <2>1. m + 1 \in 1..(m + 1)
    BY <1>3
  <2> QED BY <1>2, <1>3, <2>1
<1>5. PICK d \in Nat : d = Len(w) - x
  BY <1>4
<1>6. /\ Follows(o, w, x, t, d)
      /\ x < Len(w) => t \in DOMAIN o /\ ~Among(q, m, t) /\ d < Len(o[t].buf)
      /\ \A j \in DOMAIN o : ~Among(q, m, j) => Count(w, Len(w), j) = IF j = t THEN d ELSE 0
  BY <1>1, <1>2, <1>5, Zenon DEF Ends
<1>7. PICK c : c = Count(w, Len(w), k)
  OBVIOUS
<1>8. ~Among(q, m, k)
  <2> SUFFICES ASSUME NEW j \in 1..m, q[j] = k PROVE FALSE
    BY Zenon DEF Among
  <2>1. Count(w, Len(w), k) = Len(o[k].buf)
    BY <1>1, Zenon DEF Cuts, Whole
  <2> QED BY <2>1
<1>9. x < Len(w) => t = k
  <2> SUFFICES ASSUME x < Len(w) PROVE t = k
    OBVIOUS
  <2>1. Count(w, Len(w), t) = d /\ t \in DOMAIN o /\ d < Len(o[t].buf)
    BY <1>6, Zenon
  <2>2. d # 0
    BY <1>4, <1>5
  <2> QED BY <2>1, <2>2, Zenon DEF Only
<1>10. ~(x < Len(w)) => d = 0
  BY <1>4, <1>5
<1>11. c = d
  BY <1>6, <1>7, <1>8, <1>9, <1>10, Zenon
<1>12. Follows(o, w, x, k, c)
  <2>1. CASE x < Len(w)
    BY <1>6, <1>9, <1>11, <2>1, Zenon
  <2>2. CASE ~(x < Len(w))
    <3>1. \A i : i \notin 1..c
      BY <1>10, <1>11, <2>2
    <3> QED BY <3>1, Zenon DEF Follows
  <2> QED BY <2>1, <2>2
<1>13. x + c = Len(w)
  BY <1>4, <1>5, <1>11
<1>14. ASSUME NEW j \in DOMAIN o, ~Among(q, m, j), j # k PROVE Count(w, Len(w), j) = 0
  BY <1>6, <1>9, <1>10, <1>14, Zenon
<1>15. NextIs(o, w, k, m, q, e)
  BY <1>1, <1>2, <1>4, <1>7, <1>8, <1>12, <1>13, <1>14, Zenon DEF NextIs
<1> QED BY <1>15, Zenon

\* The last byte of response k was written: it is the next whole one.
LEMMA CutFinished ==
    ASSUME NEW o, NEW w, Len(w) \in Nat, NEW k \in DOMAIN o, NEW m, NEW q, NEW e,
           NextIs(o, w, k, m, q, e), Count(w, Len(w), k) = Len(o[k].buf)
    PROVE  Cut(o, w)
<1>1. /\ m \in Nat /\ q \in [1..m -> DOMAIN o] /\ e \in [1..(m + 1) -> Nat] /\ e[1] = 0
      /\ \A i, j \in 1..m : q[i] = q[j] => i = j
      /\ \A j \in 1..(m + 1) : e[j] <= Len(w)
      /\ \A j \in 1..m : Whole(o, w, q[j], e[j], e[j + 1])
  BY Zenon DEF NextIs, Cuts
<1>2. PICK n \in Nat : n = m + 1
  BY <1>1
<1>3. PICK r : r = [j \in 1..n |-> IF j \in 1..m THEN q[j] ELSE k]
  OBVIOUS
<1>4. PICK f : f = [j \in 1..(n + 1) |-> IF j \in 1..n THEN e[j] ELSE Len(w)]
  OBVIOUS
<1>5. /\ \A j \in 1..n : j \in 1..m \/ j = n
      /\ \A j \in 1..m : j \in 1..n /\ j + 1 \in 1..n
      /\ n \in 1..n /\ n \notin 1..m /\ 1 \in 1..n
      /\ \A j \in 1..(n + 1) : j \in 1..n \/ j = n + 1
      /\ \A j \in 1..n : j \in 1..(n + 1)
      /\ n + 1 \in 1..(n + 1) /\ n + 1 \notin 1..n
  BY <1>1, <1>2
<1>6. (\A j \in 1..m : r[j] = q[j]) /\ r[n] = k
  BY <1>3, <1>5, Zenon
<1>7. (\A j \in 1..n : f[j] = e[j]) /\ f[n + 1] = Len(w)
  BY <1>4, <1>5, Zenon
<1>8. r \in [1..n -> DOMAIN o]
  <2>1. \A j \in 1..n : (IF j \in 1..m THEN q[j] ELSE k) \in DOMAIN o
    BY <1>1
  <2> QED BY <1>3, <2>1, Zenon
<1>9. f \in [1..(n + 1) -> Nat]
  <2>1. \A j \in 1..(n + 1) : (IF j \in 1..n THEN e[j] ELSE Len(w)) \in Nat
    BY <1>1, <1>2
  <2> QED BY <1>4, <2>1, Zenon
<1>10. \A j \in 1..m : q[j] # k
  BY Zenon DEF NextIs, Among
<1>11. ASSUME NEW i \in 1..n, NEW j \in 1..n, r[i] = r[j] PROVE i = j
  <2>1. CASE i \in 1..m /\ j \in 1..m
    BY <1>1, <1>6, <1>11, <2>1, Zenon
  <2>2. CASE i \in 1..m /\ j = n
    BY <1>6, <1>10, <1>11, <2>2, Zenon
  <2>3. CASE i = n /\ j \in 1..m
    BY <1>6, <1>10, <1>11, <2>3, Zenon
  <2> QED BY <1>5, <2>1, <2>2, <2>3, Zenon
<1>12. ASSUME NEW j \in 1..(n + 1) PROVE f[j] <= Len(w)
  <2>1. CASE j \in 1..n
    BY <1>1, <1>2, <1>7, <2>1, Zenon
  <2>2. CASE j = n + 1
    <3>1. Len(w) <= Len(w)
      OBVIOUS
    <3> QED BY <1>7, <2>2, <3>1, Zenon
  <2> QED BY <1>5, <2>1, <2>2, Zenon
<1>13. ASSUME NEW j \in 1..n PROVE Whole(o, w, r[j], f[j], f[j + 1])
  <2>1. CASE j \in 1..m
    BY <1>1, <1>5, <1>6, <1>7, <2>1, Zenon
  <2>2. CASE j = n
    <3>1. Len(w) = e[n] + Len(o[k].buf) /\ Follows(o, w, e[n], k, Len(o[k].buf))
      BY <1>2, Zenon DEF NextIs
    <3> QED BY <1>5, <1>6, <1>7, <2>2, <3>1, Zenon DEF Whole
  <2> QED BY <1>5, <2>1, <2>2, Zenon
<1>14. Cuts(o, w, n, r, f)
  BY <1>1, <1>5, <1>7, <1>8, <1>9, <1>11, <1>12, <1>13, Zenon DEF Cuts
<1>15. Len(w) - Len(w) = 0 /\ ~(Len(w) < Len(w)) /\ \A i : i \notin 1..0
  OBVIOUS
<1>16. ASSUME NEW j \in DOMAIN o, ~Among(r, n, j) PROVE Count(w, Len(w), j) = 0
  <2>1. ~Among(q, m, j) /\ j # k
    BY <1>5, <1>6, <1>16, Zenon DEF Among
  <2> QED BY <2>1, Zenon DEF NextIs
<1>17. Ends(o, w, n, r, Len(w), k)
  BY <1>15, <1>16, Zenon DEF Ends, Follows
<1> QED BY <1>7, <1>14, <1>17, Zenon DEF Cut

\* Some bytes of it are still missing.
LEMMA CutUnfinished ==
    ASSUME NEW o, NEW w, Len(w) \in Nat, NEW k \in DOMAIN o, NEW m, NEW q, NEW e,
           NextIs(o, w, k, m, q, e), Count(w, Len(w), k) \in Nat,
           Count(w, Len(w), k) < Len(o[k].buf)
    PROVE  Cut(o, w)
<1>1. PICK x \in Nat : x = e[m + 1]
  BY DEF NextIs
<1>2. PICK c \in Nat : c = Count(w, Len(w), k)
  OBVIOUS
<1>3. x + c = Len(w)
  BY <1>1, <1>2, Zenon DEF NextIs
<1>4. Len(w) - x = c
  BY <1>3
<1>5. Ends(o, w, m, q, x, k)
  BY <1>1, <1>2, <1>4, Zenon DEF NextIs, Ends
<1> QED BY <1>1, <1>5, Zenon DEF NextIs, Cut

HaveLengths(o) == \A j \in DOMAIN o : Len(o[j].buf) \in Nat

\* n bytes of b behind the first c.
RestIs(left, b, c, n) == \A i \in 1..n : left[i] = b[c + i]

\* n more bytes of response k are written behind the stream w.
LEMMA CutWritten ==
    ASSUME NEW o, NEW w \in Seq(Piped), NEW k \in DOMAIN o, NEW m, NEW q, NEW e,
           NextIs(o, w, k, m, q, e), NEW n \in Nat, NEW left, NEW v,
           Extends(v, w, n, k, left),
           RestIs(left, o[k].buf, Count(w, Len(w), k), n), HaveLengths(o)
    PROVE  NextIs(o, v, k, m, q, e)
<1>1. PICK l \in Nat : l = Len(w)
  BY LenProperties
<1>2. PICK c \in Nat : c = Count(w, l, k)
  BY CountNat, Zenon
<1>4. Len(v) = l + n /\ Same(v, w, l) /\ Block(v, l, n, k)
      /\ \A i \in 1..n : v[l + i].byte = left[i]
  BY <1>1, Zenon DEF Extends
<1>5. CountsOn(v, w, l, n, k)
  <2>1. n \in 0..n
    OBVIOUS
  <2> QED BY <1>4, <2>1, CountBehind, Zenon
<1>6. Count(v, Len(v), k) = c + n
      /\ \A j : j # k => Count(v, Len(v), j) = Count(w, Len(w), j)
  BY <1>1, <1>2, <1>4, <1>5, Zenon DEF CountsOn
<1>7. PICK x \in Nat : x = e[m + 1] /\ x + c = l
  BY <1>1, <1>2 DEF NextIs
<1>8. /\ m \in Nat /\ q \in [1..m -> DOMAIN o] /\ e \in [1..(m + 1) -> Nat] /\ e[1] = 0
      /\ \A i, j \in 1..m : q[i] = q[j] => i = j
      /\ \A j \in 1..(m + 1) : e[j] <= l
      /\ \A j \in 1..m : Whole(o, w, q[j], e[j], e[j + 1])
  BY <1>1, Zenon DEF NextIs, Cuts
<1>9. ASSUME NEW i \in 1..(c + n) PROVE v[x + i].byte = o[k].buf[i]
  <2>1. CASE i <= c
    <3>1. i \in 1..c /\ x + i \in 1..l
      BY <1>7, <2>1
    <3>2. w[x + i].byte = o[k].buf[i]
      BY <1>1, <1>2, <1>7, <3>1, Zenon DEF NextIs, Follows
    <3> QED BY <1>4, <3>1, <3>2, Zenon DEF Same
  <2>2. CASE ~(i <= c)
    <3>1. PICK h \in 1..n : h = i - c
      BY <2>2
    <3>2. c + h = i /\ l = x + c
      BY <1>7, <3>1
    <3>3. x + i = l + h
      BY <3>2
    <3> QED BY <1>1, <1>2, <1>4, <3>2, <3>3, Zenon DEF RestIs
  <2> QED BY <2>1, <2>2
<1>10. \A j \in 1..(m + 1) : e[j] <= Len(v)
  BY <1>4, <1>8
<1>11. ASSUME NEW j \in 1..m PROVE Whole(o, v, q[j], e[j], e[j + 1])
  <2>1. PICK a \in Nat, b \in Nat : a = e[j] /\ b = e[j + 1] /\ b <= l
    <3>1. j \in 1..(m + 1) /\ j + 1 \in 1..(m + 1)
      BY <1>8
    <3> QED BY <1>8, <3>1
  <2>2. PICK d \in Nat : d = Len(o[q[j]].buf)
    BY <1>8 DEF HaveLengths
  <2>3. b = a + d /\ Follows(o, w, a, q[j], d) /\ Count(w, l, q[j]) = d
    BY <1>1, <1>8, <2>1, <2>2, Zenon DEF Whole
  <2>4. q[j] # k
    BY Zenon DEF NextIs, Among
  <2>5. \A i \in 1..d : a + i \in 1..l
    BY <2>1, <2>3
  <2>6. Follows(o, v, a, q[j], d)
    BY <1>4, <2>3, <2>5, Zenon DEF Follows, Same
  <2>7. Count(v, Len(v), q[j]) = d
    BY <1>1, <1>6, <2>3, <2>4, Zenon
  <2> QED BY <2>1, <2>2, <2>3, <2>6, <2>7, Zenon DEF Whole
<1>12. Cuts(o, v, m, q, e)
  BY <1>8, <1>10, <1>11, Zenon DEF Cuts
<1>13. x + Count(v, Len(v), k) = Len(v)
  <2>1. x + (c + n) = l + n
    BY <1>7
  <2> QED BY <1>4, <1>6, <2>1, Zenon
<1>14. Follows(o, v, x, k, Count(v, Len(v), k))
  BY <1>6, <1>9, Zenon DEF Follows
<1> QED BY <1>6, <1>7, <1>12, <1>13, <1>14, Zenon DEF NextIs

\* Response k is not all written.
Open(o, w, k) == Count(w, Len(w), k) < Len(o[k].buf)

OneOpen(o, w) == \A j, k \in DOMAIN o : Open(o, w, j) /\ Open(o, w, k) => j = k

AtOnce(o, w) ==
    \A k \in DOMAIN o :
        Count(w, Len(w), k) = 0 \/ Count(w, Len(w), k) = Len(o[k].buf)

\* While no write is short, a response is written at once; while the client
\* waits, there is one to be written at most.  Either makes whole messages.
CutSound(o, w, sh, pi) ==
    /\ sh \in Nat
    /\ sh = 0 => AtOnce(o, w)
    /\ ~pi => OneOpen(o, w)
    /\ sh = 0 \/ ~pi => Cut(o, w)

CutInv == CutSound(ops, wire, short, pipelined)

LEMMA OpenOnly ==
    ASSUME NEW o, NEW w, HaveLengths(o), NEW sh, NEW pi, CutSound(o, w, sh, pi),
           sh = 0 \/ ~pi, NEW k \in DOMAIN o, Open(o, w, k)
    PROVE  Only(o, w, k)
<1> SUFFICES ASSUME NEW j \in DOMAIN o, Count(w, Len(w), j) # 0,
                    Count(w, Len(w), j) < Len(o[j].buf)
             PROVE  j = k
  BY Zenon DEF Only
<1>1. CASE sh = 0
  <2>1. Count(w, Len(w), j) = Len(o[j].buf)
    BY <1>1, Zenon DEF CutSound, AtOnce
  <2>2. Len(o[j].buf) \in Nat
    BY Zenon DEF HaveLengths
  <2> QED BY <2>1, <2>2
<1>2. CASE ~pi
  BY <1>2, Zenon DEF CutSound, OneOpen, Open
<1> QED BY <1>1, <1>2

\* A step that writes nothing.
LEMMA CutSoundKept ==
    ASSUME NEW o, NEW w, Len(w) \in Nat, NEW p, More(o, w, p), NEW sh, NEW pi, NEW npi,
           CutSound(o, w, sh, pi), pi => npi, ~npi => OneOpen(p, w)
    PROVE  CutSound(p, w, sh, npi)
<1>1. sh = 0 => AtOnce(p, w)
  BY Zenon DEF CutSound, AtOnce, More
<1>2. sh = 0 \/ ~npi => Cut(p, w)
  BY CutKept, Zenon DEF CutSound
<1> QED BY <1>1, <1>2, Zenon DEF CutSound

\* A write of the kernel, short or not.
Sends(o, w, sh, k, v, p, nsh) ==
    /\ o[k].at = "kernel"
    /\ LET left == SubSeq(o[k].buf, o[k].processed + 1, Len(o[k].buf))
       IN  \E n \in 0..Len(left) :
               /\ nsh = IF n < Len(left) THEN sh + 1 ELSE sh
               /\ v = w \o [i \in 1..n |-> [of |-> k, byte |-> left[i]]]
               /\ p = [o EXCEPT ![k] = [@ EXCEPT !.at = "cq", !.res = n]]

\* What it does to the stream and to the responses.
SendIs(o, w, sh, k, v, p, nsh, c, d, n, left) ==
    /\ c \in Nat /\ d \in Nat /\ n \in Nat /\ c + n <= d
    /\ Len(o[k].buf) = d /\ Count(w, Len(w), k) = c
    /\ nsh = IF c + n < d THEN sh + 1 ELSE sh
    /\ Extends(v, w, n, k, left) /\ RestIs(left, o[k].buf, c, n)
    /\ DOMAIN p = DOMAIN o /\ \A j \in DOMAIN o : p[j].buf = o[j].buf
    /\ Count(v, Len(v), k) = c + n
    /\ \A j : j # k => Count(v, Len(v), j) = Count(w, Len(w), j)

LEMMA SendBecomes ==
    ASSUME NEW o, NEW w, NEW l \in Nat, NEW ph, StreamSound(o, w, l, ph), NEW sh,
           NEW k \in DOMAIN o, NEW v, NEW p, NEW nsh, Sends(o, w, sh, k, v, p, nsh)
    PROVE  \E c, d, n, left : SendIs(o, w, sh, k, v, p, nsh, c, d, n, left)
<1>1. PICK left : left = SubSeq(o[k].buf, o[k].processed + 1, Len(o[k].buf))
  OBVIOUS
<1>2. PICK n \in 0..Len(left) :
          /\ nsh = IF n < Len(left) THEN sh + 1 ELSE sh
          /\ v = w \o [i \in 1..n |-> [of |-> k, byte |-> left[i]]]
          /\ p = [o EXCEPT ![k] = [@ EXCEPT !.at = "cq", !.res = n]]
  BY <1>1, Zenon DEF Sends
<1>3. /\ w \in Seq(Piped) /\ o = [j \in DOMAIN o |-> o[j]] /\ DOMAIN o \subseteq 1..l
      /\ \A j \in DOMAIN o : OpSound(o[j], Count(w, Len(w), j), ph)
  BY Zenon DEF StreamSound
<1>4. PICK op : op = o[k]
  OBVIOUS
<1>5. PICK b : b = op.buf
  OBVIOUS
<1>6. PICK c : c = op.processed
  OBVIOUS
<1>7. /\ op \in OpRec /\ b \in Seq(Int) /\ c \in Nat
      /\ Count(w, Len(w), k) = c /\ c <= Len(b)
  <2>1. OpSound(op, Count(w, Len(w), k), ph) /\ op.at = "kernel"
    BY <1>3, <1>4, Zenon DEF Sends
  <2>2. op.buf \in Seq(Int) /\ op.processed \in Nat
    BY <2>1 DEF OpSound, OpRec
  <2> QED BY <1>5, <1>6, <2>1, <2>2, Zenon DEF OpSound
<1>8. left = SubSeq(b, c + 1, Len(b))
  BY <1>1, <1>4, <1>5, <1>6, Zenon
<1>9. PICK d \in Nat : d = Len(b)
  BY <1>7, LenProperties
<1>10. Len(left) = d - c /\ \A i \in 1..(d - c) : left[i] = b[c + i] /\ left[i] \in Int
  BY <1>7, <1>8, <1>9, RestOf, Zenon
<1>11. n \in Nat /\ c + n <= d /\ \A i \in 1..n : i \in 1..(d - c)
  <2>1. n \in 0..(d - c)
    BY <1>10, Zenon
  <2>2. c \in Nat /\ c <= d
    BY <1>7, <1>9, Zenon
  <2> HIDE <1>10
  <2> QED BY <2>1, <2>2
<1>12. AllInt(left, n) /\ RestIs(left, b, c, n)
  BY <1>10, <1>11, Zenon DEF AllInt, RestIs
<1>13. Extends(v, w, n, k, left)
  <2>1. k \in Int
    BY <1>3
  <2>2. v = w \o [i \in 1..n |-> [of |-> k, byte |-> left[i]]]
    BY <1>2, Zenon
  <2> QED BY <1>3, <1>11, <1>12, <2>1, <2>2, Behind, Zenon
<1>14. n < Len(left) <=> c + n < d
  <2>1. c \in Nat /\ n \in Nat
    BY <1>7, <1>11, Zenon
  <2>2. n < d - c <=> c + n < d
    BY <2>1
  <2> QED BY <1>10, <2>2, Zenon
<1>15. DOMAIN p = DOMAIN o /\ \A j \in DOMAIN o : p[j].buf = o[j].buf
  <2>1. PICK nop : nop = [op EXCEPT !.at = "cq", !.res = n]
    OBVIOUS
  <2>2. nop.buf = op.buf
    BY <1>7, <2>1 DEF OpRec
  <2>3. p = [o EXCEPT ![k] = nop]
    BY <1>2, <1>4, <2>1, Zenon
  <2>4. DOMAIN p = DOMAIN o /\ p[k] = nop /\ \A j \in DOMAIN o : j # k => p[j] = o[j]
    BY <1>3, <2>3, Zenon
  <2> QED BY <1>4, <2>2, <2>4, Zenon
<1>16. PICK m \in Nat : m = Len(w)
  BY <1>3, LenProperties
<1>17. CountsOn(v, w, m, n, k) /\ Len(v) = m + n
  <2>1. Same(v, w, m) /\ Block(v, m, n, k) /\ Len(v) = m + n
    BY <1>13, <1>16, Zenon DEF Extends
  <2>2. n \in 0..n
    BY <1>11
  <2> QED BY <1>11, <2>1, <2>2, CountBehind, Zenon
<1>18. Count(v, Len(v), k) = c + n
       /\ \A j : j # k => Count(v, Len(v), j) = Count(w, Len(w), j)
  BY <1>7, <1>16, <1>17, Zenon DEF CountsOn
<1>19. SendIs(o, w, sh, k, v, p, nsh, c, d, n, left)
  BY <1>2, <1>4, <1>5, <1>7, <1>9, <1>11, <1>12, <1>13, <1>14, <1>15, <1>18, Zenon DEF SendIs
<1> QED BY <1>19, Zenon

LEMMA CutSent ==
    ASSUME NEW o, NEW w \in Seq(Piped), HaveLengths(o), NEW sh, NEW pi,
           CutSound(o, w, sh, pi), NEW k \in DOMAIN o, NEW v, NEW p, NEW nsh,
           NEW c, NEW d, NEW n, NEW left,
           SendIs(o, w, sh, k, v, p, nsh, c, d, n, left)
    PROVE  CutSound(p, v, nsh, pi)
<1>1. c \in Nat /\ d \in Nat /\ n \in Nat /\ c + n <= d
  BY Zenon DEF SendIs
<1>2. /\ Len(o[k].buf) = d /\ Count(w, Len(w), k) = c
      /\ nsh = IF c + n < d THEN sh + 1 ELSE sh
  BY Zenon DEF SendIs
<1>3. Extends(v, w, n, k, left) /\ RestIs(left, o[k].buf, c, n)
  BY Zenon DEF SendIs
<1>4. DOMAIN p = DOMAIN o /\ \A j \in DOMAIN o : p[j].buf = o[j].buf
  BY Zenon DEF SendIs
<1>5. /\ Count(v, Len(v), k) = c + n
      /\ \A j : j # k => Count(v, Len(v), j) = Count(w, Len(w), j)
  BY Zenon DEF SendIs
<1>6. sh \in Nat
  BY Zenon DEF CutSound
<1>7. nsh \in Nat /\ (nsh = 0 => sh = 0 /\ c + n = d)
  BY <1>1, <1>2, <1>6
<1>8. ASSUME nsh = 0 PROVE AtOnce(p, v)
  <2> SUFFICES ASSUME NEW j \in DOMAIN o
               PROVE  Count(v, Len(v), j) = 0 \/ Count(v, Len(v), j) = Len(o[j].buf)
    BY <1>4, Zenon DEF AtOnce
  <2>1. CASE j = k
    BY <1>2, <1>5, <1>7, <1>8, <2>1, Zenon
  <2>2. CASE j # k
    BY <1>5, <1>7, <1>8, <2>2, Zenon DEF CutSound, AtOnce
  <2> QED BY <2>1, <2>2
<1>9. ASSUME NEW j \in DOMAIN o, Open(p, v, j) PROVE Open(o, w, j)
  <2>1. Count(v, Len(v), j) < Len(o[j].buf)
    BY <1>4, <1>9, Zenon DEF Open
  <2>2. CASE j = k
    <3>1. c + n < d
      BY <1>2, <1>5, <2>1, <2>2, Zenon
    <3>2. c < d
      BY <1>1, <3>1
    <3> QED BY <1>2, <2>2, <3>2, Zenon DEF Open
  <2>3. CASE j # k
    BY <1>5, <2>1, <2>3, Zenon DEF Open
  <2> QED BY <2>2, <2>3
<1>10. ~pi => OneOpen(p, v)
  BY <1>4, <1>9, Zenon DEF CutSound, OneOpen
<1>11. Len(w) \in Nat /\ Len(v) \in Nat /\ v \in Seq(Piped)
  <2>1. v \in Seq(Piped)
    BY <1>3, Zenon DEF Extends
  <2> QED BY <2>1, LenProperties
<1>12. ASSUME nsh = 0 \/ ~pi PROVE Cut(o, v)
  <2>1. (sh = 0 \/ ~pi) /\ Cut(o, w)
    BY <1>7, <1>12, Zenon DEF CutSound
  <2>2. CASE n = 0
    <3>1. Len(v) = Len(w) /\ \A i \in 1..Len(v) : v[i] = w[i]
      <4>1. Len(v) = Len(w) + n /\ Same(v, w, Len(w))
        BY <1>3, Zenon DEF Extends
      <4>2. Len(w) + n = Len(w)
        BY <1>11, <2>2
      <4> QED BY <4>1, <4>2, Zenon DEF Same
    <3>2. v = w
      BY <1>11, <3>1, SeqEqual
    <3> QED BY <2>1, <3>2, Zenon
  <2>3. CASE n # 0
    <3>1. c < d
      BY <1>1, <2>3
    <3>2. Open(o, w, k)
      BY <1>2, <3>1, Zenon DEF Open
    <3>3. Only(o, w, k)
      BY <2>1, <3>2, OpenOnly, Zenon
    <3>4. PICK m, q, e : NextIs(o, w, k, m, q, e)
      BY <1>1, <1>2, <1>11, <2>1, <3>1, <3>3, CutPlace, Zenon
    <3>5. NextIs(o, v, k, m, q, e)
      BY <1>1, <1>2, <1>3, <3>4, CutWritten, Zenon
    <3>6. CASE c + n = d
      BY <1>2, <1>5, <1>11, <3>5, <3>6, CutFinished, Zenon
    <3>7. CASE c + n # d
      <4>1. c + n < d /\ c + n \in Nat
        BY <1>1, <3>7
      <4> QED BY <1>2, <1>5, <1>11, <3>5, <4>1, CutUnfinished, Zenon
    <3> QED BY <3>6, <3>7
  <2> QED BY <2>2, <2>3
<1>13. More(o, v, p)
  BY <1>4, Zenon DEF More
<1>14. nsh = 0 \/ ~pi => Cut(p, v)
  BY <1>11, <1>12, <1>13, CutKept, Zenon
<1> QED BY <1>7, <1>8, <1>10, <1>14, Zenon DEF CutSound

\* The responses have lengths, and the stream is one of bytes.
LEMMA StreamLengths ==
    ASSUME NEW o, NEW w, NEW l, NEW ph, StreamSound(o, w, l, ph)
    PROVE  HaveLengths(o) /\ w \in Seq(Piped) /\ Len(w) \in Nat
<1>1. w \in Seq(Piped)
  BY Zenon DEF StreamSound
<1>2. ASSUME NEW j \in DOMAIN o PROVE Len(o[j].buf) \in Nat
  <2>1. o[j] \in OpRec
    BY Zenon DEF StreamSound, OpSound
  <2> QED BY <2>1 DEF OpRec
<1> QED BY <1>1, <1>2, LenProperties DEF HaveLengths

\* The step of the client that sends a request: the response is new, or there
\* is none.
LEMMA CutAsked ==
    ASSUME NEW l \in Nat, StreamSound(ops, wire, l, phase), CutInv, l = Len(asked),
           NEW npi, pipelined => npi, ~npi => \A j \in DOMAIN ops : ~Open(ops, wire, j),
           NEW p, p = ops \/ \E buf : Added(ops, l, buf, p)
    PROVE  CutSound(p, wire, short, npi)
<1>1. HaveLengths(ops) /\ wire \in Seq(Piped) /\ Len(wire) \in Nat
  BY StreamLengths, Zenon
<1>2. CutSound(ops, wire, short, pipelined)
  BY Zenon DEF CutInv
<1>3. CASE p = ops
  <2>1. More(ops, wire, p) /\ (~npi => OneOpen(p, wire))
    BY <1>3, Zenon DEF More, OneOpen
  <2> QED BY <1>1, <1>2, <2>1, CutSoundKept, Zenon
<1>4. ASSUME NEW buf, Added(ops, l, buf, p) PROVE CutSound(p, wire, short, npi)
  <2>1. DOMAIN p = DOMAIN ops \cup {l + 1} /\ \A j \in DOMAIN ops : p[j] = ops[j]
    BY <1>4, Zenon DEF Added
  <2>2. l + 1 \notin DOMAIN ops
    <3>1. DOMAIN ops \subseteq 1..l
      BY Zenon DEF StreamSound
    <3>2. l + 1 \notin 1..l
      OBVIOUS
    <3> QED BY <3>1, <3>2, Zenon
  <2>3. Count(wire, Len(wire), l + 1) = 0
    <3>1. {j \in 1..Len(wire) : wire[j].of = l + 1} = {}
      BY <2>2, Zenon DEF StreamSound, ByteSound
    <3> QED BY <3>1, FS_EmptySet, Zenon DEF Count
  <2>4. More(ops, wire, p)
    BY <2>1, <2>3, Zenon DEF More
  <2>5. ASSUME ~npi PROVE OneOpen(p, wire)
    <3>1. ASSUME NEW j \in DOMAIN p, Open(p, wire, j) PROVE j = l + 1
      BY <2>1, <2>5, <3>1, Zenon DEF Open
    <3> QED BY <3>1, Zenon DEF OneOpen
  <2> QED BY <1>1, <1>2, <2>4, <2>5, CutSoundKept, Zenon
<1> QED BY <1>3, <1>4

SameBufs(o, p) == DOMAIN p = DOMAIN o /\ \A j \in DOMAIN o : p[j].buf = o[j].buf

LEMMA BufKept ==
    ASSUME NEW o, o = [j \in DOMAIN o |-> o[j]], NEW k \in DOMAIN o, NEW nop,
           nop.buf = o[k].buf, NEW p, p = [o EXCEPT ![k] = nop]
    PROVE  SameBufs(o, p)
<1>1. DOMAIN p = DOMAIN o /\ p[k] = nop /\ \A j \in DOMAIN o : j # k => p[j] = o[j]
  BY Zenon
<1> QED BY <1>1, Zenon DEF SameBufs

\* The completion of a write, or its failure, changes no buffer.
LEMMA CompletionKeeps ==
    ASSUME NEW l, StreamSound(ops, wire, l, phase), NEW k \in DOMAIN ops,
           handle_send(k) \/ op_failed(k)
    PROVE  SameBufs(ops, ops')
<1>1. PICK op : op = ops[k]
  OBVIOUS
<1>2. op \in OpRec /\ ops = [j \in DOMAIN ops |-> ops[j]]
  BY <1>1, Zenon DEF StreamSound, OpSound
<1>3. PICK a : a = resume_send(op)
  OBVIOUS
<1>4. PICK f : f = [op EXCEPT !.at = "free"]
  OBVIOUS
<1>5. a.buf = op.buf /\ f.buf = op.buf
  BY <1>2, <1>3, <1>4 DEF resume_send, OpRec
<1>6. ops' = [ops EXCEPT ![k] = a] \/ ops' = [ops EXCEPT ![k] = f]
  BY <1>1, <1>3, <1>4, Zenon DEF handle_send, op_failed
<1> QED BY <1>1, <1>2, <1>5, <1>6, BufKept, Zenon

LEMMA CutNext == AskedInv /\ StreamInv /\ CutInv /\ [Next]_vars => CutInv'
<1> SUFFICES ASSUME AskedInv, StreamInv, CutInv, [Next]_vars PROVE CutInv'
  OBVIOUS
<1>1. PICK l \in Nat : l = Len(asked)
  BY DEF AskedInv
<1>2. StreamSound(ops, wire, l, phase) /\ CutSound(ops, wire, short, pipelined)
  BY <1>1, Zenon DEF StreamInv, CutInv
<1>3. HaveLengths(ops) /\ wire \in Seq(Piped) /\ Len(wire) \in Nat
  BY <1>2, StreamLengths, Zenon
<1>4. SUFFICES CutSound(ops', wire', short', pipelined')
  BY Zenon DEF CutInv, CutSound, AtOnce, OneOpen, Open, Cut, Cuts, Ends, Whole, Follows,
               Among, Count
<1>5. CASE handle_recv
  <2>1. PICK req \in Asks(l + 1) : handle(req)
    BY <1>1, <1>5, Zenon DEF handle_recv
  <2>2. wire' = wire /\ short' = short
    BY <1>5, Zenon DEF handle_recv
  <2>3. pipelined' = (pipelined \/ \E k \in DOMAIN ops : Unfinished(k))
    BY <1>5, Zenon DEF handle_recv
  <2>4. ASSUME NEW k \in DOMAIN ops, Open(ops, wire, k) PROVE Unfinished(k)
    <3>1. DOMAIN wire = 1..Len(wire)
      BY <1>3
    <3> QED BY <2>4, <3>1, Zenon DEF Unfinished, Taken, Count, Open
  <2>5. PICK npi : npi = pipelined'
    OBVIOUS
  <2>6. (pipelined => npi) /\ (~npi => \A j \in DOMAIN ops : ~Open(ops, wire, j))
    BY <2>3, <2>4, <2>5, Zenon
  <2>7. ops' = ops \/ \E buf : Added(ops, l, buf, ops')
    <3>1. l + 1 \in Int
      OBVIOUS
    <3> QED BY <1>1, <2>1, <3>1, HandleReplies, Zenon DEF add_send, Added
  <2>8. CutSound(ops', wire, short, npi)
    BY <1>1, <1>2, <2>6, <2>7, CutAsked, Zenon
  <2> QED BY <2>2, <2>5, <2>8, Zenon
<1>6. ASSUME NEW k \in DOMAIN ops, KernelSend(k)
      PROVE  CutSound(ops', wire', short', pipelined')
  <2>1. Sends(ops, wire, short, k, wire', ops', short') /\ pipelined' = pipelined
    BY <1>6, Zenon DEF KernelSend, Sends
  <2>2. PICK c, d, n, left : SendIs(ops, wire, short, k, wire', ops', short', c, d, n, left)
    BY <1>2, <2>1, SendBecomes, Zenon
  <2>3. CutSound(ops', wire', short', pipelined)
    BY <1>2, <1>3, <2>2, CutSent, Zenon
  <2> QED BY <2>1, <2>3, Zenon
<1>7. ASSUME NEW k \in DOMAIN ops, handle_send(k) \/ op_failed(k)
      PROVE  CutSound(ops', wire', short', pipelined')
  <2>1. SameBufs(ops, ops')
    BY <1>2, <1>7, CompletionKeeps, Zenon
  <2>2. wire' = wire /\ short' = short /\ pipelined' = pipelined
    BY <1>7, Zenon DEF handle_send, op_failed
  <2>3. More(ops, wire, ops')
    BY <2>1, Zenon DEF More, SameBufs
  <2>4. ~pipelined => OneOpen(ops', wire)
    BY <1>2, <2>1, Zenon DEF CutSound, OneOpen, Open, SameBufs
  <2>5. PICK pi : pi = pipelined
    OBVIOUS
  <2>6. (pi => pi) /\ CutSound(ops, wire, short, pi) /\ (~pi => OneOpen(ops', wire))
    BY <1>2, <2>4, <2>5, Zenon
  <2>7. CutSound(ops', wire, short, pi)
    BY <1>3, <2>3, <2>6, CutSoundKept, Zenon
  <2> QED BY <2>2, <2>5, <2>7, Zenon
<1>8. CASE UNCHANGED vars
  <2>1. ops' = ops /\ wire' = wire /\ short' = short /\ pipelined' = pipelined
    BY <1>8 DEF vars
  <2> QED BY <1>2, <2>1, Zenon
<1> QED BY <1>5, <1>6, <1>7, <1>8, Zenon DEF Next

LEMMA CutInit == Init => CutInv
<1> SUFFICES ASSUME Init PROVE CutInv
  OBVIOUS
<1>1. ops = << >> /\ wire = << >> /\ short = 0
  BY DEF Init
<1>2. DOMAIN ops = {} /\ Len(wire) = 0 /\ short \in Nat
  BY <1>1
<1>3. PICK q : q = [j \in 1..0 |-> 0]
  OBVIOUS
<1>4. PICK e : e = [j \in 1..(0 + 1) |-> 0]
  OBVIOUS
<1>5. /\ 0 \in Nat /\ 1..0 = {} /\ 1 \in 1..(0 + 1) /\ 0 + 1 = 1 /\ 0 <= 0 /\ 0 - 0 = 0
      /\ ~(0 < 0) /\ \A i : i \notin 1..0
  OBVIOUS
<1>6. q \in [1..0 -> DOMAIN ops]
  BY <1>3, <1>5, Zenon
<1>7. e \in [1..(0 + 1) -> Nat] /\ \A j \in 1..(0 + 1) : e[j] = 0
  BY <1>4, <1>5, Zenon
<1>8. Cuts(ops, wire, 0, q, e)
  BY <1>2, <1>5, <1>6, <1>7, Zenon DEF Cuts
<1>9. e[0 + 1] = 0
  BY <1>5, <1>7, Zenon
<1>10. Ends(ops, wire, 0, q, 0, 0)
  BY <1>2, <1>5, Zenon DEF Ends, Follows
<1>11. Cut(ops, wire)
  BY <1>8, <1>9, <1>10, Zenon DEF Cut
<1>12. AtOnce(ops, wire) /\ OneOpen(ops, wire)
  BY <1>2, Zenon DEF AtOnce, OneOpen
<1> QED BY <1>2, <1>11, <1>12, Zenon DEF CutInv, CutSound

\* Each response is that of its request.
ReplySound(o, a) == \A k \in DOMAIN o : Reply(o[k].buf, a[k], SeqId(k))

ReplyInv == ReplySound(ops, asked)

LEMMA ReplyNext == AskedInv /\ StreamInv /\ ReplyInv /\ [Next]_vars => ReplyInv'
<1> SUFFICES ASSUME AskedInv, StreamInv, ReplyInv, [Next]_vars PROVE ReplyInv'
  OBVIOUS
<1>1. PICK l \in Nat : l = Len(asked)
  BY DEF AskedInv
<1>2. StreamSound(ops, wire, l, phase) /\ ReplySound(ops, asked)
  BY <1>1, Zenon DEF StreamInv, ReplyInv
<1>3. DOMAIN ops \subseteq 1..l
  BY <1>2, Zenon DEF StreamSound
<1>4. SUFFICES ReplySound(ops', asked')
  BY Zenon DEF ReplyInv, ReplySound, Reply, SeqId, Good, ser_set_username_response,
               ser_server_error, username_valid
<1>5. CASE handle_recv
  <2>1. PICK req \in Asks(Len(asked) + 1) : handle(req) /\ asked' = Append(asked, req)
    BY <1>5, Zenon DEF handle_recv
  <2>2. asked'[l + 1] = req /\ \A k \in 1..l : asked'[k] = asked[k]
    BY <1>1, <2>1, AskedGrows, Zenon
  <2>3. \A k \in DOMAIN ops : Reply(ops[k].buf, asked'[k], SeqId(k))
    BY <1>2, <1>3, <2>2, Zenon DEF ReplySound
  <2>4. CASE ops' = ops
    BY <2>3, <2>4, Zenon DEF ReplySound
  <2>5. ASSUME NEW b, add_send(b), Reply(b, req, SeqId(l + 1))
        PROVE  ReplySound(ops', asked')
    <3>1. /\ DOMAIN ops' = DOMAIN ops \cup {l + 1}
          /\ \A k \in DOMAIN ops : ops'[k] = ops[k]
          /\ l + 1 \notin DOMAIN ops =>
                 ops'[l + 1] = [buf |-> b, processed |-> 0, res |-> 0, at |-> "kernel"]
      BY <1>1, <2>5, Zenon DEF add_send
    <3>2. l + 1 \notin DOMAIN ops
      <4>1. l + 1 \notin 1..l
        OBVIOUS
      <4> QED BY <1>3, <4>1, Zenon
    <3>3. ops'[l + 1].buf = b
      BY <3>1, <3>2
    <3> QED BY <2>2, <2>3, <2>5, <3>1, <3>3, Zenon DEF ReplySound
  <2>6. l + 1 \in Int
    OBVIOUS
  <2> QED BY <1>1, <2>1, <2>4, <2>5, <2>6, HandleReplies, Zenon
<1>6. ASSUME NEW k \in DOMAIN ops, KernelSend(k) \/ handle_send(k) \/ op_failed(k)
      PROVE  ReplySound(ops', asked')
  <2>1. SameBufs(ops, ops')
    <3>1. CASE KernelSend(k)
      <4>1. Sends(ops, wire, short, k, wire', ops', short')
        BY <3>1, Zenon DEF KernelSend, Sends
      <4>2. PICK c, d, n, left :
                SendIs(ops, wire, short, k, wire', ops', short', c, d, n, left)
        BY <1>1, <1>2, <4>1, SendBecomes, Zenon
      <4> QED BY <4>2, Zenon DEF SendIs, SameBufs
    <3>2. CASE handle_send(k) \/ op_failed(k)
      BY <1>2, <3>2, CompletionKeeps, Zenon
    <3> QED BY <1>6, <3>1, <3>2
  <2>2. asked' = asked
    BY <1>6, Zenon DEF KernelSend, handle_send, op_failed
  <2> QED BY <1>2, <2>1, <2>2, Zenon DEF ReplySound, SameBufs
<1>7. CASE UNCHANGED vars
  <2>1. ops' = ops /\ asked' = asked
    BY <1>7 DEF vars
  <2> QED BY <1>2, <2>1, Zenon
<1> QED BY <1>5, <1>6, <1>7, Zenon DEF Next

-----------------------------------------------------------------------------
(* What the client reads.                                                  *)

\* Where the message behind the one that begins at byte b begins.
NextBegin(bs, b) ==
    IF Len(bs) < b + HdrLen - 1 THEN b
    ELSE b + deser_header(SubSeq(bs, b, Len(bs))).len

\* f is what Begin is for l requests and a stream bs.
IsBegin(f, l, bs) ==
    f = [k \in 1..(l + 1) |-> IF k = 1 THEN 1 ELSE NextBegin(bs, f[k - 1])]

\* There is one such function.
LEMMA BeginUnique ==
    ASSUME NEW l \in Nat, NEW bs, NEW f, NEW g, IsBegin(f, l, bs), IsBegin(g, l, bs)
    PROVE  f = g
<1>1. /\ f = [k \in 1..(l + 1) |-> f[k]] /\ g = [k \in 1..(l + 1) |-> g[k]]
      /\ \A k \in 1..(l + 1) : f[k] = IF k = 1 THEN 1 ELSE NextBegin(bs, f[k - 1])
      /\ \A k \in 1..(l + 1) : g[k] = IF k = 1 THEN 1 ELSE NextBegin(bs, g[k - 1])
  BY Zenon DEF IsBegin
<1>2. PICK T : T = {k \in 1..(l + 1) : f[k] # g[k]}
  OBVIOUS
<1>3. T = {}
  <2> SUFFICES ASSUME T # {} PROVE FALSE
    OBVIOUS
  <2>1. T \in SUBSET Nat
    BY <1>2
  <2>2. PICK k \in T : \A j \in T : k <= j
    BY <2>1, LeastNat, Zenon
  <2>3. k \in 1..(l + 1) /\ f[k] # g[k]
    BY <1>2, Zenon
  <2>4. k # 1
    BY <1>1, <2>3, Zenon
  <2>5. k - 1 \in 1..(l + 1) /\ ~(k <= k - 1)
    BY <2>3, <2>4
  <2>6. f[k - 1] = g[k - 1]
    BY <1>2, <2>2, <2>5, Zenon
  <2> QED BY <1>1, <2>3, <2>4, <2>6, Zenon
<1>4. \A k \in 1..(l + 1) : f[k] = g[k]
  BY <1>2, <1>3, Zenon
<1> QED BY <1>1, <1>4, Zenon

LEMMA BeginIs ==
    ASSUME NEW l \in Nat, l = Len(asked), NEW g, IsBegin(g, l, Bytes)
    PROVE  Begin = g
<1>1. Begin = CHOOSE f : IsBegin(f, Len(asked), Bytes)
  BY Zenon DEF Begin, IsBegin, NextBegin
<1>2. IsBegin(Begin, l, Bytes)
  BY <1>1, Zenon
<1> QED BY <1>2, BeginUnique, Zenon

\* b begins with its header, which gives its length.
Framed(b, id) ==
    b \in Seq(Int) /\ Len(b) \in {11, 12} /\ \E t : HasHeader(b, Len(b), t, id)

\* The bytes of b behind the first p of bs, n of them.
Stands(bs, p, b, n) == \A i \in 1..n : bs[p + i] = b[i]

\* The header of a response leads to the byte behind it.
LEMMA HeaderAt ==
    ASSUME NEW bs \in Seq(Int), NEW p \in Nat, p + 11 <= Len(bs), NEW b,
           NEW id \in Seq(Int), Len(id) = 8, Framed(b, id), Stands(bs, p, b, 11)
    PROVE  NextBegin(bs, p + 1) = p + 1 + Len(b)
<1>1. PICK t : HasHeader(b, Len(b), t, id)
  BY Zenon DEF Framed
<1>2. Len(b) \in Uint16
  <2>1. ASSUME NEW n \in {11, 12} PROVE n \in Uint16
    BY DEF Uint16
  <2> QED BY <2>1, Zenon DEF Framed
<1>3. PICK l \in Nat : l = Len(bs)
  BY LenProperties
<1>4. p + 1 \in 1..l /\ l \in (p + 1)..l
  BY <1>3
<1>5. PICK g : g = SubSeq(bs, p + 1, Len(bs))
  OBVIOUS
<1>6. /\ g \in Seq(Int) /\ Len(g) = l - (p + 1) + 1
      /\ \A i \in 1..(l - (p + 1) + 1) : g[i] = bs[p + 1 + i - 1]
  BY <1>3, <1>4, <1>5, Piece, Zenon
<1>7. Len(g) >= 11
  BY <1>3, <1>6
<1>8. ASSUME NEW i \in 1..11 PROVE g[i] = b[i]
  <2>1. i \in 1..(l - (p + 1) + 1) /\ p + 1 + i - 1 = p + i
    BY <1>3
  <2>2. g[i] = bs[p + i]
    BY <1>6, <2>1, Zenon
  <2> QED BY <2>2, Zenon DEF Stands
<1>9. HasHeader(g, Len(b), t, id)
  BY <1>1, <1>6, <1>7, <1>8, HeaderKept, Zenon
<1>10. deser_header(g) = [len |-> Len(b), msgt |-> t, seqid |-> id]
  BY <1>2, <1>9, DecodeHeader, Zenon
<1>11. deser_header(g).len = Len(b)
  BY <1>10
<1>12. ~(Len(bs) < p + 1 + HdrLen - 1)
  BY <1>3
<1> QED BY <1>5, <1>11, <1>12, Zenon DEF NextBegin

\* The bytes up to there are the response.
LEMMA MessageAt ==
    ASSUME NEW bs \in Seq(Int), NEW p \in Nat, NEW b \in Seq(Int), NEW n \in Nat,
           n = Len(b), n > 0, p + n <= Len(bs), Stands(bs, p, b, n)
    PROVE  SubSeq(bs, p + 1, p + n) = b
<1>1. PICK l \in Nat : l = Len(bs)
  BY LenProperties
<1>2. p + 1 \in 1..l /\ p + n \in (p + 1)..l
  BY <1>1
<1>3. PICK g : g = SubSeq(bs, p + 1, p + n)
  OBVIOUS
<1>4. /\ g \in Seq(Int) /\ Len(g) = p + n - (p + 1) + 1
      /\ \A i \in 1..(p + n - (p + 1) + 1) : g[i] = bs[p + 1 + i - 1]
  BY <1>1, <1>2, <1>3, Piece
<1>5. p + n - (p + 1) + 1 = n
  OBVIOUS
<1>6. ASSUME NEW i \in 1..n PROVE g[i] = b[i]
  <2>1. p + 1 + i - 1 = p + i
    OBVIOUS
  <2>2. g[i] = bs[p + i]
    BY <1>4, <1>5, <2>1, Zenon
  <2> QED BY <2>2, Zenon DEF Stands
<1>7. Len(g) = Len(b) /\ \A i \in 1..Len(g) : g[i] = b[i]
  BY <1>4, <1>5, <1>6, Zenon
<1> QED BY <1>3, <1>4, <1>7, SeqEqual

\* Behind the whole responses, x bytes, the client finds no more than the
\* beginning of one: no header yet, or one whose response is not all there.
LEMMA StopAt ==
    ASSUME NEW bs \in Seq(Int), NEW x \in Nat, x <= Len(bs), NEW b, NEW id \in Seq(Int),
           Len(id) = 8, x < Len(bs) => Framed(b, id) /\ Len(bs) - x < Len(b),
           Stands(bs, x, b, Len(bs) - x)
    PROVE  \E y \in Nat : /\ NextBegin(bs, x + 1) = y /\ NextBegin(bs, y) = y
                          /\ y = x + 1 \/ y > Len(bs) + 1
<1>1. PICK l \in Nat : l = Len(bs)
  BY LenProperties
<1>2. CASE l < x + 11
  <2>1. Len(bs) < x + 1 + HdrLen - 1 /\ x + 1 \in Nat
    BY <1>1, <1>2
  <2>2. NextBegin(bs, x + 1) = x + 1
    BY <2>1, Zenon DEF NextBegin
  <2> QED BY <2>1, <2>2, Zenon
<1>3. CASE ~(l < x + 11)
  <2>1. x < Len(bs)
    BY <1>1, <1>3
  <2>2. Framed(b, id) /\ l - x < Len(b) /\ Len(b) \in {11, 12}
    BY <1>1, <2>1, Zenon DEF Framed
  <2>3. l = x + 11 /\ Len(b) = 12
    <3>1. PICK d \in {11, 12} : d = Len(b) /\ l - x < d
      BY <2>2, Zenon
    <3>2. CASE d = 11
      BY <1>3, <3>1, <3>2
    <3>3. CASE d = 12
      <4>1. l - x < 12
        BY <3>1, <3>3, Zenon
      <4>2. l = x + 11
        BY <1>3, <4>1
      <4> QED BY <3>1, <3>3, <4>2, Zenon
    <3> QED BY <3>1, <3>2, <3>3
  <2>4. Stands(bs, x, b, 11)
    <3>1. Len(bs) - x = 11
      BY <1>1, <2>3
    <3> QED BY <3>1, Zenon
  <2>5. x + 11 <= Len(bs)
    BY <1>1, <2>3
  <2>6. NextBegin(bs, x + 1) = x + 1 + Len(b)
    BY <2>2, <2>4, <2>5, HeaderAt, Zenon
  <2>7. PICK y \in Nat : y = x + 1 + Len(b)
    BY <2>3
  <2>8. y > Len(bs) + 1 /\ Len(bs) < y + HdrLen - 1
    BY <1>1, <2>3, <2>7
  <2>9. NextBegin(bs, y) = y
    BY <2>8, Zenon DEF NextBegin
  <2> QED BY <2>6, <2>7, <2>8, <2>9, Zenon
<1> QED BY <1>2, <1>3

\* bs is the stream w without the responses its bytes are of.
Read(bs, w) ==
    /\ bs \in Seq(Int) /\ Len(bs) = Len(w)
    /\ \A i \in 1..Len(w) : bs[i] = w[i].byte

LEMMA BytesRead ==
    ASSUME wire \in Seq(Piped)
    PROVE  Read(Bytes, wire)
<1>1. PICK n \in Nat : n = Len(wire) /\ DOMAIN wire = 1..n
  BY LenProperties
<1>2. PICK bs : bs = [i \in 1..n |-> wire[i].byte]
  OBVIOUS
<1>3. \A i \in 1..n : wire[i].byte \in Int
  <2>1. ASSUME NEW i \in 1..n PROVE wire[i] \in Piped
    BY <1>1, ElementOfSeq
  <2>2. \A r \in Piped : r.byte \in Int
    BY DEF Piped
  <2> QED BY <2>1, <2>2, Zenon
<1>4. bs \in Seq(Int) /\ Len(bs) = n /\ \A i \in 1..n : bs[i] = wire[i].byte
  BY <1>2, <1>3
<1>5. Bytes = bs
  BY <1>1, <1>2, Zenon DEF Bytes
<1> QED BY <1>1, <1>4, <1>5, Zenon DEF Read

\* A response that is whole is a message of the stream.
LEMMA WholeAt ==
    ASSUME NEW w, NEW bs, Read(bs, w), NEW o, NEW k \in Int, Framed(o[k].buf, SeqId(k)),
           NEW a \in Nat, NEW b \in Nat, b <= Len(w), Whole(o, w, k, a, b)
    PROVE  /\ NextBegin(bs, a + 1) = b + 1 /\ a < b
           /\ SubSeq(bs, a + 1, b) = o[k].buf
<1>1. PICK f : f = o[k].buf
  OBVIOUS
<1>2. f \in Seq(Int) /\ Framed(f, SeqId(k)) /\ Len(f) \in {11, 12}
  BY <1>1, Zenon DEF Framed
<1>3. PICK n \in {11, 12} : n = Len(f)
  BY <1>2, Zenon
<1>4. n \in Nat /\ n > 0 /\ n >= 11
  BY <1>3
<1>5. b = a + n /\ Follows(o, w, a, k, n)
  BY <1>1, <1>3, Zenon DEF Whole
<1>6. bs \in Seq(Int) /\ Len(bs) = Len(w) /\ \A i \in 1..Len(w) : bs[i] = w[i].byte
  BY Zenon DEF Read
<1>7. PICK l \in Nat : l = Len(w)
  BY <1>6, LenProperties, Zenon
<1>8. a + n <= l
  BY <1>5, <1>7, Zenon
<1>9. \A i \in 1..n : a + i \in 1..l
  BY <1>4, <1>8
<1>10. Stands(bs, a, f, n)
  BY <1>1, <1>5, <1>6, <1>7, <1>9, Zenon DEF Stands, Follows
<1>11. Stands(bs, a, f, 11)
  <2>1. \A i \in 1..11 : i \in 1..n
    BY <1>4
  <2> QED BY <1>10, <2>1, Zenon DEF Stands
<1>12. a + 11 <= Len(bs) /\ a + n <= Len(bs)
  <2>1. a + 11 <= l
    BY <1>4, <1>8
  <2> QED BY <1>6, <1>7, <1>8, <2>1, Zenon
<1>13. SeqId(k) \in Seq(Int) /\ Len(SeqId(k)) = 8
  BY SeqIdBytes
<1>14. NextBegin(bs, a + 1) = a + 1 + n
  BY <1>2, <1>3, <1>6, <1>11, <1>12, <1>13, HeaderAt, Zenon
<1>15. SubSeq(bs, a + 1, a + n) = f
  BY <1>2, <1>3, <1>4, <1>6, <1>10, <1>12, MessageAt, Zenon
<1>16. a + 1 + n = b + 1 /\ a < b
  BY <1>4, <1>5
<1> QED BY <1>1, <1>5, <1>14, <1>15, <1>16, Zenon

AllFramed(o) == \A k \in DOMAIN o : k \in Int /\ Framed(o[k].buf, SeqId(k))

\* Each of the m whole responses leads to the one behind it.
Leads(bs, o, m, q, e) ==
    \A j \in 1..m : /\ NextBegin(bs, e[j] + 1) = e[j + 1] + 1 /\ e[j] < e[j + 1]
                    /\ e[j] \in Nat /\ e[j + 1] \in Nat /\ e[j + 1] <= Len(bs)
                    /\ SubSeq(bs, e[j] + 1, e[j + 1]) = o[q[j]].buf

LEMMA CutLeads ==
    ASSUME NEW w, NEW bs, Read(bs, w), NEW o, AllFramed(o), NEW m, NEW q, NEW e,
           Cuts(o, w, m, q, e)
    PROVE  Leads(bs, o, m, q, e)
<1>1. /\ m \in Nat /\ q \in [1..m -> DOMAIN o] /\ e \in [1..(m + 1) -> Nat]
      /\ \A j \in 1..(m + 1) : e[j] <= Len(w)
      /\ \A j \in 1..m : Whole(o, w, q[j], e[j], e[j + 1])
  BY Zenon DEF Cuts
<1> SUFFICES ASSUME NEW j \in 1..m
             PROVE  /\ NextBegin(bs, e[j] + 1) = e[j + 1] + 1 /\ e[j] < e[j + 1]
                    /\ e[j] \in Nat /\ e[j + 1] \in Nat /\ e[j + 1] <= Len(bs)
                    /\ SubSeq(bs, e[j] + 1, e[j + 1]) = o[q[j]].buf
  BY Zenon DEF Leads
<1>2. j \in 1..(m + 1) /\ j + 1 \in 1..(m + 1)
  BY <1>1
<1>3. e[j] \in Nat /\ e[j + 1] \in Nat /\ e[j + 1] <= Len(w)
  BY <1>1, <1>2
<1>4. q[j] \in DOMAIN o
  BY <1>1
<1>5. q[j] \in Int /\ Framed(o[q[j]].buf, SeqId(q[j]))
  BY <1>4, Zenon DEF AllFramed
<1>6. Whole(o, w, q[j], e[j], e[j + 1]) /\ Len(bs) = Len(w)
  BY <1>1, Zenon DEF Read
<1>7. PICK k, a, b : k = q[j] /\ a = e[j] /\ b = e[j + 1]
  BY Zenon
<1>8. /\ k \in Int /\ Framed(o[k].buf, SeqId(k)) /\ a \in Nat /\ b \in Nat
      /\ b <= Len(w) /\ Whole(o, w, k, a, b)
  BY <1>3, <1>5, <1>6, <1>7, Zenon
<1>9. /\ NextBegin(bs, a + 1) = b + 1 /\ a < b
      /\ SubSeq(bs, a + 1, b) = o[k].buf
  BY <1>8, WholeAt
<1> QED BY <1>3, <1>6, <1>7, <1>9, Zenon

\* Behind them there is no other message.
Stops(bs, x, y) ==
    /\ y \in Nat /\ NextBegin(bs, x + 1) = y /\ NextBegin(bs, y) = y
    /\ y = x + 1 \/ y > Len(bs) + 1

LEMMA CutStops ==
    ASSUME NEW w, NEW bs, Read(bs, w), NEW o, AllFramed(o), NEW m, NEW q, NEW x \in Nat,
           x <= Len(w), NEW t, Ends(o, w, m, q, x, t)
    PROVE  \E y : Stops(bs, x, y)
<1>1. bs \in Seq(Int) /\ Len(bs) = Len(w) /\ \A i \in 1..Len(w) : bs[i] = w[i].byte
  BY Zenon DEF Read
<1>2. PICK l \in Nat : l = Len(w) /\ x <= l
  BY <1>1, LenProperties, Zenon
<1>3. PICK b : b = o[t].buf
  OBVIOUS
<1>4. PICK d \in Nat : d = l - x
  <2>1. l - x \in Nat
    BY <1>2
  <2> QED BY <2>1, Zenon
<1>5. x < l => t \in DOMAIN o /\ d < Len(b)
  BY <1>2, <1>3, <1>4, Zenon DEF Ends
<1>6. PICK id : /\ id \in Seq(Int) /\ Len(id) = 8
                /\ t \in DOMAIN o => Framed(b, id)
  <2>1. CASE t \in DOMAIN o
    <3>1. t \in Int /\ Framed(b, SeqId(t))
      BY <1>3, <2>1, Zenon DEF AllFramed
    <3> QED BY <3>1, SeqIdBytes, Zenon
  <2>2. CASE t \notin DOMAIN o
    <3>1. SeqId(0) \in Seq(Int) /\ Len(SeqId(0)) = 8
      BY SeqIdBytes
    <3> QED BY <2>2, <3>1, Zenon
  <2> QED BY <2>1, <2>2
<1>7. \A i \in 1..d : x + i \in 1..l
  BY <1>4
<1>8. Stands(bs, x, b, d)
  BY <1>1, <1>2, <1>3, <1>4, <1>7, Zenon DEF Ends, Follows, Stands
<1>9. /\ x <= Len(bs) /\ x < Len(bs) => Framed(b, id) /\ Len(bs) - x < Len(b)
      /\ Stands(bs, x, b, Len(bs) - x)
  BY <1>1, <1>2, <1>4, <1>5, <1>6, <1>8, Zenon
<1>10. PICK y \in Nat : /\ NextBegin(bs, x + 1) = y /\ NextBegin(bs, y) = y
                        /\ y = x + 1 \/ y > Len(bs) + 1
  BY <1>1, <1>6, <1>9, StopAt, Zenon
<1> QED BY <1>10, Zenon DEF Stops

\* The places where the client sees a message begin.
Begins(g, l, m, e, y) ==
    g = [k \in 1..(l + 1) |-> IF k \in 1..(m + 1) THEN e[k] + 1 ELSE y]

LEMMA BeginsIs ==
    ASSUME NEW bs, NEW l \in Nat, NEW m \in Nat, m <= l, NEW o, NEW q, NEW e, e[1] = 0,
           Leads(bs, o, m, q, e), NEW y, Stops(bs, e[m + 1], y), NEW g,
           Begins(g, l, m, e, y)
    PROVE  IsBegin(g, l, bs)
<1>1. \A k \in 1..(l + 1) : g[k] = IF k \in 1..(m + 1) THEN e[k] + 1 ELSE y
  BY Zenon DEF Begins
<1>2. ASSUME NEW k \in 1..(l + 1)
      PROVE  g[k] = IF k = 1 THEN 1 ELSE NextBegin(bs, g[k - 1])
  <2>1. CASE k = 1
    <3>1. 1 \in 1..(m + 1) /\ 0 + 1 = 1
      OBVIOUS
    <3> QED BY <1>1, <2>1, <3>1, Zenon
  <2>2. CASE k # 1 /\ k \in 1..(m + 1)
    <3>1. PICK j \in 1..m : j + 1 = k /\ k - 1 = j
      <4>1. k - 1 \in 1..m /\ (k - 1) + 1 = k
        BY <2>2
      <4> QED BY <4>1, Zenon
    <3>2. j \in 1..(l + 1) /\ j \in 1..(m + 1)
      OBVIOUS
    <3>3. NextBegin(bs, e[j] + 1) = e[j + 1] + 1
      BY <3>1, Zenon DEF Leads
    <3> QED BY <1>1, <2>2, <3>1, <3>2, <3>3, Zenon
  <2>3. CASE k = m + 2
    <3>1. k - 1 = m + 1 /\ k # 1 /\ k \notin 1..(m + 1) /\ m + 1 \in 1..(m + 1)
          /\ m + 1 \in 1..(l + 1)
      BY <2>3
    <3>2. NextBegin(bs, e[m + 1] + 1) = y
      BY Zenon DEF Stops
    <3> QED BY <1>1, <3>1, <3>2, Zenon
  <2>4. CASE k # 1 /\ k \notin 1..(m + 1) /\ k # m + 2
    <3>1. k - 1 \in 1..(l + 1) /\ k - 1 \notin 1..(m + 1)
      BY <2>4
    <3>2. NextBegin(bs, y) = y
      BY Zenon DEF Stops
    <3> QED BY <1>1, <2>4, <3>1, <3>2, Zenon
  <2> QED BY <2>1, <2>2, <2>3, <2>4
<1>3. g = [k \in 1..(l + 1) |-> g[k]]
  BY Zenon DEF Begins
<1> QED BY <1>2, <1>3, Zenon DEF IsBegin

\* The message that begins at g[k] is complete.
Complete(g, bs, k) == g[k] < g[k + 1] /\ g[k + 1] <= Len(bs) + 1

\* It is one of the first m and it is its response, or it is not complete.
Right(g, bs, o, m, q, k) ==
    /\ Complete(g, bs, k) <=> k \in 1..m
    /\ k \in 1..m => SubSeq(bs, g[k], g[k + 1] - 1) = o[q[k]].buf

LEMMA BeginsWhole ==
    ASSUME NEW bs, Len(bs) \in Nat, NEW l \in Nat, NEW m \in Nat, m <= l, NEW o, NEW q,
           NEW e, e[m + 1] \in Nat, Leads(bs, o, m, q, e), NEW y, Stops(bs, e[m + 1], y),
           NEW g, Begins(g, l, m, e, y), NEW k \in 1..l
    PROVE  Right(g, bs, o, m, q, k)
<1>1. \A j \in 1..(l + 1) : g[j] = IF j \in 1..(m + 1) THEN e[j] + 1 ELSE y
  BY Zenon DEF Begins
<1>2. k \in 1..(l + 1) /\ k + 1 \in 1..(l + 1)
  OBVIOUS
<1>3. CASE k \in 1..m
  <2>1. k \in 1..(m + 1) /\ k + 1 \in 1..(m + 1)
    BY <1>3
  <2>2. g[k] = e[k] + 1 /\ g[k + 1] = e[k + 1] + 1
    BY <1>1, <1>2, <2>1, Zenon
  <2>3. PICK a \in Nat, b \in Nat : a = e[k] /\ b = e[k + 1]
    BY <1>3, Zenon DEF Leads
  <2>4. a < b /\ b <= Len(bs) /\ SubSeq(bs, a + 1, b) = o[q[k]].buf
    BY <1>3, <2>3, Zenon DEF Leads
  <2>5. a + 1 < b + 1 /\ b + 1 <= Len(bs) + 1 /\ (b + 1) - 1 = b
    BY <2>4
  <2> QED BY <1>3, <2>2, <2>3, <2>4, <2>5, Zenon DEF Complete, Right
<1>4. CASE k = m + 1
  <2>1. k \notin 1..m /\ k \in 1..(m + 1) /\ k + 1 \notin 1..(m + 1)
    BY <1>4
  <2>2. g[k] = e[m + 1] + 1 /\ g[k + 1] = y
    BY <1>1, <1>2, <1>4, <2>1, Zenon
  <2>3. y \in Nat /\ (y = e[m + 1] + 1 \/ y > Len(bs) + 1)
    BY Zenon DEF Stops
  <2>4. ~(g[k] < g[k + 1] /\ g[k + 1] <= Len(bs) + 1)
    BY <2>2, <2>3
  <2> QED BY <2>1, <2>4, Zenon DEF Complete, Right
<1>5. CASE k \notin 1..(m + 1)
  <2>1. k \notin 1..m /\ k + 1 \notin 1..(m + 1)
    BY <1>5
  <2>2. g[k] = y /\ g[k + 1] = y /\ y \in Nat
    BY <1>1, <1>2, <1>5, <2>1, Zenon DEF Stops
  <2>3. ~(g[k] < g[k + 1])
    BY <2>2
  <2> QED BY <2>1, <2>3, Zenon DEF Complete, Right
<1>6. k \in 1..m \/ k = m + 1 \/ k \notin 1..(m + 1)
  OBVIOUS
<1> QED BY <1>3, <1>4, <1>5, <1>6

\* There are no more whole responses than requests.
LEMMA CutBound ==
    ASSUME NEW o, NEW w, NEW m, NEW q, NEW e, Cuts(o, w, m, q, e), NEW l \in Nat,
           DOMAIN o \subseteq 1..l
    PROVE  m <= l
<1>1. m \in Nat /\ q \in [1..m -> DOMAIN o] /\ \A i, j \in 1..m : q[i] = q[j] => i = j
  BY Zenon DEF Cuts
<1>2. q \in [1..m -> 1..l]
  BY <1>1
<1>3. q \in Injection(1..m, 1..l)
  BY <1>1, <1>2, Zenon DEF Injection, IsInjective
<1>4. /\ IsFiniteSet(1..l) /\ Cardinality(1..l) = IF 1 > l THEN 0 ELSE l - 1 + 1
      /\ Cardinality(1..m) = IF 1 > m THEN 0 ELSE m - 1 + 1
  BY <1>1, FS_Interval
<1>5. Cardinality(1..m) <= Cardinality(1..l)
  BY <1>3, <1>4, FS_Injection, Zenon
<1>6. Cardinality(1..l) = l /\ Cardinality(1..m) = m
  BY <1>1, <1>4
<1> QED BY <1>5, <1>6, Zenon

Wholes(o, m, q) == {o[q[j]].buf : j \in 1..m}

\* The messages that the client reads are the whole responses of a stream that
\* is cut into them.
LEMMA CutMessages ==
    ASSUME NEW l \in Nat, l = Len(asked), wire \in Seq(Piped), DOMAIN ops \subseteq 1..l,
           AllFramed(ops), NEW m, NEW q, NEW e, NEW t, Cuts(ops, wire, m, q, e),
           Ends(ops, wire, m, q, e[m + 1], t)
    PROVE  Messages = Wholes(ops, m, q)
<1>1. PICK bs : bs = Bytes
  OBVIOUS
<1>2. Read(bs, wire) /\ bs \in Seq(Int) /\ Len(bs) = Len(wire)
  BY <1>1, BytesRead, Zenon DEF Read
<1>3. m \in Nat /\ e[1] = 0 /\ e \in [1..(m + 1) -> Nat]
      /\ \A j \in 1..(m + 1) : e[j] <= Len(wire)
  BY Zenon DEF Cuts
<1>4. PICK x \in Nat : x = e[m + 1] /\ x <= Len(wire)
  <2>1. m + 1 \in 1..(m + 1)
    BY <1>3
  <2> QED BY <1>3, <2>1
<1>5. m <= l
  BY CutBound, Zenon
<1>6. Leads(bs, ops, m, q, e)
  BY <1>2, CutLeads, Zenon
<1>7. PICK y : Stops(bs, e[m + 1], y)
  BY <1>2, <1>4, CutStops, Zenon
<1>8. PICK g : Begins(g, l, m, e, y)
  BY Zenon DEF Begins
<1>9. IsBegin(g, l, bs)
  BY <1>3, <1>5, <1>6, <1>7, <1>8, BeginsIs, Zenon
<1>10. Begin = g
  BY <1>1, <1>9, BeginIs, Zenon
<1>11. Messages = {SubSeq(bs, g[k], g[k + 1] - 1) :
                      k \in {j \in 1..l : Complete(g, bs, j)}}
  BY <1>1, <1>10, Zenon DEF Messages, Complete
<1>12. Len(bs) \in Nat
  BY <1>2, LenProperties, Zenon
<1>13. ASSUME NEW k \in 1..l PROVE Right(g, bs, ops, m, q, k)
  <2>1. m \in Nat /\ e[m + 1] \in Nat
    BY <1>3, <1>4, Zenon
  <2> QED BY <1>5, <1>6, <1>7, <1>8, <1>12, <2>1, BeginsWhole, Zenon
<1>14. \A j \in 1..m : j \in 1..l
  BY <1>3, <1>5
<1>15. {j \in 1..l : Complete(g, bs, j)} = 1..m
  BY <1>13, <1>14, Zenon DEF Right
<1>16. \A k \in 1..m : SubSeq(bs, g[k], g[k + 1] - 1) = ops[q[k]].buf
  BY <1>13, <1>14, Zenon DEF Right
<1> QED BY <1>11, <1>15, <1>16, Zenon DEF Wholes

\* When nothing is left to be written, every response is a whole one.
LEMMA CutComplete ==
    ASSUME NEW o, NEW w, NEW l \in Nat, NEW ph, StreamSound(o, w, l, ph), AllFramed(o),
           NEW m, NEW q, NEW e, NEW t, Cuts(o, w, m, q, e), Ends(o, w, m, q, e[m + 1], t),
           \A k \in DOMAIN o : ~Open(o, w, k), NEW k \in DOMAIN o
    PROVE  Among(q, m, k)
<1>1. ASSUME NEW j \in DOMAIN o
      PROVE  Len(o[j].buf) \in Nat /\ Count(w, Len(w), j) = Len(o[j].buf)
  <2>1. HaveLengths(o) /\ Len(w) \in Nat
    BY StreamLengths, Zenon
  <2>2. PICK c \in Nat : c = Count(w, Len(w), j)
    BY <2>1, CountNat, Zenon
  <2>3. PICK d \in Nat : d = Len(o[j].buf)
    BY <2>1, Zenon DEF HaveLengths
  <2>4. c <= d /\ ~(c < d)
    BY <2>2, <2>3, Zenon DEF StreamSound, OpSound, Open
  <2>5. c = d
    BY <2>4
  <2> QED BY <2>2, <2>3, <2>5, Zenon
<1>2. SUFFICES ASSUME ~Among(q, m, k) PROVE FALSE
  OBVIOUS
<1>3. PICK n \in {11, 12} : n = Len(o[k].buf)
  BY Zenon DEF AllFramed, Framed
<1>4. Count(w, Len(w), k) = n
  BY <1>1, <1>3, Zenon
<1>5. n \in Nat /\ n > 0 /\ n # 0
  <2>1. \A z \in {11, 12} : z \in Nat /\ z > 0 /\ z # 0
    OBVIOUS
  <2> QED BY <1>3, <2>1, Zenon
<1>6. k = t /\ n = Len(w) - e[m + 1]
  BY <1>2, <1>4, <1>5, Zenon DEF Ends
<1>7. e[m + 1] \in Nat /\ Len(w) \in Nat
  <2>1. m \in Nat /\ e \in [1..(m + 1) -> Nat]
    BY Zenon DEF Cuts
  <2>2. m + 1 \in 1..(m + 1)
    BY <2>1
  <2> QED BY <2>1, <2>2, StreamLengths, Zenon
<1>8. PICK x \in Nat, z \in Nat : x = e[m + 1] /\ z = Len(w)
  BY <1>7, Zenon
<1>9. n = z - x
  BY <1>6, <1>8, Zenon
<1>10. x < z
  BY <1>5, <1>9
<1>11. n < n
  BY <1>3, <1>6, <1>8, <1>10, Zenon DEF Ends
<1> QED BY <1>5, <1>11

\* Two requests have two answers.
LEMMA AnswersDiffer ==
    ASSUME NEW j \in Int, NEW k \in Int, NEW b, Answers(b, j), Answers(b, k)
    PROVE  j = k
<1>1. SeqId(j) = SeqId(k)
  BY Zenon DEF Answers
<1>2. SeqId(j)[1] = j /\ SeqId(k)[1] = k
  BY DEF SeqId
<1> QED BY <1>1, <1>2, Zenon

LEMMA MessagesCounted ==
    ASSUME NEW l \in Nat, DOMAIN ops \subseteq 1..l,
           \A k \in DOMAIN ops : Answers(ops[k].buf, k)
    PROVE  Cardinality({ops[k].buf : k \in DOMAIN ops}) = Cardinality(DOMAIN ops)
<1>1. PICK D : D = DOMAIN ops
  OBVIOUS
<1>2. PICK T : T = {ops[k].buf : k \in DOMAIN ops}
  OBVIOUS
<1>3. PICK f : f = [k \in D |-> ops[k].buf]
  OBVIOUS
<1>4. f \in [D -> T] /\ DOMAIN f = D /\ \A k \in D : f[k] = ops[k].buf
  BY <1>1, <1>2, <1>3, Zenon
<1>5. \A k \in D : k \in Int
  <2>1. \A k \in 1..l : k \in Int
    OBVIOUS
  <2> QED BY <1>1, <2>1, Zenon
<1>6. ASSUME NEW j \in D, NEW k \in D, f[j] = f[k] PROVE j = k
  BY <1>1, <1>4, <1>5, <1>6, AnswersDiffer, Zenon
<1>7. f \in Injection(D, T)
  BY <1>4, <1>6, Zenon DEF Injection, IsInjective
<1>8. f \in Surjection(D, T)
  BY <1>1, <1>2, <1>4, Zenon DEF Surjection
<1>9. ExistsBijection(D, T)
  BY <1>7, <1>8, Zenon DEF ExistsBijection, Bijection
<1>10. IsFiniteSet(D)
  <2>1. IsFiniteSet(1..l)
    BY FS_Interval
  <2> QED BY <1>1, <2>1, FS_Subset, Zenon
<1> QED BY <1>1, <1>2, <1>9, <1>10, FS_Bijection, Zenon

LEMMA WholeRead == AskedInv /\ StreamInv /\ CutInv /\ ReplyInv => WholeAnswers
<1> SUFFICES ASSUME AskedInv, StreamInv, CutInv, ReplyInv, short = 0 \/ ~pipelined
             PROVE  /\ \A msg \in Messages : \E k \in DOMAIN ops : Answers(msg, k)
                    /\ (\A k \in DOMAIN ops : ~Unfinished(k)) =>
                           /\ Cardinality(Messages) = Cardinality(DOMAIN ops)
                           /\ \A k \in DOMAIN ops : \E msg \in Messages : Answers(msg, k)
  BY Zenon DEF WholeAnswers
<1>1. PICK l \in Nat : l = Len(asked)
  BY DEF AskedInv
<1>2. StreamSound(ops, wire, l, phase)
  BY <1>1, Zenon DEF StreamInv
<1>3. wire \in Seq(Piped) /\ DOMAIN ops \subseteq 1..l
  BY <1>2, Zenon DEF StreamSound
<1>4. \A k \in DOMAIN ops : k \in Int /\ Reply(ops[k].buf, asked[k], SeqId(k))
  <2>1. \A k \in 1..l : k \in Int
    OBVIOUS
  <2> QED BY <1>3, <2>1, Zenon DEF ReplyInv, ReplySound
<1>5. AllFramed(ops)
  <2> SUFFICES ASSUME NEW k \in DOMAIN ops PROVE Framed(ops[k].buf, SeqId(k))
    BY <1>4, Zenon DEF AllFramed
  <2>1. SeqId(k) \in Seq(Int) /\ Len(SeqId(k)) = 8
    BY <1>4, SeqIdBytes, Zenon
  <2> QED BY <1>4, <2>1, ReplyHeader, Zenon DEF Framed
<1>6. \A k \in DOMAIN ops : Answers(ops[k].buf, k)
  BY <1>4, ReplyAnswers, Zenon
<1>7. PICK m, q, e, t : Cuts(ops, wire, m, q, e) /\ Ends(ops, wire, m, q, e[m + 1], t)
  BY Zenon DEF CutInv, CutSound, Cut
<1>8. Messages = Wholes(ops, m, q)
  BY <1>1, <1>3, <1>5, <1>7, CutMessages, Zenon
<1>9. \A j \in 1..m : q[j] \in DOMAIN ops
  <2>1. q \in [1..m -> DOMAIN ops]
    BY <1>7, Zenon DEF Cuts
  <2> QED BY <2>1, Zenon
<1>10. \A msg \in Messages : \E k \in DOMAIN ops : Answers(msg, k)
  BY <1>6, <1>8, <1>9, Zenon DEF Wholes
<1>11. ASSUME \A k \in DOMAIN ops : ~Unfinished(k)
       PROVE  /\ Cardinality(Messages) = Cardinality(DOMAIN ops)
              /\ \A k \in DOMAIN ops : \E msg \in Messages : Answers(msg, k)
  <2>1. DOMAIN wire = 1..Len(wire)
    BY <1>3
  <2>2. \A k \in DOMAIN ops : ~Open(ops, wire, k)
    BY <1>11, <2>1, Zenon DEF Unfinished, Taken, Count, Open
  <2>3. \A k \in DOMAIN ops : Among(q, m, k)
    BY <1>2, <1>5, <1>7, <2>2, CutComplete, Zenon
  <2>4. Messages = {ops[k].buf : k \in DOMAIN ops}
    BY <1>8, <1>9, <2>3, Zenon DEF Among, Wholes
  <2>5. Cardinality(Messages) = Cardinality(DOMAIN ops)
    BY <1>3, <1>6, <2>4, MessagesCounted, Zenon
  <2> QED BY <1>6, <2>4, <2>5, Zenon
<1> QED BY <1>10, <1>11, Zenon

\* If no write is short, or the client waits for each response, the stream that
\* add_send, resume_send and handle_send make of the responses is whole
\* messages, each the answer to a request of its own, and in the end there is
\* one for every request that was taken.
THEOREM SessionWholeAnswers == Spec => []WholeAnswers
<1>1. Init => ReplyInv
  <2> SUFFICES ASSUME Init PROVE ReplyInv
    OBVIOUS
  <2>1. DOMAIN ops = {}
    BY DEF Init
  <2> QED BY <2>1, Zenon DEF ReplyInv, ReplySound
<1> QED BY <1>1, WholeRead, AskedInit, AskedNext, StreamInit, StreamNext, CutInit, CutNext,
           ReplyNext, PTL DEF Spec
=============================================================================
