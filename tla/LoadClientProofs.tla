-------------------------- MODULE LoadClientProofs --------------------------
(***************************************************************************)
(* The load generator sends every message of a run once and counts every   *)
(* completion at most once, those that earlier runs have left included:    *)
(* for any number of messages, any batch sizes with fewer completions than *)
(* sends in a round, and any number of runs.                               *)
(***************************************************************************)
EXTENDS LoadClient, FiniteSetTheorems, TLAPS

InRun == pc \in {"send", "recv", "peek"}

Types == {"connect", "send", "recv"}

LoadTypes ==
    /\ num_messages \in Nat
    /\ pc \in {"socket", "connect", "send", "recv", "peek", "done", "failed"}
    /\ conn \in Nat
    /\ pc # "socket" => conn > 0
    /\ num_sent \in Nat /\ num_recv \in Nat /\ num_ack \in Nat
    /\ \A op \in kernel : op.type \in Types
    /\ IsFiniteSet(kernel)
    /\ cq \in Seq([type : Types, run : Nat, res : {-1, 1}])
    /\ \A op \in kernel : op.run \in Nat

(***************************************************************************)
(* In a run, the messages before num_sent were submitted, and they are not *)
(* yet all.  A round of sends puts num_sent ahead of the answers counted   *)
(* by SendBatch, and the peek of the round takes less than that of it.     *)
(***************************************************************************)
SentInv ==
    /\ InRun => /\ submitted = [i \in 1..num_sent |-> i - 1]
                /\ num_sent = 0 \/ num_sent < num_messages
                /\ num_ack <= num_sent
    /\ pc \in {"recv", "peek"} => num_ack + SendBatch <= num_sent
    /\ AllSentOnce

\* The shape of the queue after n completions were marked as seen.
LEMMA SeenCq ==
    ASSUME NEW T, cq \in Seq(T), NEW n \in Nat, n <= Len(cq), seen(n)
    PROVE  /\ cq' \in Seq(T)
           /\ Len(cq') = Len(cq) - n
           /\ \A i \in 1..Len(cq') : i + n \in 1..Len(cq) /\ cq'[i] = cq[i + n]
<1>1. cq' = SubSeq(cq, n + 1, Len(cq))
  BY DEF seen
<1> QED BY <1>1

\* The messages of a round are an interval.
LEMMA BatchInterval ==
    ASSUME NEW f \in Nat, NEW n \in Nat, num_messages \in Nat
    PROVE  /\ IsFiniteSet(Batch(f, n))
           /\ Batch(f, n) \subseteq Nat
           /\ Cardinality(Batch(f, n)) \in Nat
           /\ f + n <= num_messages => Cardinality(Batch(f, n)) = n
           /\ f <= num_messages /\ num_messages <= f + n =>
                  Cardinality(Batch(f, n)) = num_messages - f
<1>1. IsFiniteSet(f..(f + n - 1)) /\ Batch(f, n) \in SUBSET (f..(f + n - 1))
  <2>1. f \in Int /\ f + n - 1 \in Int
    OBVIOUS
  <2> QED BY <2>1, FS_Interval DEF Batch
<1>2. IsFiniteSet(Batch(f, n)) /\ Cardinality(Batch(f, n)) \in Nat
  BY <1>1, FS_Subset, FS_CardinalityType
<1>3. ASSUME NEW g \in Int, f <= g, g <= f + n, g <= num_messages,
             g = f + n \/ g = num_messages
      PROVE  Cardinality(Batch(f, n)) = g - f
  <2>1. Batch(f, n) = f..(g - 1)
    BY <1>3 DEF Batch
  <2>2. f \in Int /\ g - 1 \in Int
    BY <1>3
  <2>3. Cardinality(f..(g - 1)) = IF f > g - 1 THEN 0 ELSE (g - 1) - f + 1
    BY <2>2, FS_Interval
  <2> QED BY <2>1, <2>3, <1>3
<1>4. f + n <= num_messages => Cardinality(Batch(f, n)) = n
  BY <1>3
<1>5. f <= num_messages /\ num_messages <= f + n => Cardinality(Batch(f, n)) = num_messages - f
  BY <1>3
<1>6. Batch(f, n) \subseteq Nat
  BY DEF Batch
<1> QED BY <1>2, <1>4, <1>5, <1>6

\* A round of operations has at most one for each message.
LEMMA OpsOfBatch ==
    ASSUME NEW type, NEW S, IsFiniteSet(S)
    PROVE  /\ IsFiniteSet({Op(type, i) : i \in S})
           /\ Cardinality({Op(type, i) : i \in S}) \in Nat
           /\ Cardinality({Op(type, i) : i \in S}) <= Cardinality(S)
<1> DEFINE T == {Op(type, i) : i \in S}
           f == [i \in S |-> Op(type, i)]
<1>1. f \in Surjection(S, T)
  BY DEF Surjection
<1> HIDE DEF f, T
<1>2. IsFiniteSet(T) /\ Cardinality(T) <= Cardinality(S)
  BY <1>1, FS_Surjection
<1>3. Cardinality(T) \in Nat
  BY <1>2, FS_CardinalityType
<1> QED BY <1>2, <1>3 DEF T

\* A peek counts no more answers than the completions it has seen.
LEMMA HandleCount ==
    ASSUME NEW n \in Nat, n <= Len(cq), num_ack \in Nat, Handle(n)
    PROVE  num_ack' \in Nat /\ num_ack' <= num_ack + n
<1> DEFINE good == {i \in 1..n : cq[i].res >= 0}
           own == {i \in good : cq[i].type = "recv" /\ cq[i].run = bufs}
           alien == {i \in good : cq[i].type = "connect" \/ cq[i].run # bufs}
<1>1. PICK misread \in SUBSET alien :
               num_ack' = num_ack + Cardinality(own) + Cardinality(misread)
  BY DEF Handle
<1>2. own \cap misread = {} /\ own \cup misread \in SUBSET (1..n)
      /\ own \in SUBSET (1..n) /\ misread \in SUBSET (1..n)
  OBVIOUS
<1> HIDE DEF own, alien
<1>3. IsFiniteSet(1..n) /\ Cardinality(1..n) = n
  <2>1. 1 \in Int /\ n \in Int
    OBVIOUS
  <2>2. IsFiniteSet(1..n) /\ Cardinality(1..n) = IF 1 > n THEN 0 ELSE n - 1 + 1
    BY <2>1, FS_Interval
  <2> QED BY <2>2
<1>4. IsFiniteSet(own) /\ IsFiniteSet(misread)
      /\ Cardinality(own \cup misread) <= n
  <2>1. \A S \in SUBSET (1..n) : IsFiniteSet(S) /\ Cardinality(S) <= Cardinality(1..n)
    BY <1>3, FS_Subset
  <2> QED BY <1>2, <1>3, <2>1
<1>5. Cardinality(own) \in Nat /\ Cardinality(misread) \in Nat
  BY <1>4, FS_CardinalityType
<1>6. Cardinality(own \cup misread) =
          Cardinality(own) + Cardinality(misread) - Cardinality(own \cap misread)
  BY <1>4, FS_Union
<1>7. Cardinality(own \cap misread) = 0
  BY <1>2, FS_EmptySet
<1> QED BY <1>1, <1>4, <1>5, <1>6, <1>7

\* Counters stay numbers, and every round leaves the kernel finitely many
\* operations.
LEMMA LoadTypesNext == LoadTypes /\ [Next]_vars => LoadTypes'
<1> SUFFICES ASSUME LoadTypes, [Next]_vars PROVE LoadTypes'
  OBVIOUS
<1> USE LoadClientAssumption
<1>1. CASE submit_connect
  <2>1. IsFiniteSet(kernel')
    BY <1>1, FS_AddElement DEF submit_connect, LoadTypes
  <2>2. /\ num_messages' \in Nat /\ pc' = "connect" /\ conn' \in Nat /\ conn' > 0
        /\ num_sent' \in Nat /\ num_recv' \in Nat /\ num_ack' \in Nat
        /\ cq' \in Seq([type : Types, run : Nat, res : {-1, 1}])
    BY <1>1 DEF submit_connect, LoadTypes, counters
  <2>3. \A op \in kernel' : op.type \in Types /\ op.run \in Nat
    BY <1>1 DEF submit_connect, LoadTypes, Types
  <2> QED BY <2>1, <2>2, <2>3 DEF LoadTypes
<1>2. CASE connect_server
  <2>1. num_messages' = num_messages /\ conn' = conn /\ kernel' = kernel /\ conn > 0
        /\ pc' \in {"failed", "send", "done"} /\ cq # <<>>
    BY <1>2 DEF connect_server, LoadTypes
  <2>2. CASE Head(cq).res < 0 /\ UNCHANGED <<cq, counters>>
    BY <2>1, <2>2 DEF LoadTypes, counters
  <2>3. CASE seen(1) /\ num_sent' = 0 /\ num_recv' = 0 /\ num_ack' = 0
    <3>1. Len(cq) >= 1
      BY <2>1 DEF LoadTypes
    <3>2. cq' \in Seq([type : Types, run : Nat, res : {-1, 1}])
      BY <2>3, <3>1, SeenCq DEF LoadTypes
    <3> QED BY <2>1, <2>3, <3>2 DEF LoadTypes
  <2> QED BY <1>2, <2>2, <2>3 DEF connect_server
<1>3. CASE send_round
  <2>1. PICK failing \in SUBSET Batch(num_sent, SendBatch) :
            kernel' = kernel \cup {Op("send", i) : i \in failing}
    BY <1>3 DEF send_round
  <2>2. IsFiniteSet(failing)
    BY <2>1, BatchInterval, FS_Subset DEF LoadTypes
  <2>3. IsFiniteSet(kernel')
    BY <2>1, <2>2, OpsOfBatch, FS_Union DEF LoadTypes
  <2>4. \A op \in kernel' : op.type \in Types /\ op.run \in Nat
    BY <2>1 DEF LoadTypes, Op, Types
  <2>5. /\ num_messages' = num_messages /\ conn' = conn /\ conn > 0 /\ cq' = cq
        /\ pc' \in {"socket", "recv"}
        /\ num_sent' = num_sent + SendBatch /\ num_recv' = num_recv /\ num_ack' = num_ack
    BY <1>3 DEF send_round, LoadTypes
  <2> QED BY <2>3, <2>4, <2>5 DEF LoadTypes
<1>4. CASE run_done
  BY <1>4 DEF run_done, LoadTypes, counters
<1>5. CASE recv_round
  <2>1. kernel' = kernel \cup {Op("recv", i) : i \in Batch(num_recv, RecvBatch)}
    BY <1>5 DEF recv_round
  <2>2. IsFiniteSet(Batch(num_recv, RecvBatch))
    BY BatchInterval DEF LoadTypes
  <2>3. IsFiniteSet(kernel')
    BY <2>1, <2>2, OpsOfBatch, FS_Union DEF LoadTypes
  <2>4. \A op \in kernel' : op.type \in Types /\ op.run \in Nat
    BY <2>1 DEF LoadTypes, Op, Types
  <2>5. /\ num_messages' = num_messages /\ conn' = conn /\ conn > 0 /\ cq' = cq
        /\ pc' = "peek"
        /\ num_sent' = num_sent /\ num_recv' = num_recv + RecvBatch /\ num_ack' = num_ack
    BY <1>5 DEF recv_round, LoadTypes
  <2> QED BY <2>3, <2>4, <2>5 DEF LoadTypes
<1>6. CASE peek
  <2>1. PICK n : n = IF Len(cq) <= CqeBatch THEN Len(cq) ELSE CqeBatch
    OBVIOUS
  <2>2. n \in Nat /\ n <= Len(cq) /\ Handle(n)
    BY <1>6, <2>1 DEF peek, LoadTypes
  <2>3. num_ack' \in Nat
    BY <2>2, HandleCount DEF LoadTypes
  <2>4. cq' \in Seq([type : Types, run : Nat, res : {-1, 1}])
    BY <2>2, SeenCq DEF Handle, LoadTypes
  <2>5. /\ num_messages' = num_messages /\ conn' = conn /\ conn > 0 /\ kernel' = kernel
        /\ pc' = "send" /\ num_sent' = num_sent /\ num_recv' = num_recv
    BY <1>6, <2>2 DEF peek, Handle, LoadTypes
  <2> QED BY <2>3, <2>4, <2>5 DEF LoadTypes
<1>7. CASE ring_error
  BY <1>7 DEF ring_error, LoadTypes, counters
<1>8. ASSUME NEW op \in kernel, KernelComplete(op) PROVE LoadTypes'
  <2>1. PICK res \in {-1, 1} : cq' = Append(cq, [type |-> op.type, run |-> op.run, res |-> res])
    BY <1>8 DEF KernelComplete
  <2>2. [type |-> op.type, run |-> op.run, res |-> res] \in [type : Types, run : Nat, res : {-1, 1}]
    BY DEF LoadTypes
  <2>3. cq' \in Seq([type : Types, run : Nat, res : {-1, 1}])
    BY <2>1, <2>2 DEF LoadTypes
  <2>4. IsFiniteSet(kernel') /\ kernel' \subseteq kernel
    BY <1>8, FS_RemoveElement DEF KernelComplete, LoadTypes
  <2>5. UNCHANGED <<num_messages, pc, conn, num_sent, num_recv, num_ack>>
    BY <1>8 DEF KernelComplete, counters
  <2> QED BY <2>3, <2>4, <2>5 DEF LoadTypes
<1>9. CASE UNCHANGED vars
  BY <1>9 DEF vars, counters, LoadTypes
<1> QED
  BY <1>1, <1>2, <1>3, <1>4, <1>5, <1>6, <1>7, <1>8, <1>9 DEF Next, Client, Terminated

LEMMA LoadTypesInit == Init => LoadTypes
<1> SUFFICES ASSUME Init PROVE LoadTypes
  OBVIOUS
<1>1. IsFiniteSet(kernel)
  BY FS_EmptySet DEF Init
<1> QED BY <1>1, LoadClientAssumption DEF Init, LoadTypes

\* The rounds of a run: the sends add the messages that come next, and the
\* peek counts fewer answers than that.
LEMMA SentInvNext == LoadTypes /\ SentInv /\ [Next]_vars => SentInv'
<1> SUFFICES ASSUME LoadTypes, SentInv, [Next]_vars PROVE SentInv'
  OBVIOUS
<1> USE LoadClientAssumption
<1>1. CASE submit_connect
  BY <1>1 DEF submit_connect, SentInv, InRun, AllSentOnce
<1>2. CASE connect_server
  <2>1. CASE pc' = "failed"
    BY <2>1 DEF SentInv, InRun, AllSentOnce
  <2>2. CASE pc' # "failed"
    <3>1. pc' \in {"send", "done"} /\ num_sent' = 0 /\ num_ack' = 0 /\ submitted' = <<>>
      BY <1>2, <2>2 DEF connect_server
    <3>2. [i \in 1..0 |-> i - 1] = <<>>
      OBVIOUS
    <3> QED BY <3>1, <3>2 DEF SentInv, InRun, AllSentOnce
  <2> QED BY <2>1, <2>2
<1>3. CASE send_round
  <2>1. PICK c : c = Cardinality(Batch(num_sent, SendBatch))
    OBVIOUS
  <2>2. /\ pc = "send" /\ num_ack < num_messages /\ num_messages' = num_messages
        /\ num_sent' = num_sent + SendBatch /\ num_ack' = num_ack
        /\ pc' = IF num_sent + SendBatch >= num_messages THEN "socket" ELSE "recv"
        /\ submitted' = submitted \o [i \in 1..c |-> num_sent + i - 1]
    BY <1>3, <2>1 DEF send_round
  <2>3. /\ submitted = [i \in 1..num_sent |-> i - 1]
        /\ num_sent \in Nat /\ num_ack \in Nat /\ num_messages \in Nat
        /\ num_sent <= num_messages /\ num_ack <= num_sent
    BY <2>2 DEF SentInv, InRun, LoadTypes
  <2>4. c \in Nat
        /\ (num_sent + SendBatch <= num_messages => c = SendBatch)
        /\ (num_messages <= num_sent + SendBatch => c = num_messages - num_sent)
    BY <2>1, <2>3, BatchInterval
  <2>5. submitted' = [i \in 1..(num_sent + c) |-> i - 1]
    <3>1. [i \in 1..num_sent |-> i - 1] \in Seq(Int) /\ [i \in 1..c |-> num_sent + i - 1] \in Seq(Int)
      BY <2>3, <2>4
    <3> QED BY <2>2, <2>3, <2>4, <3>1
  <2>6. CASE num_sent + SendBatch >= num_messages
    <3>1. num_sent + c = num_messages
      BY <2>3, <2>4, <2>6
    <3>2. submitted' = [i \in 1..num_messages |-> i - 1]
      BY <2>5, <3>1
    <3> QED BY <2>2, <2>6, <3>2 DEF SentInv, InRun, AllSentOnce
  <2>7. CASE num_sent + SendBatch < num_messages
    <3>1. num_sent + c = num_sent'
      BY <2>2, <2>3, <2>4, <2>7
    <3>2. submitted' = [i \in 1..num_sent' |-> i - 1]
      BY <2>5, <3>1
    <3>3. pc' = "recv" /\ num_sent' < num_messages' /\ num_ack' + SendBatch <= num_sent'
          /\ num_ack' <= num_sent'
      BY <2>2, <2>3, <2>7
    <3> QED BY <3>2, <3>3 DEF SentInv, InRun, AllSentOnce
  <2> QED BY <2>3, <2>6, <2>7
<1>4. CASE run_done
  <2>1. pc = "send" /\ num_ack >= num_messages /\ pc' = "socket"
        /\ submitted' = submitted /\ num_messages' = num_messages
    BY <1>4 DEF run_done
  <2>2. num_sent = 0 /\ num_messages = 0 /\ submitted = [i \in 1..num_sent |-> i - 1]
    BY <2>1 DEF SentInv, InRun, LoadTypes
  <2>3. submitted' = [i \in 1..num_messages' |-> i - 1]
    BY <2>1, <2>2
  <2> QED BY <2>1, <2>3 DEF SentInv, InRun, AllSentOnce
<1>5. CASE recv_round
  BY <1>5 DEF recv_round, SentInv, InRun, AllSentOnce
<1>6. CASE peek
  <2>1. PICK n : n = IF Len(cq) <= CqeBatch THEN Len(cq) ELSE CqeBatch
    OBVIOUS
  <2>2. n \in Nat /\ n <= Len(cq) /\ n <= CqeBatch /\ Handle(n) /\ pc = "peek"
    BY <1>6, <2>1 DEF peek, LoadTypes
  <2>3. num_ack' \in Nat /\ num_ack' <= num_ack + n
    BY <2>2, HandleCount DEF LoadTypes
  <2>4. UNCHANGED <<num_messages, num_sent, submitted>> /\ pc' = "send"
    BY <2>2 DEF Handle
  <2>5. num_ack + SendBatch <= num_sent /\ num_ack \in Nat /\ num_sent \in Nat
        /\ submitted = [i \in 1..num_sent |-> i - 1]
        /\ (num_sent = 0 \/ num_sent < num_messages)
    BY <2>2 DEF SentInv, InRun, LoadTypes
  <2>6. num_ack' <= num_sent'
    BY <2>2, <2>3, <2>4, <2>5
  <2> QED BY <2>4, <2>5, <2>6 DEF SentInv, InRun, AllSentOnce
<1>7. CASE ring_error
  BY <1>7 DEF ring_error, SentInv, InRun, AllSentOnce
<1>8. ASSUME NEW op \in kernel, KernelComplete(op) PROVE SentInv'
  BY <1>8 DEF KernelComplete, counters, SentInv, InRun, AllSentOnce
<1>9. CASE UNCHANGED vars
  BY <1>9 DEF vars, counters, SentInv, InRun, AllSentOnce
<1> QED
  BY <1>1, <1>2, <1>3, <1>4, <1>5, <1>6, <1>7, <1>8, <1>9 DEF Next, Client, Terminated

\* A run of the load generator ends with every message submitted, once and in
\* order, whatever the completions it has counted were of: no peek makes up for
\* a round of sends.
THEOREM LoadAllSentOnce == Spec => []AllSentOnce
<1>1. Init => LoadTypes /\ SentInv
  BY LoadTypesInit DEF Init, SentInv, InRun, AllSentOnce
<1>2. (LoadTypes /\ SentInv) /\ [Next]_vars => (LoadTypes /\ SentInv)'
  BY LoadTypesNext, SentInvNext
<1>3. SentInv => AllSentOnce
  BY DEF SentInv
<1> QED BY <1>1, <1>2, <1>3, PTL DEF Spec

-----------------------------------------------------------------------------
\* What may yet be taken for an answer, in the kernel and in the queue.
OpenOps == {op \in kernel : op.type # "send"}

OpenCqes == {i \in DOMAIN cq : cq[i].type # "send"}

Asked == Cardinality(Batch(0, num_recv))

(***************************************************************************)
(* In a run, what was asked for and what earlier runs have left is open,   *)
(* unread, or was counted or passed over: an operation that completes only *)
(* moves, and what is counted leaves the queue.  A completion of a send is *)
(* one that failed, so it is never counted.                                *)
(***************************************************************************)
CountInv ==
    /\ left \in Nat
    /\ \A i \in DOMAIN cq : cq[i].type = "send" => cq[i].res < 0
    /\ num_ack <= Asked + left
    /\ InRun => num_ack + Cardinality(OpenOps) + Cardinality(OpenCqes) <= Asked + left

CountsFinite ==
    /\ IsFiniteSet(OpenOps) /\ Cardinality(OpenOps) \in Nat
    /\ IsFiniteSet(OpenCqes) /\ Cardinality(OpenCqes) \in Nat
    /\ Asked \in Nat

\* The counts are numbers.
LEMMA CountTypes == LoadTypes => CountsFinite
<1> SUFFICES ASSUME LoadTypes PROVE CountsFinite
  OBVIOUS
<1>1. OpenOps \in SUBSET kernel /\ IsFiniteSet(kernel)
  BY DEF OpenOps, LoadTypes
<1>2. IsFiniteSet(OpenOps)
  BY <1>1, FS_Subset
<1>3. OpenCqes \in SUBSET (1..Len(cq)) /\ Len(cq) \in Nat
  BY DEF OpenCqes, LoadTypes
<1>4. IsFiniteSet(1..Len(cq))
  BY <1>3, FS_Interval
<1>5. IsFiniteSet(OpenCqes)
  BY <1>3, <1>4, FS_Subset
<1>6. Asked \in Nat
  BY BatchInterval DEF Asked, LoadTypes
<1> QED BY <1>2, <1>5, <1>6, FS_CardinalityType DEF CountsFinite

\* The receives of a round were asked for, and no others.
LEMMA AskedGrows ==
    ASSUME num_messages \in Nat, NEW m \in Nat, NEW n \in Nat
    PROVE  Cardinality(Batch(0, m + n)) = Cardinality(Batch(0, m)) + Cardinality(Batch(m, n))
<1>1. Batch(0, m + n) = Batch(0, m) \cup Batch(m, n) /\ Batch(0, m) \cap Batch(m, n) = {}
  BY DEF Batch
<1>2. IsFiniteSet(Batch(0, m)) /\ Cardinality(Batch(0, m)) \in Nat
      /\ IsFiniteSet(Batch(m, n)) /\ Cardinality(Batch(m, n)) \in Nat
  BY BatchInterval
<1>3. Cardinality(Batch(0, m) \cup Batch(m, n)) =
          Cardinality(Batch(0, m)) + Cardinality(Batch(m, n)) - Cardinality(Batch(0, m) \cap Batch(m, n))
  BY <1>2, FS_Union
<1>4. Cardinality(Batch(0, m) \cap Batch(m, n)) = 0
  BY <1>1, FS_EmptySet
<1>5. Cardinality(Batch(0, m + n)) = Cardinality(Batch(0, m) \cup Batch(m, n))
  BY <1>1, Zenon
<1> QED BY <1>2, <1>3, <1>4, <1>5

\* A completion in the queue is one.
LEMMA EntryType ==
    ASSUME NEW S, NEW s \in Seq(S), NEW i \in DOMAIN s PROVE s[i] \in S
<1>1. DOMAIN s = 1..Len(s)
  OBVIOUS
<1>2. i \in 1..Len(s)
  BY <1>1
<1> QED BY <1>2

\* A peek counts only completions that it takes from the queue, each once,
\* whatever they are taken for.
LEMMA PeekCounts ==
    ASSUME LoadTypes, CountInv, NEW n \in Nat, n <= Len(cq), Handle(n)
    PROVE  num_ack' + Cardinality(OpenCqes') <= num_ack + Cardinality(OpenCqes)
<1> DEFINE good == {i \in 1..n : cq[i].res >= 0}
           own == {i \in good : cq[i].type = "recv" /\ cq[i].run = bufs}
           alien == {i \in good : cq[i].type = "connect" \/ cq[i].run # bufs}
           rest == {i \in OpenCqes : i > n}
<1>1. DOMAIN cq = 1..Len(cq) /\ Len(cq) \in Nat
  BY DEF LoadTypes
<1>2. \A i \in good : i \in OpenCqes
  <2> SUFFICES ASSUME NEW i \in good PROVE i \in OpenCqes
    OBVIOUS
  <2>1. i \in DOMAIN cq /\ cq[i].res >= 0
    BY <1>1
  <2>2. ~(cq[i].res < 0)
    <3>1. cq[i] \in [type : Types, run : Nat, res : {-1, 1}]
      BY <2>1, EntryType DEF LoadTypes
    <3>2. cq[i].res \in {-1, 1}
      BY <3>1
    <3> QED BY <2>1, <3>2
  <2> QED BY <2>1, <2>2 DEF OpenCqes, CountInv
<1>3. PICK misread \in SUBSET alien :
               num_ack' = num_ack + Cardinality(own) + Cardinality(misread)
  BY DEF Handle
<1>4. seen(n)
  BY DEF Handle
<1>5. PICK counted : counted = own \cup misread
  OBVIOUS
<1>6. /\ own \in SUBSET OpenCqes /\ misread \in SUBSET OpenCqes /\ own \cap misread = {}
      /\ counted \in SUBSET OpenCqes /\ rest \in SUBSET OpenCqes
      /\ counted \cap rest = {} /\ counted \cup rest \in SUBSET OpenCqes
  <2>1. own \in SUBSET good /\ misread \in SUBSET good /\ own \cap misread = {}
    BY <1>3
  <2>2. \A i \in good : ~(i > n)
    OBVIOUS
  <2>3. \A i \in rest : i \in OpenCqes /\ i > n
    OBVIOUS
  <2> HIDE DEF good, own, alien, rest
  <2> QED BY <1>2, <1>5, <2>1, <2>2, <2>3
<1> HIDE DEF own, alien
<1>8. /\ Len(cq') = Len(cq) - n /\ cq' \in Seq([type : Types, run : Nat, res : {-1, 1}])
      /\ \A i \in 1..Len(cq') : i + n \in 1..Len(cq) /\ cq'[i] = cq[i + n]
  BY <1>4, SeenCq DEF LoadTypes
<1>9. OpenCqes' = {i \in 1..Len(cq') : cq'[i].type # "send"} /\ OpenCqes' \subseteq Nat
  BY <1>8 DEF OpenCqes
<1>10. \A i \in OpenCqes' : i + n \in rest
  BY <1>1, <1>8, <1>9 DEF OpenCqes
<1> HIDE DEF rest
<1>11. IsFiniteSet(OpenCqes) /\ Cardinality(OpenCqes) \in Nat
  BY CountTypes DEF CountsFinite
<1>12. \A S \in SUBSET OpenCqes : IsFiniteSet(S) /\ Cardinality(S) \in Nat
                                  /\ Cardinality(S) <= Cardinality(OpenCqes)
  BY <1>11, FS_Subset, FS_CardinalityType
<1>13. ASSUME NEW S \in SUBSET OpenCqes, NEW T \in SUBSET OpenCqes, S \cap T = {}
       PROVE  Cardinality(S \cup T) = Cardinality(S) + Cardinality(T)
  <2>1. Cardinality(S \cup T) = Cardinality(S) + Cardinality(T) - Cardinality(S \cap T)
    BY <1>12, FS_Union
  <2>2. Cardinality(S \cap T) = 0
    BY <1>13, FS_EmptySet
  <2>3. Cardinality(S) \in Nat /\ Cardinality(T) \in Nat
    BY <1>12
  <2> QED BY <2>1, <2>2, <2>3
<1>14. Cardinality(own) + Cardinality(misread) + Cardinality(rest) <= Cardinality(OpenCqes)
  <2>1. Cardinality(counted) = Cardinality(own) + Cardinality(misread)
    BY <1>5, <1>6, <1>13, Zenon
  <2>2. Cardinality(counted \cup rest) = Cardinality(counted) + Cardinality(rest)
    BY <1>6, <1>13, Zenon
  <2>3. Cardinality(counted \cup rest) <= Cardinality(OpenCqes)
    BY <1>6, <1>12
  <2> QED BY <2>1, <2>2, <2>3
<1>15. Cardinality(OpenCqes') <= Cardinality(rest) /\ Cardinality(OpenCqes') \in Nat
  <2> DEFINE f == [i \in OpenCqes' |-> i + n]
  <2>1. f \in [OpenCqes' -> rest]
    BY <1>10
  <2>2. \A i, j \in OpenCqes' : f[i] = f[j] => i = j
    BY <1>9
  <2>3. f \in Injection(OpenCqes', rest)
    BY <2>1, <2>2 DEF Injection, IsInjective
  <2> HIDE DEF f
  <2>4. IsFiniteSet(rest)
    BY <1>6, <1>12
  <2>5. IsFiniteSet(OpenCqes') /\ Cardinality(OpenCqes') <= Cardinality(rest)
    BY <2>3, <2>4, FS_Injection
  <2> QED BY <2>5, FS_CardinalityType
<1>16. Cardinality(own) \in Nat /\ Cardinality(misread) \in Nat /\ Cardinality(rest) \in Nat
       /\ num_ack \in Nat
  BY <1>6, <1>12 DEF LoadTypes
<1> QED BY <1>3, <1>11, <1>14, <1>15, <1>16

LEMMA CountInvInit == Init => CountInv
<1> SUFFICES ASSUME Init PROVE CountInv
  OBVIOUS
<1>1. cq = <<>> /\ num_ack = 0 /\ left = 0 /\ ~InRun
  BY DEF Init, InRun
<1>2. Asked \in Nat
  BY LoadTypesInit, CountTypes DEF CountsFinite
<1> QED BY <1>1, <1>2 DEF CountInv

LEMMA CountInvNext == LoadTypes /\ CountInv /\ [Next]_vars => CountInv'
<1> SUFFICES ASSUME LoadTypes, CountInv, [Next]_vars PROVE CountInv'
  OBVIOUS
<1> USE LoadClientAssumption
<1>0. LoadTypes'
  BY LoadTypesNext
<1>e. CountsFinite'
  BY <1>0, CountTypes, PTL
<1>a. /\ Cardinality(OpenOps) \in Nat /\ Cardinality(OpenCqes) \in Nat /\ Asked \in Nat
      /\ IsFiniteSet(OpenOps) /\ IsFiniteSet(OpenCqes) /\ num_ack \in Nat
      /\ num_recv \in Nat /\ num_messages \in Nat /\ left \in Nat
  BY CountTypes DEF LoadTypes, CountsFinite, CountInv
<1>c. /\ \A i \in DOMAIN cq : cq[i].type = "send" => cq[i].res < 0
      /\ num_ack <= Asked + left
      /\ InRun => num_ack + Cardinality(OpenOps) + Cardinality(OpenCqes) <= Asked + left
  BY DEF CountInv
<1>1. CASE submit_connect
  <2>1. /\ pc' = "connect" /\ cq' = cq /\ num_ack' = num_ack /\ left' = left
        /\ Asked' = Asked
    BY <1>1 DEF submit_connect, counters, Asked, Batch
  <2>2. ~InRun'
    BY <2>1 DEF InRun
  <2> QED BY <1>a, <1>c, <2>1, <2>2 DEF CountInv
<1>2. CASE connect_server
  <2>1. cq # <<>> /\ kernel' = kernel /\ num_messages' = num_messages
    BY <1>2 DEF connect_server
  <2>2. CASE pc' = "failed" /\ UNCHANGED <<cq, bufs, counters, submitted, left>>
    <3>1. Asked' = Asked /\ num_ack' = num_ack /\ left' = left /\ cq' = cq /\ ~InRun'
      BY <2>1, <2>2 DEF Asked, Batch, counters, InRun
    <3> QED BY <1>a, <1>c, <3>1 DEF CountInv
  <2>3. CASE seen(1) /\ num_ack' = 0 /\ left' = Pending(kernel, cq')
    <3>1. Len(cq) >= 1
      BY <2>1 DEF LoadTypes
    <3>2. \A i \in 1..Len(cq') : i + 1 \in 1..Len(cq) /\ cq'[i] = cq[i + 1]
      BY <2>3, <3>1, SeenCq DEF LoadTypes
    <3>3. DOMAIN cq' = 1..Len(cq') /\ DOMAIN cq = 1..Len(cq)
      BY <1>0 DEF LoadTypes
    <3>4. \A i \in DOMAIN cq' : cq'[i].type = "send" => cq'[i].res < 0
      BY <1>c, <3>2, <3>3
    <3>5. left' = Cardinality(OpenOps') + Cardinality(OpenCqes')
      BY <2>1, <2>3 DEF Pending, OpenOps, OpenCqes
    <3>6. /\ Cardinality(OpenOps') \in Nat /\ Cardinality(OpenCqes') \in Nat /\ Asked' \in Nat
      BY <1>e DEF CountsFinite
    <3>7. /\ left' \in Nat /\ num_ack' <= Asked' + left'
          /\ num_ack' + Cardinality(OpenOps') + Cardinality(OpenCqes') <= Asked' + left'
      BY <2>3, <3>5, <3>6
    <3> QED BY <3>4, <3>7, Zenon DEF CountInv
  <2> QED BY <1>2, <2>2, <2>3 DEF connect_server
<1>3. CASE send_round
  <2>1. PICK failing \in SUBSET Batch(num_sent, SendBatch) :
            kernel' = kernel \cup {Op("send", i) : i \in failing}
    BY <1>3 DEF send_round
  <2>2. /\ num_messages' = num_messages /\ cq' = cq /\ left' = left /\ pc = "send"
        /\ num_recv' = num_recv /\ num_ack' = num_ack
    BY <1>3 DEF send_round
  <2>3. OpenOps' = OpenOps /\ OpenCqes' = OpenCqes /\ Asked' = Asked
    BY <2>1, <2>2 DEF OpenOps, OpenCqes, Asked, Batch, Op
  <2>4. num_ack + Cardinality(OpenOps) + Cardinality(OpenCqes) <= Asked + left
    BY <1>c, <2>2 DEF InRun
  <2> QED BY <1>a, <1>c, <2>2, <2>3, <2>4 DEF CountInv
<1>4. CASE run_done \/ ring_error \/ UNCHANGED vars
  <2>1. UNCHANGED <<num_messages, num_recv, num_ack, kernel, cq, left>>
    BY <1>4 DEF run_done, ring_error, vars, counters
  <2>2. OpenOps' = OpenOps /\ OpenCqes' = OpenCqes /\ Asked' = Asked
    BY <2>1 DEF OpenOps, OpenCqes, Asked, Batch
  <2>3. InRun' => InRun
    BY <1>4 DEF run_done, ring_error, vars, InRun
  <2> QED BY <1>a, <1>c, <2>1, <2>2, <2>3 DEF CountInv
<1>5. CASE recv_round
  <2>1. PICK new : new = {Op("recv", i) : i \in Batch(num_recv, RecvBatch)}
    OBVIOUS
  <2>2. /\ num_messages' = num_messages /\ cq' = cq /\ left' = left
        /\ pc = "recv" /\ num_ack' = num_ack
        /\ kernel' = kernel \cup new /\ num_recv' = num_recv + RecvBatch
    BY <1>5, <2>1 DEF recv_round
  <2>3. num_ack + Cardinality(OpenOps) + Cardinality(OpenCqes) <= Asked + left
    BY <1>c, <2>2 DEF InRun
  <2>4. OpenOps' = OpenOps \cup new /\ OpenCqes' = OpenCqes
    BY <2>1, <2>2 DEF OpenOps, OpenCqes, Op
  <2>5. /\ IsFiniteSet(Batch(num_recv, RecvBatch))
        /\ Cardinality(Batch(num_recv, RecvBatch)) \in Nat
    BY <1>a, BatchInterval
  <2>6. /\ IsFiniteSet(new) /\ Cardinality(new) \in Nat
        /\ Cardinality(new) <= Cardinality(Batch(num_recv, RecvBatch))
    BY <2>1, <2>5, OpsOfBatch
  <2>7. Cardinality(OpenOps') <= Cardinality(OpenOps) + Cardinality(new)
        /\ Cardinality(OpenOps') \in Nat
    <3>1. IsFiniteSet(OpenOps \cap new) /\ IsFiniteSet(OpenOps \cup new)
      BY <1>a, <2>6, FS_Subset, FS_Union
    <3>2. Cardinality(OpenOps \cap new) \in Nat /\ Cardinality(OpenOps \cup new) \in Nat
      BY <3>1, FS_CardinalityType
    <3>3. Cardinality(OpenOps \cup new) =
              Cardinality(OpenOps) + Cardinality(new) - Cardinality(OpenOps \cap new)
      BY <1>a, <2>6, FS_Union
    <3>4. Cardinality(OpenOps \cup new) <= Cardinality(OpenOps) + Cardinality(new)
      BY <1>a, <2>6, <3>2, <3>3
    <3> QED BY <2>4, <3>2, <3>4, Zenon
  <2>8. Asked' = Asked + Cardinality(Batch(num_recv, RecvBatch))
    <3>1. Cardinality(Batch(0, num_recv + RecvBatch)) =
              Cardinality(Batch(0, num_recv)) + Cardinality(Batch(num_recv, RecvBatch))
      BY <1>a, AskedGrows
    <3>2. Asked' = Cardinality(Batch(0, num_recv + RecvBatch))
      BY <2>2 DEF Asked, Batch
    <3> QED BY <3>1, <3>2 DEF Asked
  <2>9. Cardinality(OpenCqes') = Cardinality(OpenCqes)
    BY <2>4
  <2>10. /\ num_ack' + Cardinality(OpenOps') + Cardinality(OpenCqes') <= Asked' + left'
         /\ num_ack' <= Asked' + left'
    BY <1>a, <1>c, <2>2, <2>3, <2>5, <2>6, <2>7, <2>8, <2>9
  <2> QED BY <1>a, <1>c, <2>2, <2>10, Zenon DEF CountInv
<1>6. CASE peek
  <2>1. PICK n : n = IF Len(cq) <= CqeBatch THEN Len(cq) ELSE CqeBatch
    OBVIOUS
  <2>2. n \in Nat /\ n <= Len(cq) /\ Handle(n) /\ pc = "peek"
    BY <1>6, <2>1 DEF peek, LoadTypes
  <2>3. num_ack' + Cardinality(OpenCqes') <= num_ack + Cardinality(OpenCqes)
    BY <2>2, PeekCounts
  <2>4. UNCHANGED <<num_messages, num_recv, kernel, left>> /\ seen(n)
    BY <2>2 DEF Handle
  <2>5. OpenOps' = OpenOps /\ Asked' = Asked
    BY <2>4 DEF OpenOps, Asked, Batch
  <2>6. num_ack + Cardinality(OpenOps) + Cardinality(OpenCqes) <= Asked + left
    BY <1>c, <2>2 DEF InRun
  <2>7. Cardinality(OpenCqes') \in Nat /\ num_ack' \in Nat
    BY <1>0, <1>e DEF LoadTypes, CountsFinite
  <2>8. /\ num_ack' + Cardinality(OpenOps') + Cardinality(OpenCqes') <= Asked' + left'
        /\ num_ack' <= Asked' + left'
    BY <1>a, <2>3, <2>4, <2>5, <2>6, <2>7
  <2>9. \A i \in 1..Len(cq') : i + n \in 1..Len(cq) /\ cq'[i] = cq[i + n]
    BY <2>2, <2>4, SeenCq DEF LoadTypes
  <2>10. DOMAIN cq' = 1..Len(cq') /\ DOMAIN cq = 1..Len(cq)
    BY <1>0 DEF LoadTypes
  <2>11. \A i \in DOMAIN cq' : cq'[i].type = "send" => cq'[i].res < 0
    BY <1>c, <2>9, <2>10
  <2> QED BY <1>a, <2>4, <2>8, <2>11, Zenon DEF CountInv
<1>7. ASSUME NEW op \in kernel, KernelComplete(op) PROVE CountInv'
  <2>1. PICK res \in {-1, 1} : /\ op.type = "send" => res = -1
                               /\ cq' = Append(cq, [type |-> op.type, run |-> op.run, res |-> res])
    BY <1>7 DEF KernelComplete
  <2>2. /\ kernel' = kernel \ {op}
        /\ UNCHANGED <<num_messages, pc, num_recv, num_ack, left>>
    BY <1>7 DEF KernelComplete, counters
  <2>3. /\ DOMAIN cq = 1..Len(cq) /\ Len(cq) \in Nat
        /\ DOMAIN cq' = 1..(Len(cq) + 1)
        /\ \A i \in 1..Len(cq) : cq'[i] = cq[i]
        /\ cq'[Len(cq) + 1] = [type |-> op.type, run |-> op.run, res |-> res]
    BY <2>1 DEF LoadTypes
  <2>4. Asked' = Asked /\ InRun' = InRun
    BY <2>2 DEF Asked, Batch, InRun
  <2>5. Cardinality(OpenOps') + Cardinality(OpenCqes') = Cardinality(OpenOps) + Cardinality(OpenCqes)
    <3>1. CASE op.type # "send"
      <4>1. OpenOps' = OpenOps \ {op} /\ op \in OpenOps
        BY <2>2, <3>1 DEF OpenOps
      <4>2. OpenCqes' = OpenCqes \cup {Len(cq) + 1} /\ Len(cq) + 1 \notin OpenCqes
        BY <2>3, <3>1 DEF OpenCqes
      <4>3. Cardinality(OpenOps \ {op}) = Cardinality(OpenOps) - 1
        BY <1>a, <4>1, FS_RemoveElement
      <4>4. Cardinality(OpenCqes \cup {Len(cq) + 1}) = Cardinality(OpenCqes) + 1
        BY <1>a, <4>2, FS_AddElement
      <4>5. Cardinality(OpenOps') = Cardinality(OpenOps) - 1
            /\ Cardinality(OpenCqes') = Cardinality(OpenCqes) + 1
        BY <4>1, <4>2, <4>3, <4>4, Zenon
      <4> QED BY <1>a, <4>5
    <3>2. CASE op.type = "send"
      <4>1. OpenOps' = OpenOps
        BY <2>2, <3>2 DEF OpenOps
      <4>2. OpenCqes' = OpenCqes
        BY <2>3, <3>2 DEF OpenCqes
      <4> QED BY <4>1, <4>2
    <3> QED BY <3>1, <3>2
  <2>6. \A i \in DOMAIN cq' : cq'[i].type = "send" => cq'[i].res < 0
    BY <1>c, <2>1, <2>3
  <2>7. Cardinality(OpenOps') \in Nat /\ Cardinality(OpenCqes') \in Nat
    BY <1>e DEF CountsFinite
  <2>8. InRun' => num_ack' + Cardinality(OpenOps') + Cardinality(OpenCqes') <= Asked' + left'
    BY <1>a, <1>c, <2>2, <2>4, <2>5, <2>7
  <2> QED BY <1>a, <1>c, <2>2, <2>4, <2>6, <2>8 DEF CountInv
<1> QED
  BY <1>1, <1>2, <1>3, <1>4, <1>5, <1>6, <1>7 DEF Next, Client, Terminated

\* The client counts every completion at most once, those that earlier runs have
\* left to it included: never more answers than it has asked for and found open
\* or unread when the run began.
THEOREM LoadCountedOnce == Spec => []CountedOnce
<1>1. Init => LoadTypes /\ CountInv
  BY LoadTypesInit, CountInvInit
<1>2. (LoadTypes /\ CountInv) /\ [Next]_vars => (LoadTypes /\ CountInv)'
  BY LoadTypesNext, CountInvNext
<1>3. CountInv => CountedOnce
  BY DEF CountInv, CountedOnce, Asked
<1> QED BY <1>1, <1>2, <1>3, PTL DEF Spec
=============================================================================
