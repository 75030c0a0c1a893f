----------------------------- MODULE LoadClient -----------------------------
(***************************************************************************)
(* client.c: the load generator.  It opens one connection after the other, *)
(* sends its messages on each in rounds, reads whatever answers have come  *)
(* by then, and goes on to the next connection with the same ring: what is *)
(* still in the kernel or unread when a run ends is met by the next one.   *)
(* Connection n and the buffers of run n are known by n.                   *)
(***************************************************************************)
EXTENDS Integers, Sequences, FiniteSets

CONSTANTS
    Amounts,     \* what --num_messages may be
    SendBatch,   \* sends of a round (100)
    RecvBatch,   \* receives of a round (10)
    CqeBatch,    \* CQE_BATCH_SIZE
    Runs,        \* runs of run_client (5)
    MaxFailing   \* bound of the model: failed sends the client has yet to see

ASSUME LoadClientAssumption ==
    /\ Amounts \subseteq Nat
    /\ SendBatch \in Nat \ {0} /\ RecvBatch \in Nat \ {0} /\ Runs \in Nat \ {0}
    /\ CqeBatch \in 1..(SendBatch - 1)
    /\ MaxFailing \in Nat

VARIABLES
    num_messages,
    pc,          \* "socket", "connect", "send", "recv", "peek", "done", "failed"
    conn,        \* client_fd: the connection that was opened last
    bufs,        \* send_buf and recv_buf: the run they were allocated for
    num_sent, num_recv, num_ack,
    kernel,      \* operations the kernel has not completed
    cq,          \* completion queue
    submitted,   \* the messages submitted in this run
    left         \* what earlier operations this run may yet take for answers

counters == <<num_sent, num_recv, num_ack>>
vars == <<num_messages, pc, conn, bufs, counters, kernel, cq, submitted, left>>

Op(type, msg) == [type |-> type, run |-> conn, msg |-> msg]

Init ==
    /\ num_messages \in Amounts
    /\ pc = "socket"
    /\ conn = 0
    /\ bufs = 1
    /\ num_sent = 0 /\ num_recv = 0 /\ num_ack = 0
    /\ kernel = {}
    /\ cq = <<>>
    /\ submitted = <<>>
    /\ left = 0

\* A new socket, and its connect is submitted to the ring all runs share.
submit_connect ==
    /\ pc = "socket"
    /\ conn' = conn + 1
    /\ kernel' = kernel \cup {[type |-> "connect", run |-> conn + 1, msg |-> 0]}
    /\ pc' = "connect"
    /\ UNCHANGED <<num_messages, bufs, counters, cq, submitted, left>>

\* Mutation of seen: the completion stays in the queue.
seen_not(n) == cq' = cq

\* io_uring_cqe_seen for the first n completions.
seen(n) == cq' = SubSeq(cq, n + 1, Len(cq))

\* The operations in k and the completions in q of a type other than send: a
\* send completes only to fail, and a failure is not counted.
Pending(k, q) ==
    Cardinality({op \in k : op.type # "send"})
        + Cardinality({i \in DOMAIN q : q[i].type # "send"})

\* The first completion there is decides, whichever it is; then the old socket is closed, the
\* buffers of the last run are freed and the next run begins, if there is one.
connect_server ==
    /\ pc = "connect"
    /\ cq # <<>>
    /\ \/ /\ Head(cq).res < 0
          /\ pc' = "failed"
          /\ UNCHANGED <<cq, bufs, counters, submitted, left>>
       \/ /\ Head(cq).res >= 0
          /\ seen(1)
          /\ bufs' = conn
          /\ pc' = IF conn <= Runs THEN "send" ELSE "done"
          /\ num_sent' = 0 /\ num_recv' = 0 /\ num_ack' = 0
          /\ submitted' = <<>>
          /\ left' = Pending(kernel, cq')
    /\ UNCHANGED <<num_messages, conn, kernel>>

\* Mutation of Batch: the last message of a full batch is left to the next.
Batch_short(from, n) == {i \in from..(from + n - 2) : i < num_messages}

\* The messages of a round.
Batch(from, n) == {i \in from..(from + n - 1) : i < num_messages}

\* A round of sends.  One that succeeds posts no completion, so only those
\* that will fail are kept as open.
send_round ==
    /\ pc = "send"
    /\ num_ack < num_messages
    /\ LET batch == Batch(num_sent, SendBatch)
       IN  /\ submitted' = submitted \o [i \in 1..Cardinality(batch) |-> num_sent + i - 1]
           /\ \E failing \in SUBSET batch :
                  /\ kernel' = kernel \cup {Op("send", i) : i \in failing}
                  /\ Cardinality({op \in kernel' : op.type = "send"})
                         + Cardinality({i \in DOMAIN cq : cq[i].type = "send"}) <= MaxFailing
    /\ num_sent' = num_sent + SendBatch
    /\ pc' = IF num_sent + SendBatch >= num_messages THEN "socket" ELSE "recv"
    /\ UNCHANGED <<num_messages, conn, bufs, num_recv, num_ack, cq, left>>

\* The loop of run_client ends with its condition.
run_done ==
    /\ pc = "send"
    /\ num_ack >= num_messages
    /\ pc' = "socket"
    /\ UNCHANGED <<num_messages, conn, bufs, counters, kernel, cq, submitted, left>>

recv_round ==
    /\ pc = "recv"
    /\ kernel' = kernel \cup {Op("recv", i) : i \in Batch(num_recv, RecvBatch)}
    /\ num_recv' = num_recv + RecvBatch
    /\ pc' = "peek"
    /\ UNCHANGED <<num_messages, conn, bufs, num_sent, num_ack, cq, submitted, left>>

\* The completions of a batch: those of receives of this run are counted.  One
\* of an earlier run points into buffers that were freed, and that of a connect
\* to nothing: its operation type may read as anything.
Handle(n) ==
    LET good == {i \in 1..n : cq[i].res >= 0}
        own == {i \in good : cq[i].type = "recv" /\ cq[i].run = bufs}
        alien == {i \in good : cq[i].type = "connect" \/ cq[i].run # bufs}
    IN  /\ \E misread \in SUBSET alien :
               num_ack' = num_ack + Cardinality(own) + Cardinality(misread)
        /\ seen(n)
        /\ pc' = "send"
        /\ UNCHANGED <<num_messages, conn, bufs, num_sent, num_recv, kernel, submitted, left>>

\* Mutation of peek: it waits for a completion.
peek_waits ==
    /\ pc = "peek"
    /\ cq # <<>>
    /\ Handle(IF Len(cq) <= CqeBatch THEN Len(cq) ELSE CqeBatch)

\* Up to CqeBatch completions, and none is as good.
peek ==
    /\ pc = "peek"
    /\ Handle(IF Len(cq) <= CqeBatch THEN Len(cq) ELSE CqeBatch)

\* A call on the ring fails, in any of the places that call it: the process
\* exits.
ring_error ==
    /\ pc \notin {"socket", "done", "failed"}
    /\ pc' = "failed"
    /\ UNCHANGED <<num_messages, conn, bufs, counters, kernel, cq, submitted, left>>

\* A connect is refused or succeeds, a receive gets data or fails, and the
\* sends that are kept fail.
KernelComplete(op) ==
    /\ pc \notin {"done", "failed"}
    /\ \E res \in {-1, 1} :
           /\ op.type = "send" => res = -1
           /\ cq' = Append(cq, [type |-> op.type, run |-> op.run, res |-> res])
    /\ kernel' = kernel \ {op}
    /\ UNCHANGED <<num_messages, pc, conn, bufs, counters, submitted, left>>

Client ==
    submit_connect \/ connect_server \/ send_round \/ run_done \/ recv_round \/ peek

\* The process is gone.
Terminated == pc \in {"done", "failed"} /\ UNCHANGED vars

Next == Client \/ ring_error \/ (\E op \in kernel : KernelComplete(op)) \/ Terminated

Spec == Init /\ [][Next]_vars

(***************************************************************************)
(* The client's thread runs unless it waits, and a connect is answered or  *)
(* times out.  No receive ever need complete.                              *)
(***************************************************************************)
Fairness ==
    /\ WF_vars(Client)
    /\ WF_vars(\E op \in kernel : op.type = "connect" /\ KernelComplete(op))

FairSpec == Spec /\ Fairness
-----------------------------------------------------------------------------
\* A run does not end before every message was submitted, each once and in
\* order: completions that earlier runs have left may be counted as answers,
\* but never make up for the messages of a round.
AllSentOnce ==
    pc = "socket" /\ conn > 0 => submitted = [i \in 1..num_messages |-> i - 1]

\* Every completion is counted as an answer at most once, whatever the run finds
\* in the ring: no more answers are counted than receives were submitted and
\* operations of earlier runs, connects among them, were left to be completed
\* or read, though these are looked up in buffers that were freed.
CountedOnce == num_ack <= Cardinality(Batch(0, num_recv)) + left

\* "Connected to server with fd", connect_server says: its connect has completed
\* and that completion was read when the client goes on to send.
Connected ==
    pc \in {"send", "recv", "peek"} =>
        /\ \A op \in kernel : ~(op.type = "connect" /\ op.run = conn)
        /\ \A i \in DOMAIN cq : ~(cq[i].type = "connect" /\ cq[i].run = conn)

\* The client comes to its end whatever the server does with its messages.
Terminates == <>(pc \in {"done", "failed"})
=============================================================================
