------------------------------- MODULE Server -------------------------------
(***************************************************************************)
(* server.c: the single-threaded event loop that drives an io_uring, and   *)
(* the kernel on the other side of the ring.  The loop takes completions   *)
(* from the completion queue, and each handler prepares submissions that   *)
(* only reach the kernel when the whole batch is done; the kernel accepts  *)
(* connections, reuses file descriptors and completes requests meanwhile.  *)
(*                                                                         *)
(* The operation pool and the two slabs appear through what they promise   *)
(* (RefPool, which OpPool and Slab are shown to implement), the client map *)
(* as the function ClientMap is shown to implement.  Requests are kept as  *)
(* what handle does with them.                                             *)
(***************************************************************************)
EXTENDS Integers, Sequences, FiniteSets, Functions

CONSTANTS
    OpId,         \* pool_ids of the Operations
    NoOp,         \* not a pool_id
    Buf,          \* the buffers of a slab
    NoBuf,        \* NULL
    Conn,         \* connections that peers open, each at most once
    NoConn,       \* no connection: a closed descriptor
    Fd,           \* the descriptors the process may have for clients
    OkLen,        \* length of a set-username response
    ErrLen,       \* length of a server error
    MaxReqs,      \* the most complete requests one receive can deliver
    MaxRequests,  \* bound of the model: requests that peers send in all
    MaxBatch,     \* CQE_BATCH_SIZE
    SqSize,       \* QUEUE_SIZE: entries of the submission queue
    Offer(_)      \* the items of a set of free ones an allocator may choose

SmallCap == 64
LargeCap == 2048
NoFd == -1

ASSUME ServerAssumption ==
    /\ NoOp \notin OpId
    /\ NoBuf \notin Buf
    /\ NoConn \notin Conn
    /\ Fd \subseteq Nat
    /\ OkLen \in 1..SmallCap
    /\ ErrLen \in 1..SmallCap
    /\ MaxReqs \in Nat \ {0}
    /\ MaxRequests \in Nat
    /\ MaxBatch \in Nat \ {0}
    /\ SqSize \in Nat \ {0}
    /\ \A S \in SUBSET OpId : Offer(S) \subseteq S
    /\ \A S \in SUBSET Buf : Offer(S) \subseteq S

(***************************************************************************)
(* What handle makes of a complete request: a username that is taken, one  *)
(* that is refused with an error, or anything else, which drops the peer.  *)
(***************************************************************************)
Request == {"username", "bad_username", "other"}

VARIABLES
    pool,            \* pool[o]: 1 while Operation o is out of the pool
    slab64,          \* slab64[b]: references to small buffer b
    slab2k,          \* slab2k[b]: references to large buffer b
    ops,             \* the fields of every Operation
    clients,         \* the client map: ClientInfo of every client in it
    next_client_id,
    sq,              \* submission queue: pool_ids of prepared submissions
    cq,              \* completion queue
    pc,              \* where the event loop is
    batch,           \* completions of the current batch yet to be handled
    cur,             \* the receive being parsed: its Operation and what is left
    kernel,          \* the Operations the kernel is working on
    sock,            \* sock[o]: the connection submission o was bound to
    files,           \* the descriptor table: what each descriptor refers to
    fresh,           \* connections no accept has taken yet
    requests,        \* requests peers may still send
    peer,            \* peer[o]: the connection Operation o is meant for
    sent             \* sent[o]: bytes of o's buffer the kernel has taken

memory == <<pool, slab64, slab2k, ops, clients, next_client_id>>
loop   == <<pc, batch, cur>>
world  == <<kernel, sock, files, fresh, requests>>
ghost  == <<peer, sent>>
vars   == <<memory, sq, cq, loop, world, ghost>>

Pool   == INSTANCE RefPool WITH Item <- OpId, MaxRef <- 1, refs <- pool
Slab64 == INSTANCE RefPool WITH Item <- Buf, MaxRef <- 1, refs <- slab64
Slab2k == INSTANCE RefPool WITH Item <- Buf, MaxRef <- 1, refs <- slab2k

FreeIn(refs) == {i \in DOMAIN refs : refs[i] = 0}
Busy == {o \in OpId : pool[o] # 0}

\* No receive is being parsed.
Idle == [op |-> NoOp, reqs |-> <<>>]

\* The loop ends the process in three ways.
Stopped == pc \in {"sq_full", "bad_close", "ring_error"}
-----------------------------------------------------------------------------
(* Preparing submissions.                                                  *)

\* The process ends; what its memory holds then is of no interest.
exit(reason) ==
    /\ pc' = reason
    /\ UNCHANGED <<memory, sq, cq, batch, cur, world, ghost>>

\* io_uring_get_sqe returns NULL when the queue has no room.
SqFull(n) == Len(sq) + n > SqSize

AcceptOp(id, b) ==
    [type |-> "OP_ACCEPT", client_id |-> id, client_fd |-> NoFd,
     buf |-> b, buf_cap |-> LargeCap, buf_len |-> 0, processed |-> 0]

\* add_recv makes the Operation that accepted the client receive from it; the
\* rest of it is as add_accept left it.
add_recv(op, fd) == [op EXCEPT !.client_fd = fd, !.type = "OP_READ"]

\* What acquire_small_buf, the ser_ functions and add_send store.
WriteOp(id, fd, b, len) ==
    [type |-> "OP_WRITE", client_id |-> id, client_fd |-> fd,
     buf |-> b, buf_cap |-> SmallCap, buf_len |-> len, processed |-> 0]

\* The fields of a ClientInfo that matter before its connection is accepted
\* are not read, whatever the recycled node holds.
NewClient == [client_fd |-> NoFd, named |-> FALSE]

\* Mutation of send_response: processed keeps what the last user left in it.
send_response_stale(r, len) ==
    \E o \in Offer(FreeIn(pool)), b \in Offer(FreeIn(slab64)) :
        /\ Pool!Acquire(o, 1)
        /\ Slab64!Acquire(b, 1)
        /\ ops' = [ops EXCEPT ![o] =
               [WriteOp(ops[r].client_id, ops[r].client_fd, b, len)
                    EXCEPT !.processed = ops[o].processed]]
        /\ sq' = Append(sq, o)
        /\ peer' = [peer EXCEPT ![o] = peer[r]]
        /\ sent' = [sent EXCEPT ![o] = 0]
        /\ UNCHANGED slab2k

\* A response of len bytes to the sender of the request that Operation r
\* received: an Operation and a small buffer of its own.
send_response(r, len) ==
    \E o \in Offer(FreeIn(pool)), b \in Offer(FreeIn(slab64)) :
        /\ Pool!Acquire(o, 1)
        /\ Slab64!Acquire(b, 1)
        /\ ops' = [ops EXCEPT ![o] =
               WriteOp(ops[r].client_id, ops[r].client_fd, b, len)]
        /\ sq' = Append(sq, o)
        /\ peer' = [peer EXCEPT ![o] = peer[r]]
        /\ sent' = [sent EXCEPT ![o] = 0]
        /\ UNCHANGED slab2k

\* Mutation of free_op: the buffer is not released.
free_op_leaks(o) ==
    /\ ops' = [ops EXCEPT ![o] = [@ EXCEPT !.client_fd = NoFd, !.buf = NoBuf]]
    /\ Pool!Release(o)
    /\ UNCHANGED <<slab64, slab2k>>

\* The buffer returns to the slab its capacity tells, and the Operation,
\* cleared as the pool's contract asks, to the pool.
free_op(o) ==
    /\ IF ops[o].buf_cap > SmallCap
       THEN Slab2k!Release(ops[o].buf) /\ UNCHANGED slab64
       ELSE Slab64!Release(ops[o].buf) /\ UNCHANGED slab2k
    /\ ops' = [ops EXCEPT ![o] = [@ EXCEPT !.client_fd = NoFd, !.buf = NoBuf]]
    /\ Pool!Release(o)

\* The peer of a freed Operation is forgotten.
Forget(o) ==
    /\ peer' = [peer EXCEPT ![o] = NoConn]
    /\ sent' = [sent EXCEPT ![o] = 0]

Open(fd) == fd \in Fd /\ files[fd] # NoConn

\* close returns an error, and must_close ends the process.
must_close_fails(o) ==
    /\ ops[o].client_id \in DOMAIN clients
    /\ ~Open(ops[o].client_fd)
    /\ exit("bad_close")

\* Mutation of disconnect_and_free_op: the client stays in the map.
disconnect_and_free_op_keeps(o) ==
    /\ IF ops[o].client_id \in DOMAIN clients
       THEN /\ Open(ops[o].client_fd)
            /\ files' = [files EXCEPT ![ops[o].client_fd] = NoConn]
            /\ UNCHANGED clients
       ELSE UNCHANGED <<files, clients>>
    /\ free_op(o)
    /\ Forget(o)

\* Mutation of disconnect_and_free_op: the descriptor is not closed.
disconnect_and_free_op_no_close(o) ==
    /\ clients' = Restrict(clients, DOMAIN clients \ {ops[o].client_id})
    /\ UNCHANGED files
    /\ free_op(o)
    /\ Forget(o)

\* The first failure of a client's Operations closes its socket and removes
\* it from the map; the later ones find it gone and are only freed.
disconnect_and_free_op(o) ==
    /\ IF ops[o].client_id \in DOMAIN clients
       THEN /\ Open(ops[o].client_fd)
            /\ files' = [files EXCEPT ![ops[o].client_fd] = NoConn]
            /\ clients' = Restrict(clients, DOMAIN clients \ {ops[o].client_id})
       ELSE UNCHANGED <<files, clients>>
    /\ free_op(o)
    /\ Forget(o)
-----------------------------------------------------------------------------
(* The handlers.  Head(cq) is the completion handle_cqe_batch is looking   *)
(* at; a receive is then parsed request by request, with cur set.          *)

Ready == pc \in {"one", "many"} /\ cur = Idle /\ batch > 0 /\ cq # <<>>

\* Mutation of Take: the loop's index is advanced twice.
Take_skips == cq' = Tail(cq) /\ batch' = batch - 2

\* io_uring_cqe_seen, and the loop goes on to the next completion.
Take == cq' = Tail(cq) /\ batch' = batch - 1

\* A failed operation: drop its client, unless that happened already.
op_failed ==
    /\ Ready
    /\ Head(cq).res < 0
    /\ \/ must_close_fails(Head(cq).op)
       \/ /\ disconnect_and_free_op(Head(cq).op)
          /\ Take
          /\ UNCHANGED <<next_client_id, sq, pc, cur, kernel, sock, fresh, requests>>

\* Mutation of client_gone: the completion is skipped.
client_gone_skips ==
    /\ Ready
    /\ Head(cq).res >= 0
    /\ ops[Head(cq).op].client_id \notin DOMAIN clients
    /\ Take
    /\ UNCHANGED <<memory, sq, pc, cur, world, ghost>>

\* A successful operation of a client that was dropped in the meantime.
client_gone ==
    /\ Ready
    /\ Head(cq).res >= 0
    /\ ops[Head(cq).op].client_id \notin DOMAIN clients
    /\ free_op(Head(cq).op)
    /\ Forget(Head(cq).op)
    /\ Take
    /\ UNCHANGED <<clients, next_client_id, sq, pc, cur, world>>

\* The completion is a successful one of a live client.
Handles(type) ==
    /\ Ready
    /\ Head(cq).res >= 0
    /\ ops[Head(cq).op].client_id \in DOMAIN clients
    /\ ops[Head(cq).op].type = type

\* The accepting Operation goes on as the client's only receive (add_recv),
\* and a new Operation accepts the next client, already in the map
\* (add_accept).
handle_accept ==
    /\ Handles("OP_ACCEPT")
    /\ LET r == Head(cq).op
           fd == Head(cq).res
       IN  \/ SqFull(2) /\ exit("sq_full")
           \/ /\ ~SqFull(2)
              /\ \E o \in Offer(FreeIn(pool)), b \in Offer(FreeIn(slab2k)) :
                     /\ Pool!Acquire(o, 1)
                     /\ Slab2k!Acquire(b, 1)
                     /\ ops' = [ops EXCEPT
                            ![r] = add_recv(@, fd),
                            ![o] = AcceptOp(next_client_id, b)]
                     /\ sq' = Append(Append(sq, r), o)
              /\ clients' = [id \in DOMAIN clients \cup {next_client_id} |->
                     IF id = next_client_id THEN NewClient
                     ELSE IF id = ops[r].client_id
                     THEN [clients[id] EXCEPT !.client_fd = fd]
                     ELSE clients[id]]
              /\ next_client_id' = next_client_id + 1
              /\ Take
              /\ UNCHANGED <<slab64, pc, cur, world, ghost>>

\* A receive: end of file drops the client, data is parsed.
handle_recv ==
    /\ Handles("OP_READ")
    /\ LET r == Head(cq).op
       IN  \/ /\ Head(cq).res = 0
              /\ \/ must_close_fails(r)
                 \/ /\ disconnect_and_free_op(r)
                    /\ Take
                    /\ UNCHANGED <<next_client_id, sq, pc, cur,
                                   kernel, sock, fresh, requests>>
           \/ /\ Head(cq).res > 0
              /\ cur' = [op |-> r, reqs |-> Head(cq).reqs]
              /\ Take
              /\ UNCHANGED <<memory, sq, pc, world, ghost>>

\* handle, called for the first of the requests left in the buffer.
handle ==
    /\ cur # Idle
    /\ ~Stopped
    /\ cur.reqs # <<>>
    /\ LET r == cur.op
       IN  \/ /\ Head(cur.reqs) = "other"
              /\ \/ must_close_fails(r)
                 \/ /\ disconnect_and_free_op(r)
                    /\ cur' = Idle
                    /\ UNCHANGED <<next_client_id, sq, cq, pc, batch,
                                   kernel, sock, fresh, requests>>
           \/ /\ Head(cur.reqs) # "other"
              /\ SqFull(1)
              /\ exit("sq_full")
           \/ /\ ~SqFull(1)
              /\ \/ /\ Head(cur.reqs) = "username"
                    /\ clients' = [clients EXCEPT ![ops[r].client_id].named = TRUE]
                    /\ send_response(r, OkLen)
                 \/ /\ Head(cur.reqs) = "bad_username"
                    /\ UNCHANGED clients
                    /\ send_response(r, ErrLen)
              /\ cur' = [cur EXCEPT !.reqs = Tail(@)]
              /\ UNCHANGED <<next_client_id, cq, pc, batch, world>>

\* Mutation of resume_recv: the Operation is freed instead, as in handle_send.
resume_recv_frees ==
    /\ cur # Idle
    /\ ~Stopped
    /\ cur.reqs = <<>>
    /\ \/ SqFull(1) /\ exit("sq_full")
       \/ /\ ~SqFull(1)
          /\ free_op(cur.op)
          /\ Forget(cur.op)
          /\ cur' = Idle
          /\ UNCHANGED <<clients, next_client_id, sq, cq, pc, batch, world>>

\* Mutation of resume_recv: two submissions are prepared.
resume_recv_twice ==
    /\ cur # Idle
    /\ ~Stopped
    /\ cur.reqs = <<>>
    /\ \/ SqFull(2) /\ exit("sq_full")
       \/ /\ ~SqFull(2)
          /\ sq' = Append(Append(sq, cur.op), cur.op)
          /\ cur' = Idle
          /\ UNCHANGED <<memory, cq, pc, batch, world, ghost>>

\* When no complete request is left the same Operation receives on.
resume_recv ==
    /\ cur # Idle
    /\ ~Stopped
    /\ cur.reqs = <<>>
    /\ \/ SqFull(1) /\ exit("sq_full")
       \/ /\ ~SqFull(1)
          /\ sq' = Append(sq, cur.op)
          /\ cur' = Idle
          /\ UNCHANGED <<memory, cq, pc, batch, world, ghost>>

\* Mutations of op_is_incomplete: bytes of earlier writes are forgotten; a
\* short write counts as a complete one.
op_is_incomplete_total(o, n) == n < ops[o].buf_len
op_is_incomplete_never(o, n) == n = 0

op_is_incomplete(o, n) == n < ops[o].buf_len - ops[o].processed

\* The rest of the buffer is sent with the same Operation.
resume_send(o, n) ==
    /\ ops' = [ops EXCEPT ![o].processed = @ + n]
    /\ sq' = Append(sq, o)

\* A short write is resumed where the kernel stopped; a complete one frees
\* its Operation.
handle_send ==
    /\ Handles("OP_WRITE")
    /\ LET o == Head(cq).op
           n == Head(cq).res
       IN  \/ /\ op_is_incomplete(o, n)
              /\ SqFull(1)
              /\ exit("sq_full")
           \/ /\ op_is_incomplete(o, n)
              /\ ~SqFull(1)
              /\ resume_send(o, n)
              /\ Take
              /\ UNCHANGED <<pool, slab64, slab2k, clients, next_client_id,
                             pc, cur, world, ghost>>
           \/ /\ ~op_is_incomplete(o, n)
              /\ free_op(o)
              /\ Forget(o)
              /\ Take
              /\ UNCHANGED <<clients, next_client_id, sq, pc, cur, world>>
-----------------------------------------------------------------------------
(* The loop of server_start: wait for one completion and handle it, handle *)
(* those that are there by then, submit everything that was prepared.      *)

\* server_start has prepared the first accept and is about to submit it.
Init ==
    \E o \in Offer(OpId), b \in Offer(Buf) :
        /\ pool = [x \in OpId |-> IF x = o THEN 1 ELSE 0]
        /\ slab64 = [x \in Buf |-> 0]
        /\ slab2k = [x \in Buf |-> IF x = b THEN 1 ELSE 0]
        \* The fields of an Operation nobody used are of no interest.
        /\ ops = [x \in OpId |-> IF x = o THEN AcceptOp(1, b)
                                 ELSE [AcceptOp(1, NoBuf) EXCEPT !.buf_cap = 0]]
        /\ clients = [id \in {1} |-> NewClient]
        /\ next_client_id = 2
        /\ sq = <<o>>
        /\ cq = <<>>
        /\ pc = "submit"
        /\ batch = 0
        /\ cur = Idle
        /\ kernel = {}
        /\ sock = [x \in OpId |-> NoConn]
        /\ files = [fd \in Fd |-> NoConn]
        /\ fresh = Conn
        /\ requests = MaxRequests
        /\ peer = [x \in OpId |-> NoConn]
        /\ sent = [x \in OpId |-> 0]

io_uring_wait_cqe ==
    /\ pc = "wait"
    /\ cq # <<>>
    /\ pc' = "one"
    /\ batch' = 1
    /\ UNCHANGED <<memory, sq, cq, cur, world, ghost>>

\* Mutation of the loop: when nothing is there it goes back to waiting
\* without the submission, as if -EAGAIN needed none.
io_uring_peek_batch_cqe_skips ==
    /\ pc = "one" /\ batch = 0 /\ cur = Idle
    /\ pc' = IF cq = <<>> THEN "wait" ELSE "many"
    /\ batch' = IF Len(cq) <= MaxBatch THEN Len(cq) ELSE MaxBatch
    /\ UNCHANGED <<memory, sq, cq, cur, world, ghost>>

\* At most MaxBatch of the completions that are there; none is an empty batch.
io_uring_peek_batch_cqe ==
    /\ pc = "one" /\ batch = 0 /\ cur = Idle
    /\ pc' = "many"
    /\ batch' = IF Len(cq) <= MaxBatch THEN Len(cq) ELSE MaxBatch
    /\ UNCHANGED <<memory, sq, cq, cur, world, ghost>>

batch_done ==
    /\ pc = "many" /\ batch = 0 /\ cur = Idle
    /\ pc' = "submit"
    /\ UNCHANGED <<memory, sq, cq, batch, cur, world, ghost>>

\* io_uring_submit hands the queue over entry by entry.  The descriptor is
\* resolved now, not when the entry was prepared.
submit_sqe ==
    /\ pc = "submit" /\ sq # <<>>
    /\ LET o == Head(sq) IN
           /\ kernel' = kernel \cup {o}
           /\ sock' = [sock EXCEPT ![o] = IF Open(ops[o].client_fd)
                                          THEN files[ops[o].client_fd] ELSE NoConn]
    /\ sq' = Tail(sq)
    /\ UNCHANGED <<memory, cq, loop, files, fresh, requests, ghost>>

io_uring_submit ==
    /\ pc = "submit" /\ sq = <<>>
    /\ pc' = "wait"
    /\ UNCHANGED <<memory, sq, cq, batch, cur, world, ghost>>

\* Any of the three calls may return an error, which ends the process.
ring_error ==
    /\ \/ pc \in {"submit", "wait"}
       \/ pc = "one" /\ batch = 0 /\ cur = Idle
    /\ exit("ring_error")
-----------------------------------------------------------------------------
(* The kernel and the peers, between any two steps of the loop.            *)

Complete(o, res, reqs) ==
    /\ kernel' = kernel \ {o}
    /\ sock' = [sock EXCEPT ![o] = NoConn]
    /\ cq' = Append(cq, [op |-> o, res |-> res, reqs |-> reqs])

Works(o) == ~Stopped /\ o \in kernel

\* A connection is accepted on the lowest descriptor that is not in use.
KernelAccept(o) ==
    /\ Works(o) /\ ops[o].type = "OP_ACCEPT"
    /\ \E c \in fresh, fd \in Fd :
           /\ ~Open(fd)
           /\ \A f \in Fd : f < fd => Open(f)
           /\ files' = [files EXCEPT ![fd] = c]
           /\ fresh' = fresh \ {c}
           /\ peer' = [peer EXCEPT ![o] = c]
           /\ Complete(o, fd, <<>>)
    /\ UNCHANGED <<memory, sq, loop, requests, sent>>

\* Data: complete requests, as many as a receive may hold (MaxReqs), none if they
\* are only begun.  Requests of length 0, of which handle_recv finds no end, are
\* left to RecvBuffer.
KernelRecv(o) ==
    /\ Works(o) /\ ops[o].type = "OP_READ" /\ sock[o] # NoConn
    /\ \E n \in 0..MaxReqs : \E reqs \in [1..n -> Request] :
           /\ n <= requests
           /\ requests' = requests - n
           /\ Complete(o, 1, reqs)
    /\ UNCHANGED <<memory, sq, loop, files, fresh, ghost>>

\* The peer has closed its end.
KernelEof(o) ==
    /\ Works(o) /\ ops[o].type = "OP_READ" /\ sock[o] # NoConn
    /\ Complete(o, 0, <<>>)
    /\ UNCHANGED <<memory, sq, loop, files, fresh, requests, ghost>>

\* A send takes some of the bytes that remain.
KernelSend(o) ==
    /\ Works(o) /\ ops[o].type = "OP_WRITE" /\ sock[o] # NoConn
    /\ \E n \in 0..(ops[o].buf_len - ops[o].processed) :
           /\ sent' = [sent EXCEPT ![o] = @ + n]
           /\ Complete(o, n, <<>>)
    /\ UNCHANGED <<memory, sq, loop, files, fresh, requests, peer>>

\* Any operation may fail; one on a closed descriptor can do nothing else.
KernelFail(o) ==
    /\ Works(o)
    /\ Complete(o, -1, <<>>)
    /\ UNCHANGED <<memory, sq, loop, files, fresh, requests, ghost>>
-----------------------------------------------------------------------------
Handler ==
    \/ op_failed \/ client_gone \/ handle_accept \/ handle_recv
    \/ handle \/ resume_recv \/ handle_send

Loop ==
    \/ io_uring_wait_cqe \/ io_uring_peek_batch_cqe \/ batch_done
    \/ submit_sqe \/ io_uring_submit

Kernel ==
    \E o \in OpId :
        \/ KernelAccept(o) \/ KernelRecv(o) \/ KernelEof(o)
        \/ KernelSend(o) \/ KernelFail(o)

\* The process is gone.
Terminated == Stopped /\ UNCHANGED vars

Next == Handler \/ Loop \/ ring_error \/ Kernel \/ Terminated

Spec == Init /\ [][Next]_vars

(***************************************************************************)
(* The thread of the loop runs whenever it is not waiting for the kernel.  *)
(* A peer reads what it is sent, or its connection breaks, so a send that  *)
(* is tried again and again takes bytes again and again; an operation on a *)
(* closed descriptor fails.  Nothing makes peers connect, send or close.   *)
(***************************************************************************)
Fairness ==
    /\ WF_vars(Handler \/ Loop)
    /\ \A o \in OpId :
           /\ SF_vars(KernelSend(o) /\ sent' # sent)
           /\ WF_vars(KernelFail(o) /\ sock[o] = NoConn /\ ops[o].type # "OP_ACCEPT")

FairSpec == Spec /\ Fairness
-----------------------------------------------------------------------------
OpRec == [type : {"OP_ACCEPT", "OP_READ", "OP_WRITE"}, client_id : Nat \ {0},
          client_fd : Int, buf : Buf \cup {NoBuf},
          buf_cap : {0, SmallCap, LargeCap}, buf_len : 0..SmallCap,
          processed : 0..SmallCap]

ClientInfo == [client_fd : Int, named : BOOLEAN]

TypeOK ==
    /\ pool \in [OpId -> 0..1]
    /\ slab64 \in [Buf -> 0..1]
    /\ slab2k \in [Buf -> 0..1]
    /\ ops \in [OpId -> OpRec]
    /\ DOMAIN clients \subseteq Nat \ {0}
    /\ clients \in [DOMAIN clients -> ClientInfo]
    /\ next_client_id \in Nat \ {0}
    /\ sq \in Seq(OpId)
    /\ cq \in Seq([op : OpId, res : Int, reqs : Seq(Request)])
    /\ pc \in {"submit", "wait", "one", "many", "sq_full", "bad_close", "ring_error"}
    /\ batch \in Nat
    /\ cur \in [op : OpId, reqs : Seq(Request)] \cup {Idle}
    /\ kernel \subseteq OpId
    /\ sock \in [OpId -> Conn \cup {NoConn}]
    /\ files \in [Fd -> Conn \cup {NoConn}]
    /\ fresh \subseteq Conn
    /\ requests \in 0..MaxRequests
    /\ peer \in [OpId -> Conn \cup {NoConn}]
    /\ sent \in [OpId -> Nat]

\* The Operations that the completion queue refers to.
CqOps == {cq[i].op : i \in 1..Len(cq)}

\* An Operation is out of the pool exactly while one party has it: the
\* submission queue, the kernel, the completion queue or the parser.  None
\* is recycled while the ring still refers to it by pool_id, and none is
\* lost or completed twice.
OneHolder ==
    /\ \A i, j \in 1..Len(sq) : sq[i] = sq[j] => i = j
    /\ \A i, j \in 1..Len(cq) : cq[i].op = cq[j].op => i = j
    /\ Range(sq) \cap kernel = {}
    /\ Range(sq) \cap CqOps = {}
    /\ kernel \cap CqOps = {}
    /\ cur.op \notin Range(sq) \cup kernel \cup CqOps
    /\ Busy = Range(sq) \cup kernel \cup CqOps \cup ({cur.op} \ {NoOp})

\* Every buffer that is out of a slab is the buffer of exactly one Operation
\* that is out of the pool, and that Operation's buf_cap names the slab it
\* came from: the kernel never writes into a buffer that was recycled, and
\* free_op gives it back to where it belongs.
BufferOwned ==
    /\ \A o \in Busy :
           /\ ops[o].buf \in Buf
           /\ IF ops[o].buf_cap > SmallCap
              THEN slab2k[ops[o].buf] = 1
              ELSE slab64[ops[o].buf] = 1
    /\ \A o, p \in Busy :
           ops[o].buf = ops[p].buf /\ ops[o].buf_cap = ops[p].buf_cap => o = p
    /\ \A b \in Buf :
           /\ slab64[b] = 1 => \E o \in Busy : ops[o].buf = b /\ ops[o].buf_cap = SmallCap
           /\ slab2k[b] = 1 => \E o \in Busy : ops[o].buf = b /\ ops[o].buf_cap = LargeCap

\* While a client is in the map, the descriptor in its Operations is the one
\* in its ClientInfo, it is open and it still refers to the connection the
\* client was accepted on: no handler of another client has closed it, and
\* closing it hits no other client though the kernel reuses descriptors.
ClientSockets ==
    \A o \in Busy :
        (ops[o].type # "OP_ACCEPT" /\ ops[o].client_id \in DOMAIN clients) =>
            /\ ops[o].client_fd = clients[ops[o].client_id].client_fd
            /\ Open(ops[o].client_fd)
            /\ files[ops[o].client_fd] = peer[o]

\* Every client in the map has exactly one Operation that accepts or
\* receives for it, and one client is waiting to be accepted.
OneReader ==
    /\ \A id \in DOMAIN clients : \E o \in Busy :
           ops[o].client_id = id /\ ops[o].type # "OP_WRITE"
    /\ \A o, p \in Busy :
           /\ ops[o].type # "OP_WRITE" /\ ops[p].type # "OP_WRITE"
           /\ ops[o].client_id = ops[p].client_id
           => o = p
    /\ \E o \in Busy : ops[o].type = "OP_ACCEPT" /\ ops[o].client_id \in DOMAIN clients

\* A descriptor is open only while a client in the map uses it or the
\* completion of its accept is still to be handled: dropped clients leave
\* no descriptor behind.
NoOrphanSocket ==
    \A fd \in Fd : Open(fd) =>
        \/ \E id \in DOMAIN clients : clients[id].client_fd = fd
        \/ \E i \in 1..Len(cq) :
               ops[cq[i].op].type = "OP_ACCEPT" /\ cq[i].res = fd

\* A response is resumed at the first byte the kernel has not taken, so none
\* is sent twice or skipped, whatever Operation object is recycled for it.
SendOffset ==
    /\ \A o \in Range(sq) \cup kernel :
           ops[o].type = "OP_WRITE" => sent[o] = ops[o].processed
    /\ \A i \in 1..Len(cq) :
           ops[cq[i].op].type = "OP_WRITE" /\ cq[i].res >= 0
               => sent[cq[i].op] = ops[cq[i].op].processed + cq[i].res

\* The Operation of a response is given up only when all of the response was
\* taken by the kernel, or its client is gone.
ResponseComplete ==
    [][\A o \in OpId :
           (pool[o] = 1 /\ pool'[o] = 0 /\ ops[o].type = "OP_WRITE"
                /\ ops[o].client_id \in DOMAIN clients')
           => sent[o] = ops[o].buf_len]_vars

\* The most submissions one round of the loop can prepare: a completion
\* prepares one for each of its requests and one more.
RoundMax == (MaxBatch + 1) * (MaxReqs + 1)

\* With room for a round of the loop the queue is never found full: every
\* round submits all it has prepared, whatever the kernel completes.
RingHasRoom == RoundMax <= SqSize => pc # "sq_full"

\* What is prepared reaches the kernel, unless the process ends: again and
\* again all of it has.
PreparedIsSubmitted == (sq # <<>>) ~> (sq = <<>> \/ Stopped)

Responses == {o \in Busy : ops[o].type = "OP_WRITE"}

\* The Operations of all responses are given back in the end, since peers ask
\* for a bounded number: each was sent, in pieces if need be, or its client is
\* gone.
ResponseFinishes == (Responses # {}) ~> (Responses = {} \/ Stopped)

\* server.c on handle_cqe_batch: "If an operation fails, server disconnects
\* the client and frees the op" - it does not end the process.
FailureIsLocal == pc # "bad_close"

\* That close fails for no other reason: the process is never ended because the
\* socket of a client was closed twice.
ClosedOnce ==
    pc = "bad_close" =>
        /\ cur = Idle /\ cq # <<>>
        /\ Head(cq).res < 0 /\ ops[Head(cq).op].type = "OP_ACCEPT"

\* protocol.c: the response to a request goes to the client that sent it, so
\* a send the kernel works on is bound to that client's connection, or to
\* none if it is closed.
OwnConnection ==
    \A o \in kernel :
        ops[o].type = "OP_WRITE" => sock[o] \in {peer[o], NoConn}
=============================================================================
