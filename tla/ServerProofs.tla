---------------------------- MODULE ServerProofs ----------------------------
(***************************************************************************)
(* server.c for any number of Operations, buffers, connections and         *)
(* descriptors, any batch and queue size, and any choice the allocators    *)
(* make: types, the holder of every Operation, the room in the submission  *)
(* queue, then who owns buffers, the bytes of a response, sockets and the  *)
(* readers of clients.                                                     *)
(***************************************************************************)
EXTENDS Server, SeqLemmas

Cqe == [op : OpId, res : Int, reqs : Seq(Request)]

-----------------------------------------------------------------------------
(* Types.  The helpers first, each with the variables it changes.          *)

\* An allocator offers only items that are free.
LEMMA OffersFree ==
    ASSUME TypeOK
    PROVE  /\ \A o \in Offer(FreeIn(pool)) : o \in OpId /\ pool[o] = 0
           /\ \A b \in Offer(FreeIn(slab64)) : b \in Buf /\ slab64[b] = 0
           /\ \A b \in Offer(FreeIn(slab2k)) : b \in Buf /\ slab2k[b] = 0
<1>1. /\ FreeIn(pool) \in SUBSET OpId /\ \A o \in FreeIn(pool) : pool[o] = 0
      /\ FreeIn(slab64) \in SUBSET Buf /\ \A b \in FreeIn(slab64) : slab64[b] = 0
      /\ FreeIn(slab2k) \in SUBSET Buf /\ \A b \in FreeIn(slab2k) : slab2k[b] = 0
  BY DEF TypeOK, FreeIn
<1>2. /\ Offer(FreeIn(pool)) \subseteq FreeIn(pool)
      /\ Offer(FreeIn(slab64)) \subseteq FreeIn(slab64)
      /\ Offer(FreeIn(slab2k)) \subseteq FreeIn(slab2k)
  BY <1>1, ServerAssumption, Zenon
<1> QED BY <1>1, <1>2

\* Giving back one of at most one reference leaves none.
LEMMA ReleaseTypes ==
    ASSUME NEW Item, NEW f \in [Item -> 0..1], NEW i, f[i] > 0
    PROVE  [f EXCEPT ![i] = @ - 1] \in [Item -> 0..1]
<1>1. CASE i \in Item
  BY <1>1
<1>2. CASE i \notin Item
  BY <1>2
<1> QED BY <1>1, <1>2

\* free_op keeps the types of the allocators and of the Operations.
LEMMA FreeOpTypes ==
    ASSUME TypeOK, NEW o \in OpId, free_op(o)
    PROVE  /\ pool' \in [OpId -> 0..1]
           /\ slab64' \in [Buf -> 0..1]
           /\ slab2k' \in [Buf -> 0..1]
           /\ ops' \in [OpId -> OpRec]
<1>1. pool' \in [OpId -> 0..1]
  BY DEF TypeOK, free_op, Pool!Release
<1>2. slab64' \in [Buf -> 0..1] /\ slab2k' \in [Buf -> 0..1]
  <2>1. slab64 \in [Buf -> 0..1] /\ slab2k \in [Buf -> 0..1]
    BY DEF TypeOK
  <2>2. CASE Slab2k!Release(ops[o].buf) /\ UNCHANGED slab64
    BY <2>1, <2>2, ReleaseTypes, Zenon DEF Slab2k!Release
  <2>3. CASE Slab64!Release(ops[o].buf) /\ UNCHANGED slab2k
    BY <2>1, <2>3, ReleaseTypes, Zenon DEF Slab64!Release
  <2> QED BY <2>2, <2>3 DEF free_op
<1>3. ops' \in [OpId -> OpRec]
  <2>1. ops[o] \in OpRec
    BY DEF TypeOK
  <2>2. NoFd \in Int
    BY DEF NoFd
  <2>3. [ops[o] EXCEPT !.client_fd = NoFd, !.buf = NoBuf] \in OpRec
    BY <2>1, <2>2 DEF OpRec
  <2> QED BY <2>3 DEF TypeOK, free_op
<1> QED BY <1>1, <1>2, <1>3

\* A new response keeps the types.
LEMMA SendResponseTypes ==
    ASSUME TypeOK, NEW r \in OpId, NEW len \in 1..SmallCap, send_response(r, len)
    PROVE  /\ pool' \in [OpId -> 0..1]
           /\ slab64' \in [Buf -> 0..1]
           /\ slab2k' \in [Buf -> 0..1]
           /\ ops' \in [OpId -> OpRec]
           /\ sq' \in Seq(OpId)
           /\ peer' \in [OpId -> Conn \cup {NoConn}]
           /\ sent' \in [OpId -> Nat]
<1>1. PICK o \in Offer(FreeIn(pool)), b \in Offer(FreeIn(slab64)) :
        /\ Pool!Acquire(o, 1)
        /\ Slab64!Acquire(b, 1)
        /\ ops' = [ops EXCEPT ![o] =
               WriteOp(ops[r].client_id, ops[r].client_fd, b, len)]
        /\ sq' = Append(sq, o)
        /\ peer' = [peer EXCEPT ![o] = peer[r]]
        /\ sent' = [sent EXCEPT ![o] = 0]
        /\ UNCHANGED slab2k
  BY DEF send_response
<1>2. o \in OpId /\ b \in Buf
  BY <1>1, OffersFree
<1>3. pool' \in [OpId -> 0..1] /\ slab64' \in [Buf -> 0..1] /\ slab2k' \in [Buf -> 0..1]
  BY <1>1, <1>2 DEF TypeOK, Pool!Acquire, Slab64!Acquire
<1>4. WriteOp(ops[r].client_id, ops[r].client_fd, b, len) \in OpRec
  BY <1>2 DEF TypeOK, OpRec, WriteOp, SmallCap, LargeCap
<1>5. ops' \in [OpId -> OpRec]
  BY <1>1, <1>4 DEF TypeOK
<1>6. sq' \in Seq(OpId)
  BY <1>1, <1>2, AppendProperties DEF TypeOK
<1>7. peer' \in [OpId -> Conn \cup {NoConn}] /\ sent' \in [OpId -> Nat]
  BY <1>1 DEF TypeOK
<1> QED BY <1>3, <1>5, <1>6, <1>7

\* Dropping a client and its Operation keeps the types.
LEMMA DisconnectTypes ==
    ASSUME TypeOK, NEW o \in OpId, disconnect_and_free_op(o)
    PROVE  /\ pool' \in [OpId -> 0..1]
           /\ slab64' \in [Buf -> 0..1]
           /\ slab2k' \in [Buf -> 0..1]
           /\ ops' \in [OpId -> OpRec]
           /\ DOMAIN clients' \subseteq Nat \ {0}
           /\ clients' \in [DOMAIN clients' -> ClientInfo]
           /\ files' \in [Fd -> Conn \cup {NoConn}]
           /\ peer' \in [OpId -> Conn \cup {NoConn}]
           /\ sent' \in [OpId -> Nat]
<1>1. free_op(o) /\ Forget(o)
  BY DEF disconnect_and_free_op
<1>2. peer' \in [OpId -> Conn \cup {NoConn}] /\ sent' \in [OpId -> Nat]
  BY <1>1 DEF TypeOK, Forget
<1>3. files' \in [Fd -> Conn \cup {NoConn}]
  BY DEF TypeOK, disconnect_and_free_op
<1>4. DOMAIN clients' \subseteq Nat \ {0} /\ clients' \in [DOMAIN clients' -> ClientInfo]
  <2>1. DOMAIN clients \subseteq Nat \ {0} /\ clients \in [DOMAIN clients -> ClientInfo]
    BY DEF TypeOK
  <2>2. CASE clients' = Restrict(clients, DOMAIN clients \ {ops[o].client_id})
    BY <2>1, <2>2 DEF Restrict
  <2>3. CASE clients' = clients
    BY <2>1, <2>3
  <2> QED BY <2>2, <2>3 DEF disconnect_and_free_op
<1> QED BY <1>1, <1>2, <1>3, <1>4, FreeOpTypes

\* The completion at the head of the queue, and what taking it leaves.
LEMMA TakeTypes ==
    ASSUME TypeOK, cq # <<>>
    PROVE  /\ Head(cq) \in Cqe
           /\ Tail(cq) \in Seq(Cqe)
           /\ batch > 0 /\ Take => cq' \in Seq(Cqe) /\ batch' \in Nat
<1>1. cq \in Seq(Cqe)
  BY DEF TypeOK, Cqe
<1>2. Head(cq) \in Cqe /\ Tail(cq) \in Seq(Cqe)
  BY <1>1, HeadTailProperties
<1>3. ASSUME batch > 0, Take PROVE cq' \in Seq(Cqe) /\ batch' \in Nat
  <2>1. batch \in Nat
    BY DEF TypeOK
  <2> QED BY <1>2, <1>3, <2>1 DEF Take
<1> QED BY <1>2, <1>3

\* A completion keeps the types of what the kernel works on.
LEMMA CompleteTypes ==
    ASSUME TypeOK, NEW o \in OpId, NEW res \in Int, NEW reqs \in Seq(Request),
           Complete(o, res, reqs)
    PROVE  /\ kernel' \subseteq OpId
           /\ sock' \in [OpId -> Conn \cup {NoConn}]
           /\ cq' \in Seq(Cqe)
<1>1. cq \in Seq(Cqe)
  BY DEF TypeOK, Cqe
<1>2. [op |-> o, res |-> res, reqs |-> reqs] \in Cqe
  BY DEF Cqe
<1>3. cq' \in Seq(Cqe)
  BY <1>1, <1>2, AppendProperties DEF Complete
<1> QED BY <1>3 DEF TypeOK, Complete

\* The initial state has the types.
LEMMA InitTypes == Init => TypeOK
<1> SUFFICES ASSUME Init PROVE TypeOK
  OBVIOUS
<1> USE ServerAssumption
<1>1. PICK o \in Offer(OpId), b \in Offer(Buf) :
        /\ pool = [x \in OpId |-> IF x = o THEN 1 ELSE 0]
        /\ slab64 = [x \in Buf |-> 0]
        /\ slab2k = [x \in Buf |-> IF x = b THEN 1 ELSE 0]
        /\ ops = [x \in OpId |-> IF x = o THEN AcceptOp(1, b)
                                 ELSE [AcceptOp(1, NoBuf) EXCEPT !.buf_cap = 0]]
        /\ sq = <<o>>
  BY DEF Init
<1>2. o \in OpId /\ b \in Buf
  BY <1>1
<1>3. /\ clients = [id \in {1} |-> NewClient]
      /\ next_client_id = 2 /\ cq = <<>> /\ pc = "submit" /\ batch = 0 /\ cur = Idle
      /\ kernel = {} /\ sock = [x \in OpId |-> NoConn]
      /\ files = [fd \in Fd |-> NoConn] /\ fresh = Conn
      /\ requests = MaxRequests /\ peer = [x \in OpId |-> NoConn]
      /\ sent = [x \in OpId |-> 0]
  BY DEF Init
<1>4. NoFd \in Int
  BY DEF NoFd
<1>5. AcceptOp(1, b) \in OpRec /\ [AcceptOp(1, NoBuf) EXCEPT !.buf_cap = 0] \in OpRec
  BY <1>2, <1>4 DEF AcceptOp, OpRec, SmallCap, LargeCap
<1>6. ops \in [OpId -> OpRec]
  BY <1>1, <1>5
<1>7. DOMAIN clients \subseteq Nat \ {0} /\ clients \in [DOMAIN clients -> ClientInfo]
  BY <1>3, <1>4 DEF NewClient, ClientInfo
<1>8. cur \in [op : OpId, reqs : Seq(Request)] \cup {Idle}
  BY <1>3 DEF Idle
<1>9. sq \in Seq(OpId) /\ cq \in Seq([op : OpId, res : Int, reqs : Seq(Request)])
  BY <1>1, <1>2, <1>3
<1>10. /\ pool \in [OpId -> 0..1] /\ slab64 \in [Buf -> 0..1] /\ slab2k \in [Buf -> 0..1]
       /\ sock \in [OpId -> Conn \cup {NoConn}] /\ files \in [Fd -> Conn \cup {NoConn}]
       /\ peer \in [OpId -> Conn \cup {NoConn}] /\ sent \in [OpId -> Nat]
  BY <1>1, <1>3
<1>11. /\ next_client_id \in Nat \ {0} /\ batch \in Nat /\ requests \in 0..MaxRequests
       /\ kernel \subseteq OpId /\ fresh \subseteq Conn
       /\ pc \in {"submit", "wait", "one", "many", "sq_full", "bad_close", "ring_error"}
  BY <1>3
<1> QED BY <1>6, <1>7, <1>8, <1>9, <1>10, <1>11 DEF TypeOK

\* A step that ends the process keeps the types.
LEMMA ExitTypes ==
    ASSUME TypeOK, NEW reason \in {"sq_full", "bad_close", "ring_error"}, exit(reason)
    PROVE  TypeOK'
BY DEF TypeOK, exit, memory, world, ghost

\* handle, on one request, keeps the types.
LEMMA HandleTypes == TypeOK /\ handle => TypeOK'
<1> SUFFICES ASSUME TypeOK, handle PROVE TypeOK'
  OBVIOUS
<1> DEFINE r == cur.op
<1>1. cur # Idle /\ cur.reqs # <<>> /\ cur \in [op : OpId, reqs : Seq(Request)]
  BY DEF handle, TypeOK
<1>2. Tail(cur.reqs) \in Seq(Request)
  BY <1>1, HeadTailProperties
<1>3. r \in OpId
  BY <1>1
<1>4. CASE must_close_fails(r) \/ exit("sq_full")
  BY <1>4, ExitTypes DEF must_close_fails
<1>5. CASE /\ disconnect_and_free_op(r)
           /\ cur' = Idle
           /\ UNCHANGED <<next_client_id, sq, cq, pc, batch,
                          kernel, sock, fresh, requests>>
  <2>1. cur' \in [op : OpId, reqs : Seq(Request)] \cup {Idle}
    BY <1>5 DEF Idle
  <2> QED BY <1>3, <1>5, <2>1, DisconnectTypes DEF TypeOK
<1>6. CASE /\ \/ /\ clients' = [clients EXCEPT ![ops[r].client_id].named = TRUE]
                 /\ send_response(r, OkLen)
              \/ /\ UNCHANGED clients
                 /\ send_response(r, ErrLen)
           /\ cur' = [cur EXCEPT !.reqs = Tail(@)]
           /\ UNCHANGED <<next_client_id, cq, pc, batch, world>>
  <2>1. cur' \in [op : OpId, reqs : Seq(Request)] \cup {Idle}
    BY <1>1, <1>2, <1>6
  <2>2. DOMAIN clients' \subseteq Nat \ {0} /\ clients' \in [DOMAIN clients' -> ClientInfo]
    <3>1. DOMAIN clients \subseteq Nat \ {0} /\ clients \in [DOMAIN clients -> ClientInfo]
      BY DEF TypeOK
    <3>2. CASE clients' = [clients EXCEPT ![ops[r].client_id].named = TRUE]
      BY <3>1, <3>2 DEF ClientInfo
    <3> QED BY <1>6, <3>1, <3>2
  <2>3. OkLen \in 1..SmallCap /\ ErrLen \in 1..SmallCap
    BY ServerAssumption
  <2> QED BY <1>3, <1>6, <2>1, <2>2, <2>3, SendResponseTypes DEF TypeOK, world
<1> QED BY <1>4, <1>5, <1>6 DEF handle

\* resume_recv keeps the types.
LEMMA ResumeRecvTypes == TypeOK /\ resume_recv => TypeOK'
<1> SUFFICES ASSUME TypeOK, resume_recv PROVE TypeOK'
  OBVIOUS
<1>1. CASE exit("sq_full")
  BY <1>1, ExitTypes
<1>2. CASE /\ sq' = Append(sq, cur.op)
           /\ cur' = Idle
           /\ UNCHANGED <<memory, cq, pc, batch, world, ghost>>
  <2>1. cur.op \in OpId /\ sq \in Seq(OpId)
    BY DEF resume_recv, TypeOK
  <2>2. sq' \in Seq(OpId)
    BY <1>2, <2>1, AppendProperties
  <2> QED BY <1>2, <2>2 DEF TypeOK, memory, world, ghost
<1> QED BY <1>1, <1>2 DEF resume_recv

\* The handlers keep the types.
LEMMA HandlerTypes == TypeOK /\ Handler => TypeOK'
<1> SUFFICES ASSUME TypeOK, Handler PROVE TypeOK'
  OBVIOUS
<1> DEFINE o == Head(cq).op
<1>1. ASSUME Ready
      PROVE  /\ o \in OpId /\ Head(cq).res \in Int /\ Head(cq).reqs \in Seq(Request)
             /\ Take => cq' \in Seq(Cqe) /\ batch' \in Nat
  BY <1>1, TakeTypes DEF Ready, Cqe
<1>2. CASE op_failed
  <2>1. CASE must_close_fails(o)
    BY <2>1, ExitTypes DEF must_close_fails
  <2>2. CASE /\ disconnect_and_free_op(o)
             /\ Take
             /\ UNCHANGED <<next_client_id, sq, pc, cur, kernel, sock, fresh, requests>>
    <3>1. Ready
      BY <1>2 DEF op_failed
    <3> QED BY <1>1, <2>2, <3>1, DisconnectTypes DEF TypeOK, Cqe
  <2> QED BY <1>2, <2>1, <2>2 DEF op_failed
<1>3. CASE client_gone
  <2>1. Ready /\ free_op(o) /\ Forget(o) /\ Take
        /\ UNCHANGED <<clients, next_client_id, sq, pc, cur, world>>
    BY <1>3 DEF client_gone
  <2>2. peer' \in [OpId -> Conn \cup {NoConn}] /\ sent' \in [OpId -> Nat]
    BY <2>1 DEF Forget, TypeOK
  <2> QED BY <1>1, <2>1, <2>2, FreeOpTypes DEF TypeOK, Cqe, world
<1>4. CASE handle_accept
  <2>1. Ready
    BY <1>4 DEF handle_accept, Handles
  <2>2. CASE exit("sq_full")
    BY <2>2, ExitTypes
  <2>3. CASE ~exit("sq_full")
    <3>1. /\ clients' = [id \in DOMAIN clients \cup {next_client_id} |->
                 IF id = next_client_id THEN NewClient
                 ELSE IF id = ops[o].client_id
                 THEN [clients[id] EXCEPT !.client_fd = Head(cq).res]
                 ELSE clients[id]]
          /\ next_client_id' = next_client_id + 1
          /\ Take
          /\ UNCHANGED <<slab64, pc, cur, world, ghost>>
      BY <1>4, <2>3 DEF handle_accept
    <3>2. PICK n \in Offer(FreeIn(pool)), b \in Offer(FreeIn(slab2k)) :
                 /\ Pool!Acquire(n, 1)
                 /\ Slab2k!Acquire(b, 1)
                 /\ ops' = [ops EXCEPT
                        ![o] = [@ EXCEPT !.client_fd = Head(cq).res, !.type = "OP_READ"],
                        ![n] = AcceptOp(next_client_id, b)]
                 /\ sq' = Append(Append(sq, o), n)
      BY <1>4, <2>3 DEF handle_accept, add_recv
    <3>3. n \in OpId /\ b \in Buf /\ o \in OpId /\ Head(cq).res \in Int
      BY <1>1, <2>1, OffersFree
    <3>4. pool' \in [OpId -> 0..1] /\ slab2k' \in [Buf -> 0..1]
      BY <3>2, <3>3 DEF TypeOK, Pool!Acquire, Slab2k!Acquire
    <3>5. ops' \in [OpId -> OpRec]
      <4>1. NoFd \in Int /\ next_client_id \in Nat \ {0} /\ ops[o] \in OpRec
        BY <3>3 DEF TypeOK, NoFd
      <4>2. AcceptOp(next_client_id, b) \in OpRec
        BY <3>3, <4>1 DEF OpRec, AcceptOp, SmallCap, LargeCap
      <4>3. [ops[o] EXCEPT !.client_fd = Head(cq).res, !.type = "OP_READ"] \in OpRec
        BY <3>3, <4>1 DEF OpRec
      <4> QED BY <3>2, <4>2, <4>3 DEF TypeOK
    <3>6. sq' \in Seq(OpId)
      <4>1. sq \in Seq(OpId)
        BY DEF TypeOK
      <4> QED BY <3>2, <3>3, <4>1, AppendProperties
    <3>7. DOMAIN clients' \subseteq Nat \ {0} /\ clients' \in [DOMAIN clients' -> ClientInfo]
      <4>1. /\ DOMAIN clients \subseteq Nat \ {0}
            /\ \A id \in DOMAIN clients : clients[id] \in ClientInfo
            /\ next_client_id \in Nat \ {0}
        BY DEF TypeOK
      <4>2. NewClient \in ClientInfo
        BY DEF NewClient, ClientInfo, NoFd
      <4>3. \A id \in DOMAIN clients :
                [clients[id] EXCEPT !.client_fd = Head(cq).res] \in ClientInfo
        BY <3>3, <4>1 DEF ClientInfo
      <4> QED BY <3>1, <4>1, <4>2, <4>3
    <3>8. next_client_id' \in Nat \ {0}
      BY <3>1 DEF TypeOK
    <3> QED BY <1>1, <2>1, <3>1, <3>4, <3>5, <3>6, <3>7, <3>8
            DEF TypeOK, Cqe, world, ghost
  <2> QED BY <2>2, <2>3
<1>5. CASE handle_recv
  <2>1. Ready
    BY <1>5 DEF handle_recv, Handles
  <2>2. CASE must_close_fails(o)
    BY <2>2, ExitTypes DEF must_close_fails
  <2>3. CASE /\ disconnect_and_free_op(o)
             /\ Take
             /\ UNCHANGED <<next_client_id, sq, pc, cur, kernel, sock, fresh, requests>>
    BY <1>1, <2>1, <2>3, DisconnectTypes DEF TypeOK, Cqe
  <2>4. CASE /\ cur' = [op |-> o, reqs |-> Head(cq).reqs]
             /\ Take
             /\ UNCHANGED <<memory, sq, pc, world, ghost>>
    <3>1. cur' \in [op : OpId, reqs : Seq(Request)] \cup {Idle}
      BY <1>1, <2>1, <2>4
    <3> QED BY <1>1, <2>1, <2>4, <3>1 DEF TypeOK, Cqe, memory, world, ghost
  <2> QED BY <1>5, <2>2, <2>3, <2>4 DEF handle_recv
<1>6. CASE handle
  BY <1>6, HandleTypes
<1>7. CASE resume_recv
  BY <1>7, ResumeRecvTypes
<1>8. CASE handle_send
  <2>1. Ready
    BY <1>8 DEF handle_send, Handles
  <2>2. CASE exit("sq_full")
    BY <2>2, ExitTypes
  <2>3. CASE /\ op_is_incomplete(o, Head(cq).res)
             /\ ops' = [ops EXCEPT ![o].processed = @ + Head(cq).res]
             /\ sq' = Append(sq, o)
             /\ Take
             /\ UNCHANGED <<pool, slab64, slab2k, clients, next_client_id,
                            pc, cur, world, ghost>>
    <3>1. o \in OpId /\ Head(cq).res \in Nat
      BY <1>1, <1>8, <2>1 DEF handle_send, Handles
    <3>2. ops[o] \in OpRec /\ sq \in Seq(OpId)
      BY <3>1 DEF TypeOK
    <3>3. ops[o].processed + Head(cq).res \in 0..SmallCap
      <4>1. ops[o].processed \in 0..64 /\ ops[o].buf_len \in 0..64 /\ SmallCap = 64
        BY <3>2 DEF OpRec, SmallCap
      <4>2. Head(cq).res < ops[o].buf_len - ops[o].processed
        BY <2>3 DEF op_is_incomplete
      <4>3. \A p, l \in 0..64, n \in Nat : n < l - p => p + n \in 0..64
        OBVIOUS
      <4> QED BY <3>1, <4>1, <4>2, <4>3, Zenon
    <3>4. [ops[o] EXCEPT !.processed = @ + Head(cq).res] \in OpRec
      BY <3>2, <3>3 DEF OpRec
    <3>5. ops' \in [OpId -> OpRec]
      BY <2>3, <3>4 DEF TypeOK
    <3>6. sq' \in Seq(OpId)
      BY <2>3, <3>1, <3>2, AppendProperties
    <3> QED BY <1>1, <2>1, <2>3, <3>5, <3>6 DEF TypeOK, Cqe, world, ghost
  <2>4. CASE /\ free_op(o)
             /\ Forget(o)
             /\ Take
             /\ UNCHANGED <<clients, next_client_id, sq, pc, cur, world>>
    <3>1. peer' \in [OpId -> Conn \cup {NoConn}] /\ sent' \in [OpId -> Nat]
      BY <2>4 DEF Forget, TypeOK
    <3> QED BY <1>1, <2>1, <2>4, <3>1, FreeOpTypes DEF TypeOK, Cqe, world
  <2> QED BY <1>8, <2>2, <2>3, <2>4 DEF handle_send, resume_send
<1> QED BY <1>2, <1>3, <1>4, <1>5, <1>6, <1>7, <1>8 DEF Handler

\* The steps of the loop between the handlers keep the types.
LEMMA LoopTypes == TypeOK /\ Loop => TypeOK'
<1> SUFFICES ASSUME TypeOK, Loop PROVE TypeOK'
  OBVIOUS
<1>1. CASE io_uring_wait_cqe
  BY <1>1 DEF io_uring_wait_cqe, TypeOK, memory, world, ghost
<1>2. CASE io_uring_peek_batch_cqe
  <2>1. batch' \in Nat
    <3>1. cq \in Seq(Cqe) /\ MaxBatch \in Nat
      BY ServerAssumption DEF TypeOK, Cqe
    <3>2. Len(cq) \in Nat
      BY <3>1
    <3> QED BY <1>2, <3>1, <3>2 DEF io_uring_peek_batch_cqe
  <2> QED BY <1>2, <2>1 DEF io_uring_peek_batch_cqe, TypeOK, memory, world, ghost
<1>3. CASE batch_done
  BY <1>3 DEF batch_done, TypeOK, memory, world, ghost
<1>4. CASE submit_sqe
  <2>1. sq \in Seq(OpId) /\ sq # <<>>
    BY <1>4 DEF TypeOK, submit_sqe
  <2>2. Head(sq) \in OpId /\ Tail(sq) \in Seq(OpId)
    BY <2>1, HeadTailProperties
  <2>3. sq' \in Seq(OpId) /\ kernel' \subseteq OpId
    BY <1>4, <2>2 DEF submit_sqe, TypeOK
  <2>4. sock' \in [OpId -> Conn \cup {NoConn}]
    BY <1>4 DEF submit_sqe, TypeOK, Open
  <2> QED BY <1>4, <2>3, <2>4 DEF submit_sqe, TypeOK, memory, loop, ghost
<1>5. CASE io_uring_submit
  BY <1>5 DEF io_uring_submit, TypeOK, memory, world, ghost
<1> QED BY <1>1, <1>2, <1>3, <1>4, <1>5 DEF Loop

\* The kernel keeps the types.
LEMMA KernelTypes == TypeOK /\ Kernel => TypeOK'
<1> SUFFICES ASSUME TypeOK, NEW o \in OpId,
                    \/ KernelAccept(o) \/ KernelRecv(o) \/ KernelEof(o)
                    \/ KernelSend(o) \/ KernelFail(o)
             PROVE  TypeOK'
  BY DEF Kernel
<1>0. 0 \in Int /\ -1 \in Int
  OBVIOUS
<1>1. <<>> \in Seq(Request)
  OBVIOUS
<1>2. CASE KernelAccept(o)
  <2>1. PICK c \in fresh, fd \in Fd :
           /\ files' = [files EXCEPT ![fd] = c]
           /\ fresh' = fresh \ {c}
           /\ peer' = [peer EXCEPT ![o] = c]
           /\ Complete(o, fd, <<>>)
    BY <1>2 DEF KernelAccept
  <2>2. fd \in Int
    BY ServerAssumption
  <2>3. kernel' \subseteq OpId /\ sock' \in [OpId -> Conn \cup {NoConn}] /\ cq' \in Seq(Cqe)
    BY <1>1, <2>1, <2>2, CompleteTypes
  <2>4. /\ files' \in [Fd -> Conn \cup {NoConn}] /\ fresh' \subseteq Conn
        /\ peer' \in [OpId -> Conn \cup {NoConn}]
    BY <2>1 DEF TypeOK
  <2>5. UNCHANGED <<memory, sq, loop, requests, sent>>
    BY <1>2 DEF KernelAccept
  <2> QED BY <2>3, <2>4, <2>5 DEF TypeOK, Cqe, memory, loop
<1>3. CASE KernelRecv(o)
  <2>1. PICK n \in 0..MaxReqs : \E reqs \in [1..n -> Request] :
           /\ n <= requests
           /\ requests' = requests - n
           /\ Complete(o, 1, reqs)
    BY <1>3 DEF KernelRecv
  <2>2. PICK reqs \in [1..n -> Request] :
           /\ n <= requests
           /\ requests' = requests - n
           /\ Complete(o, 1, reqs)
    BY <2>1
  <2>3. reqs \in Seq(Request)
    BY ServerAssumption
  <2>4. kernel' \subseteq OpId /\ sock' \in [OpId -> Conn \cup {NoConn}] /\ cq' \in Seq(Cqe)
    BY <2>2, <2>3, CompleteTypes
  <2>5. requests' \in 0..MaxRequests
    BY <2>2, ServerAssumption DEF TypeOK
  <2>6. UNCHANGED <<memory, sq, loop, files, fresh, ghost>>
    BY <1>3 DEF KernelRecv
  <2> QED BY <2>4, <2>5, <2>6 DEF TypeOK, Cqe, memory, loop, ghost
<1>4. CASE KernelEof(o)
  <2>1. Complete(o, 0, <<>>) /\ UNCHANGED <<memory, sq, loop, files, fresh, requests, ghost>>
    BY <1>4 DEF KernelEof
  <2>2. kernel' \subseteq OpId /\ sock' \in [OpId -> Conn \cup {NoConn}] /\ cq' \in Seq(Cqe)
    BY <1>1, <1>0, <2>1, CompleteTypes, Zenon
  <2> QED BY <2>1, <2>2 DEF TypeOK, Cqe, memory, loop, ghost
<1>5. CASE KernelSend(o)
  <2>1. ops[o] \in OpRec
    BY DEF TypeOK
  <2>2. ops[o].buf_len \in Int /\ ops[o].processed \in Int
    BY <2>1 DEF OpRec
  <2>3. PICK n \in 0..(ops[o].buf_len - ops[o].processed) :
           /\ sent' = [sent EXCEPT ![o] = @ + n]
           /\ Complete(o, n, <<>>)
    BY <1>5 DEF KernelSend
  <2>4. n \in Nat /\ n \in Int
    BY <2>2
  <2>5. kernel' \subseteq OpId /\ sock' \in [OpId -> Conn \cup {NoConn}] /\ cq' \in Seq(Cqe)
    BY <1>1, <2>3, <2>4, CompleteTypes, Zenon
  <2>6. sent' \in [OpId -> Nat]
    BY <2>3, <2>4 DEF TypeOK
  <2>7. UNCHANGED <<memory, sq, loop, files, fresh, requests, peer>>
    BY <1>5 DEF KernelSend
  <2> QED BY <2>5, <2>6, <2>7 DEF TypeOK, Cqe, memory, loop
<1>6. CASE KernelFail(o)
  <2>1. Complete(o, -1, <<>>) /\ UNCHANGED <<memory, sq, loop, files, fresh, requests, ghost>>
    BY <1>6 DEF KernelFail
  <2>2. kernel' \subseteq OpId /\ sock' \in [OpId -> Conn \cup {NoConn}] /\ cq' \in Seq(Cqe)
    BY <1>1, <1>0, <2>1, CompleteTypes, Zenon
  <2> QED BY <2>1, <2>2 DEF TypeOK, Cqe, memory, loop, ghost
<1> QED BY <1>2, <1>3, <1>4, <1>5, <1>6

\* Every step keeps the types.
LEMMA NextTypes == TypeOK /\ [Next]_vars => TypeOK'
<1> SUFFICES ASSUME TypeOK, [Next]_vars PROVE TypeOK'
  OBVIOUS
<1>1. CASE Handler
  BY <1>1, HandlerTypes
<1>2. CASE Loop
  BY <1>2, LoopTypes
<1>3. CASE ring_error
  BY <1>3, ExitTypes DEF ring_error
<1>4. CASE Kernel
  BY <1>4, KernelTypes
<1>5. CASE UNCHANGED vars
  BY <1>5 DEF TypeOK, vars, memory, loop, world, ghost
<1> QED BY <1>1, <1>2, <1>3, <1>4, <1>5 DEF Next, Terminated

\* Every reachable state of server.c's loop has the types: no reference count
\* of the pool or of a slab leaves 0..1, no queue holds anything but
\* Operations, and no offset leaves its buffer.
THEOREM ServerTypeOK == Spec => []TypeOK
BY InitTypes, NextTypes, PTL DEF Spec
-----------------------------------------------------------------------------
(* OneHolder.  Both queues are read as sequences of pool_ids, and every    *)
(* step moves one or two pool_ids between the five holders.                *)

\* The pool_ids a completion queue refers to, in order.
Ids(q) == [i \in 1..Len(q) |-> q[i].op]

\* The pool_ids in R, K, C, that of the parser and the free ones are apart.
Apart(R, K, C, c, B) ==
    /\ R \cap K = {} /\ R \cap C = {} /\ K \cap C = {}
    /\ c \notin R \cup K \cup C
    /\ B = R \cup K \cup C \cup ({c} \ {NoOp})

\* Appending a completion and taking the first one, seen through Ids.
LEMMA IdsOfQueue ==
    ASSUME NEW q \in Seq(Cqe)
    PROVE  /\ Ids(q) \in Seq(OpId)
           /\ \A e \in Cqe : Ids(Append(q, e)) = Append(Ids(q), e.op)
           /\ q # <<>> => /\ Ids(q) # <<>>
                          /\ Head(Ids(q)) = Head(q).op
                          /\ Ids(Tail(q)) = Tail(Ids(q))
<1>1. Len(q) \in Nat /\ \A i \in 1..Len(q) : q[i] \in Cqe
  OBVIOUS
<1>2. \A i \in 1..Len(q) : q[i].op \in OpId
  BY <1>1 DEF Cqe
<1>3. Ids(q) \in Seq(OpId) /\ Len(Ids(q)) = Len(q)
  BY <1>1, <1>2 DEF Ids
<1>4. ASSUME NEW e \in Cqe PROVE Ids(Append(q, e)) = Append(Ids(q), e.op)
  <2>1. /\ Append(q, e) \in Seq(Cqe)
        /\ Len(Append(q, e)) = Len(q) + 1
        /\ \A i \in 1..Len(q) : Append(q, e)[i] = q[i]
        /\ Append(q, e)[Len(q) + 1] = e
    BY AppendProperties
  <2>2. e.op \in OpId
    BY DEF Cqe
  <2>3. /\ Append(Ids(q), e.op) \in Seq(OpId)
        /\ Len(Append(Ids(q), e.op)) = Len(q) + 1
        /\ \A i \in 1..Len(q) : Append(Ids(q), e.op)[i] = Ids(q)[i]
        /\ Append(Ids(q), e.op)[Len(q) + 1] = e.op
    BY <1>3, <2>2, AppendProperties
  <2>4. \A i \in 1..(Len(q) + 1) : Append(q, e)[i].op = Append(Ids(q), e.op)[i]
    BY <1>1, <2>1, <2>3 DEF Ids
  <2>5. Append(Ids(q), e.op) = [i \in 1..(Len(q) + 1) |-> Append(Ids(q), e.op)[i]]
    BY <2>3
  <2>6. Ids(Append(q, e)) = [i \in 1..(Len(q) + 1) |-> Append(q, e)[i].op]
    BY <2>1 DEF Ids
  <2> QED BY <2>4, <2>5, <2>6
<1>5. ASSUME q # <<>>
      PROVE  /\ Ids(q) # <<>>
             /\ Head(Ids(q)) = Head(q).op
             /\ Ids(Tail(q)) = Tail(Ids(q))
  <2>1. Len(q) > 0 /\ Head(q) = q[1]
    BY <1>5, EmptySeq
  <2>2. Ids(q) # <<>> /\ Head(Ids(q)) = Head(q).op
    BY <1>1, <1>3, <2>1 DEF Ids
  <2>3. /\ Len(Tail(q)) = Len(q) - 1
        /\ \A i \in 1..(Len(q) - 1) : Tail(q)[i] = q[i + 1]
    BY <1>1, <1>5, HeadTailProperties
  <2>4. /\ Tail(Ids(q)) \in Seq(OpId)
        /\ Len(Tail(Ids(q))) = Len(q) - 1
        /\ \A i \in 1..(Len(q) - 1) : Tail(Ids(q))[i] = Ids(q)[i + 1]
    BY <1>3, <2>2, HeadTailProperties
  <2>5. \A i \in 1..(Len(q) - 1) : Ids(q)[i + 1] = q[i + 1].op
    BY <1>1 DEF Ids
  <2>6. \A i \in 1..(Len(q) - 1) : Tail(q)[i].op = Tail(Ids(q))[i]
    BY <2>3, <2>4, <2>5
  <2>7. Tail(Ids(q)) = [i \in 1..(Len(q) - 1) |-> Tail(Ids(q))[i]]
    <3>1. \A s \in Seq(OpId) : s = [i \in 1..Len(s) |-> s[i]]
      OBVIOUS
    <3> QED BY <2>4, <3>1, Zenon
  <2>8. Ids(Tail(q)) = [i \in 1..(Len(q) - 1) |-> Tail(q)[i].op]
    BY <2>3 DEF Ids
  <2> QED BY <2>2, <2>6, <2>7, <2>8
<1> QED BY <1>3, <1>4, <1>5

\* What OneHolder says of the completion queue, in terms of Ids.
LEMMA IdsMeaning ==
    ASSUME NEW q \in Seq(Cqe)
    PROVE  /\ Distinct(Ids(q)) <=> \A i, j \in 1..Len(q) : q[i].op = q[j].op => i = j
           /\ Range(Ids(q)) = {q[i].op : i \in 1..Len(q)}
<1>0. Ids(q) \in Seq(OpId)
  BY IdsOfQueue
<1>1. Len(Ids(q)) = Len(q) /\ DOMAIN Ids(q) = 1..Len(q)
  BY <1>0 DEF Ids
<1>2. \A i \in 1..Len(q) : Ids(q)[i] = q[i].op
  BY DEF Ids
<1>3. Range(Ids(q)) = {q[i].op : i \in 1..Len(q)}
  BY <1>1, <1>2, Zenon DEF Range
<1>4. Distinct(Ids(q)) <=> \A i, j \in 1..Len(q) : q[i].op = q[j].op => i = j
  BY <1>1, <1>2, Zenon DEF Distinct
<1> QED BY <1>3, <1>4

\* OneHolder in the form the steps are checked in.
HolderInv ==
    /\ Distinct(sq)
    /\ Distinct(Ids(cq))
    /\ Apart(Range(sq), kernel, Range(Ids(cq)), cur.op, Busy)

\* The two forms agree, before a step and after it.
LEMMA HolderForm ==
    /\ TypeOK => (OneHolder <=> HolderInv)
    /\ TypeOK' => (OneHolder' <=> HolderInv')
<1>1. ASSUME TypeOK PROVE OneHolder <=> HolderInv
  <2>1. cq \in Seq(Cqe)
    BY <1>1 DEF TypeOK, Cqe
  <2> QED BY <2>1, IdsMeaning, Zenon DEF OneHolder, HolderInv, Apart, Distinct, CqOps
<1>2. ASSUME TypeOK' PROVE OneHolder' <=> HolderInv'
  <2>1. cq' \in Seq(Cqe)
    BY <1>2 DEF TypeOK, Cqe
  <2> QED BY <2>1, IdsMeaning, Zenon DEF OneHolder, HolderInv, Apart, Distinct, CqOps
<1> QED BY <1>1, <1>2

\* What Apart says, element by element.
LEMMA ApartElements ==
    ASSUME NEW R, NEW K, NEW C, NEW c, NEW B, Apart(R, K, C, c, B)
    PROVE  /\ \A y : ~(y \in R /\ y \in K) /\ ~(y \in R /\ y \in C) /\ ~(y \in K /\ y \in C)
           /\ c \notin R /\ c \notin K /\ c \notin C
           /\ \A y : y \in B <=> y \in R \/ y \in K \/ y \in C \/ (y = c /\ y # NoOp)
BY DEF Apart

\* The ways a pool_id changes hands.  Completed and freed:
LEMMA MoveFreed ==
    ASSUME NEW R, NEW K, NEW C, NEW c, NEW B, Apart(R, K, C, c, B), NEW x, x \in C, x # NoOp
    PROVE  Apart(R, K, C \ {x}, c, B \ {x})
BY ApartElements DEF Apart

\* Completed and taken by the parser;
LEMMA MoveParsed ==
    ASSUME NEW R, NEW K, NEW C, NEW c, NEW B, Apart(R, K, C, c, B), NEW x, x \in C, x # NoOp, c = NoOp
    PROVE  Apart(R, K, C \ {x}, x, B)
BY ApartElements DEF Apart

\* Completed and prepared again;
LEMMA MoveResumed ==
    ASSUME NEW R, NEW K, NEW C, NEW c, NEW B, Apart(R, K, C, c, B), NEW x, x \in C
    PROVE  x \notin R /\ Apart(R \cup {x}, K, C \ {x}, c, B)
BY ApartElements DEF Apart

\* Newly handed out and prepared;
LEMMA MoveNew ==
    ASSUME NEW R, NEW K, NEW C, NEW c, NEW B, Apart(R, K, C, c, B), NEW x, x \notin B, x # NoOp
    PROVE  x \notin R /\ Apart(R \cup {x}, K, C, c, B \cup {x})
BY ApartElements DEF Apart

\* Freed by the parser;
LEMMA MoveDropped ==
    ASSUME NEW R, NEW K, NEW C, NEW c, NEW B, Apart(R, K, C, c, B), NEW x, x = c, x # NoOp, NoOp \notin B
    PROVE  x \notin R /\ Apart(R, K, C, NoOp, B \ {x})
BY ApartElements DEF Apart

\* Prepared again by the parser;
LEMMA MoveRead ==
    ASSUME NEW R, NEW K, NEW C, NEW c, NEW B, Apart(R, K, C, c, B), NEW x, x = c, x # NoOp, NoOp \notin B
    PROVE  x \notin R /\ Apart(R \cup {x}, K, C, NoOp, B)
BY ApartElements DEF Apart

\* Submitted to the kernel;
LEMMA MoveSubmitted ==
    ASSUME NEW R, NEW K, NEW C, NEW c, NEW B, Apart(R, K, C, c, B), NEW x, x \in R
    PROVE  Apart(R \ {x}, K \cup {x}, C, c, B)
BY ApartElements DEF Apart

\* Completed by the kernel.
LEMMA MoveCompleted ==
    ASSUME NEW R, NEW K, NEW C, NEW c, NEW B, Apart(R, K, C, c, B), NEW x, x \in K
    PROVE  x \notin C /\ Apart(R, K \ {x}, C \cup {x}, c, B)
BY ApartElements DEF Apart

\* Taking a completion takes its pool_id out of the queue.
LEMMA TakeIds ==
    ASSUME TypeOK, HolderInv, cq # <<>>
    PROVE  /\ Head(cq).op \in OpId
           /\ Head(cq).op \in Range(Ids(cq))
           /\ Take => /\ Distinct(Ids(cq'))
                      /\ Range(Ids(cq')) = Range(Ids(cq)) \ {Head(cq).op}
<1>1. cq \in Seq(Cqe) /\ Distinct(Ids(cq))
  BY DEF TypeOK, Cqe, HolderInv
<1>2. /\ Ids(cq) \in Seq(OpId) /\ Ids(cq) # <<>>
      /\ Head(Ids(cq)) = Head(cq).op /\ Ids(Tail(cq)) = Tail(Ids(cq))
  BY <1>1, IdsOfQueue
<1>3. /\ Head(Ids(cq)) \in OpId /\ Head(Ids(cq)) \in Range(Ids(cq))
      /\ Distinct(Tail(Ids(cq)))
      /\ Range(Tail(Ids(cq))) = Range(Ids(cq)) \ {Head(Ids(cq))}
  BY <1>1, <1>2, TailDistinct, Zenon
<1> QED BY <1>2, <1>3, Zenon DEF Take

\* Preparing a submission for a pool_id that is not in the queue.
LEMMA PrepareIds ==
    ASSUME NEW s \in Seq(OpId), Distinct(s), NEW e \in OpId, e \notin Range(s)
    PROVE  /\ Append(s, e) \in Seq(OpId)
           /\ Distinct(Append(s, e))
           /\ Range(Append(s, e)) = Range(s) \cup {e}
BY AppendDistinct, Zenon

\* Handing out and giving back Operations.
LEMMA BusyChange ==
    ASSUME TypeOK, NEW o \in OpId
    PROVE  /\ Pool!Acquire(o, 1) => o \notin Busy /\ Busy' = Busy \cup {o}
           /\ Pool!Release(o) => Busy' = Busy \ {o}
<1>1. pool \in [OpId -> 0..1]
  BY DEF TypeOK
<1>2. ASSUME Pool!Acquire(o, 1) PROVE o \notin Busy /\ Busy' = Busy \cup {o}
  <2>1. /\ pool[o] = 0 /\ pool'[o] = 1
        /\ \A p \in OpId : p # o => pool'[p] = pool[p]
    BY <1>1, <1>2 DEF Pool!Acquire
  <2> QED BY <2>1 DEF Busy
<1>3. ASSUME Pool!Release(o) PROVE Busy' = Busy \ {o}
  <2>1. /\ pool[o] = 1 /\ pool'[o] = 0
        /\ \A p \in OpId : p # o => pool'[p] = pool[p]
    BY <1>1, <1>3 DEF Pool!Release
  <2> QED BY <2>1 DEF Busy
<1> QED BY <1>2, <1>3

\* A step that leaves every holder alone keeps HolderInv.
LEMMA HolderUnchanged ==
    ASSUME HolderInv, UNCHANGED <<pool, sq, cq, kernel>>, cur'.op = cur.op
    PROVE  HolderInv'
<1>1. Busy' = Busy
  BY DEF Busy
<1> QED BY <1>1, Zenon DEF HolderInv

\* So does one that ends the process.
LEMMA HolderExit ==
    ASSUME HolderInv, NEW reason, exit(reason)
    PROVE  HolderInv'
<1>1. UNCHANGED <<pool, sq, cq, kernel>> /\ cur'.op = cur.op
  BY DEF exit, memory, world
<1> QED BY <1>1, HolderUnchanged

\* The last part of HolderInv.
LEMMA HolderApart ==
    ASSUME HolderInv
    PROVE  Apart(Range(sq), kernel, Range(Ids(cq)), cur.op, Busy)
BY DEF HolderInv

\* A completion whose Operation is freed.
LEMMA HolderFreed ==
    ASSUME TypeOK, HolderInv, Ready, Pool!Release(Head(cq).op), Take,
           UNCHANGED <<sq, cur, kernel>>
    PROVE  HolderInv'
<1> DEFINE o == Head(cq).op
<1>1. cq # <<>>
  BY DEF Ready
<1>2. /\ o \in OpId /\ o \in Range(Ids(cq)) /\ Distinct(Ids(cq'))
      /\ Range(Ids(cq')) = Range(Ids(cq)) \ {o}
  BY <1>1, TakeIds
<1>3. o # NoOp
  BY <1>2, ServerAssumption
<1>4. Busy' = Busy \ {o}
  BY <1>2, BusyChange
<1>5. Apart(Range(sq), kernel, Range(Ids(cq)) \ {o}, cur.op, Busy \ {o})
  BY <1>2, <1>3, HolderApart, MoveFreed, Zenon
<1> QED BY <1>2, <1>4, <1>5 DEF HolderInv

\* A completion whose Operation is prepared again.
LEMMA HolderResumed ==
    ASSUME TypeOK, HolderInv, Ready, sq' = Append(sq, Head(cq).op), Take,
           UNCHANGED <<pool, cur, kernel>>
    PROVE  HolderInv'
<1> DEFINE o == Head(cq).op
<1>1. cq # <<>> /\ sq \in Seq(OpId) /\ Distinct(sq)
  BY DEF Ready, TypeOK, HolderInv
<1>2. /\ o \in OpId /\ o \in Range(Ids(cq)) /\ Distinct(Ids(cq'))
      /\ Range(Ids(cq')) = Range(Ids(cq)) \ {o}
  BY <1>1, TakeIds
<1>3. o \notin Range(sq)
      /\ Apart(Range(sq) \cup {o}, kernel, Range(Ids(cq)) \ {o}, cur.op, Busy)
  BY <1>2, HolderApart, MoveResumed, Zenon
<1>4. Distinct(sq') /\ Range(sq') = Range(sq) \cup {o}
  BY <1>1, <1>2, <1>3, PrepareIds
<1>5. Busy' = Busy
  BY DEF Busy
<1> QED BY <1>2, <1>3, <1>4, <1>5 DEF HolderInv

\* NoOp is never busy.
LEMMA NoOpIdle == NoOp \notin Busy
BY ServerAssumption DEF Busy

\* A handler step of a completion keeps HolderInv.
LEMMA HolderCompletion ==
    ASSUME TypeOK, HolderInv,
           op_failed \/ client_gone \/ handle_accept \/ handle_recv \/ handle_send
    PROVE  HolderInv'
<1> DEFINE o == Head(cq).op
<1>1. CASE op_failed
  <2>1. CASE must_close_fails(o)
    BY <2>1, HolderExit DEF must_close_fails
  <2>2. CASE /\ disconnect_and_free_op(o)
             /\ Take
             /\ UNCHANGED <<next_client_id, sq, pc, cur, kernel, sock, fresh, requests>>
    BY <1>1, <2>2, HolderFreed DEF op_failed, disconnect_and_free_op, free_op
  <2> QED BY <1>1, <2>1, <2>2 DEF op_failed
<1>2. CASE client_gone
  <2>1. Ready /\ Pool!Release(o) /\ Take /\ UNCHANGED <<sq, cur, kernel>>
    BY <1>2 DEF client_gone, free_op, world
  <2> QED BY <2>1, HolderFreed
<1>3. CASE handle_accept
  <2>1. cq # <<>> /\ sq \in Seq(OpId) /\ Distinct(sq)
    BY <1>3 DEF handle_accept, Handles, Ready, TypeOK, HolderInv
  <2>2. CASE exit("sq_full")
    BY <2>2, HolderExit
  <2>3. CASE ~exit("sq_full")
    <3>1. Take /\ UNCHANGED <<cur, kernel>>
      BY <1>3, <2>3 DEF handle_accept, world
    <3>2. PICK n \in Offer(FreeIn(pool)) :
                 Pool!Acquire(n, 1) /\ sq' = Append(Append(sq, o), n)
      BY <1>3, <2>3 DEF handle_accept
    <3>3. /\ o \in OpId /\ o \in Range(Ids(cq)) /\ Distinct(Ids(cq'))
          /\ Range(Ids(cq')) = Range(Ids(cq)) \ {o}
      BY <2>1, <3>1, TakeIds
    <3>4. n \in OpId /\ n # NoOp
      BY OffersFree, ServerAssumption
    <3>5. n \notin Busy /\ Busy' = Busy \cup {n}
      BY <3>2, <3>4, BusyChange
    <3> DEFINE R1 == Range(sq) \cup {o}
               C1 == Range(Ids(cq)) \ {o}
    <3>6. o \notin Range(sq) /\ Apart(R1, kernel, C1, cur.op, Busy)
      BY <3>3, HolderApart, MoveResumed, Zenon
    <3>7. n \notin R1 /\ Apart(R1 \cup {n}, kernel, C1, cur.op, Busy \cup {n})
      <4> HIDE DEF R1, C1
      <4> QED BY <3>4, <3>5, <3>6, MoveNew, Zenon
    <3>8. /\ Append(sq, o) \in Seq(OpId) /\ Distinct(Append(sq, o))
          /\ Range(Append(sq, o)) = R1
      BY <2>1, <3>3, <3>6, PrepareIds, Zenon
    <3>9. Distinct(sq') /\ Range(sq') = R1 \cup {n}
      BY <3>2, <3>4, <3>7, <3>8, PrepareIds, Zenon
    <3> QED BY <3>1, <3>3, <3>5, <3>7, <3>9, Zenon DEF HolderInv
  <2> QED BY <2>2, <2>3
<1>4. CASE handle_recv
  <2>1. Ready
    BY <1>4 DEF handle_recv, Handles
  <2>2. CASE must_close_fails(o)
    BY <2>2, HolderExit DEF must_close_fails
  <2>3. CASE /\ disconnect_and_free_op(o)
             /\ Take
             /\ UNCHANGED <<next_client_id, sq, pc, cur, kernel, sock, fresh, requests>>
    BY <2>1, <2>3, HolderFreed DEF disconnect_and_free_op, free_op
  <2>4. CASE /\ cur' = [op |-> o, reqs |-> Head(cq).reqs]
             /\ Take
             /\ UNCHANGED <<memory, sq, pc, world, ghost>>
    <3>1. /\ o \in OpId /\ o \in Range(Ids(cq)) /\ Distinct(Ids(cq'))
          /\ Range(Ids(cq')) = Range(Ids(cq)) \ {o}
      BY <2>1, <2>4, TakeIds DEF Ready
    <3>2. o # NoOp /\ cur.op = NoOp
      BY <2>1, <3>1, ServerAssumption DEF Ready, Idle
    <3>3. Apart(Range(sq), kernel, Range(Ids(cq)) \ {o}, o, Busy)
      BY <3>1, <3>2, HolderApart, MoveParsed, Zenon
    <3>4. Busy' = Busy /\ sq' = sq /\ kernel' = kernel /\ cur'.op = o
      BY <2>4 DEF Busy, memory, world
    <3> QED BY <3>1, <3>3, <3>4, Zenon DEF HolderInv
  <2> QED BY <1>4, <2>2, <2>3, <2>4 DEF handle_recv
<1>5. CASE handle_send
  <2>1. Ready
    BY <1>5 DEF handle_send, Handles
  <2>2. CASE exit("sq_full")
    BY <2>2, HolderExit
  <2>3. CASE /\ sq' = Append(sq, o)
             /\ Take
             /\ UNCHANGED <<pool, slab64, slab2k, clients, next_client_id,
                            pc, cur, world, ghost>>
    BY <2>1, <2>3, HolderResumed DEF world
  <2>4. CASE /\ free_op(o)
             /\ Take
             /\ UNCHANGED <<clients, next_client_id, sq, pc, cur, world>>
    BY <2>1, <2>4, HolderFreed DEF free_op, world
  <2> QED BY <1>5, <2>2, <2>3, <2>4 DEF handle_send, resume_send
<1> QED BY <1>1, <1>2, <1>3, <1>4, <1>5

\* A parsing step keeps HolderInv.
LEMMA HolderParser ==
    ASSUME TypeOK, HolderInv, handle \/ resume_recv
    PROVE  HolderInv'
<1> DEFINE r == cur.op
<1>1. r \in OpId /\ r # NoOp /\ sq \in Seq(OpId) /\ Distinct(sq)
  <2>1. cur \in [op : OpId, reqs : Seq(Request)]
    BY DEF handle, resume_recv, TypeOK
  <2> QED BY <2>1, ServerAssumption DEF TypeOK, HolderInv
<1>2. /\ Apart(Range(sq), kernel, Range(Ids(cq)), NoOp, Busy \ {r})
      /\ Apart(Range(sq) \cup {r}, kernel, Range(Ids(cq)), NoOp, Busy)
      /\ r \notin Range(sq)
  BY <1>1, HolderApart, NoOpIdle, MoveDropped, MoveRead, Zenon
<1>3. CASE must_close_fails(r) \/ exit("sq_full")
  BY <1>3, HolderExit DEF must_close_fails
<1>4. CASE disconnect_and_free_op(r) /\ cur' = Idle /\ UNCHANGED <<sq, cq, kernel>>
  <2>1. Busy' = Busy \ {r}
    BY <1>1, <1>4, BusyChange DEF disconnect_and_free_op, free_op
  <2>2. cur'.op = NoOp
    BY <1>4 DEF Idle
  <2> QED BY <1>2, <1>4, <2>1, <2>2, Zenon DEF HolderInv
<1>5. CASE /\ send_response(r, OkLen) \/ send_response(r, ErrLen)
           /\ cur' = [cur EXCEPT !.reqs = Tail(@)]
           /\ UNCHANGED <<cq, kernel>>
  <2>1. PICK n \in Offer(FreeIn(pool)) : Pool!Acquire(n, 1) /\ sq' = Append(sq, n)
    BY <1>5 DEF send_response
  <2>2. n \in OpId /\ n # NoOp
    BY OffersFree, ServerAssumption
  <2>3. n \notin Busy /\ Busy' = Busy \cup {n}
    BY <2>1, <2>2, BusyChange
  <2>4. /\ n \notin Range(sq)
        /\ Apart(Range(sq) \cup {n}, kernel, Range(Ids(cq)), r, Busy \cup {n})
    BY <2>2, <2>3, HolderApart, MoveNew, Zenon
  <2>5. Distinct(sq') /\ Range(sq') = Range(sq) \cup {n}
    BY <1>1, <2>1, <2>2, <2>4, PrepareIds
  <2>6. cur'.op = r
    <3>1. cur \in [op : OpId, reqs : Seq(Request)]
      BY DEF handle, resume_recv, TypeOK
    <3> QED BY <1>5, <3>1
  <2> QED BY <1>5, <2>3, <2>4, <2>5, <2>6, Zenon DEF HolderInv
<1>6. CASE /\ sq' = Append(sq, r)
           /\ cur' = Idle
           /\ UNCHANGED <<memory, cq, pc, batch, world, ghost>>
  <2>1. Distinct(sq') /\ Range(sq') = Range(sq) \cup {r}
    BY <1>1, <1>2, <1>6, PrepareIds
  <2>2. cur'.op = NoOp /\ Busy' = Busy /\ cq' = cq /\ kernel' = kernel
    BY <1>6 DEF Idle, Busy, memory, world
  <2> QED BY <1>2, <2>1, <2>2, Zenon DEF HolderInv
<1>7. CASE handle
  BY <1>3, <1>4, <1>5, <1>7 DEF handle, world
<1>8. CASE resume_recv
  BY <1>3, <1>6, <1>8 DEF resume_recv
<1> QED BY <1>7, <1>8

\* The loop's own steps and the kernel keep HolderInv.
LEMMA HolderRing ==
    ASSUME TypeOK, HolderInv, Loop \/ Kernel
    PROVE  HolderInv'
<1>1. CASE io_uring_wait_cqe \/ io_uring_peek_batch_cqe \/ batch_done \/ io_uring_submit
  <2>1. UNCHANGED <<pool, sq, cq, kernel>> /\ cur'.op = cur.op
    BY <1>1 DEF io_uring_wait_cqe, io_uring_peek_batch_cqe, batch_done,
                io_uring_submit, memory, world
  <2> QED BY <2>1, HolderUnchanged
<1>2. CASE submit_sqe
  <2>1. sq \in Seq(OpId) /\ sq # <<>> /\ Distinct(sq)
    BY <1>2 DEF TypeOK, HolderInv, submit_sqe
  <2>2. /\ Head(sq) \in Range(sq) /\ Distinct(Tail(sq))
        /\ Range(Tail(sq)) = Range(sq) \ {Head(sq)}
    BY <2>1, TailDistinct, Zenon
  <2>3. Apart(Range(sq) \ {Head(sq)}, kernel \cup {Head(sq)}, Range(Ids(cq)), cur.op, Busy)
    BY <2>2, HolderApart, MoveSubmitted, Zenon
  <2>4. /\ sq' = Tail(sq) /\ kernel' = kernel \cup {Head(sq)}
        /\ cq' = cq /\ cur' = cur /\ Busy' = Busy
    BY <1>2 DEF submit_sqe, memory, loop, Busy
  <2> QED BY <2>2, <2>3, <2>4, Zenon DEF HolderInv
<1>3. CASE Kernel
  <2>1. PICK o \in OpId : \/ KernelAccept(o) \/ KernelRecv(o) \/ KernelEof(o)
                          \/ KernelSend(o) \/ KernelFail(o)
    BY <1>3 DEF Kernel
  <2>2. o \in kernel /\ pool' = pool /\ sq' = sq /\ cur' = cur
    BY <2>1 DEF KernelAccept, KernelRecv, KernelEof, KernelSend, KernelFail,
                Works, memory, loop
  <2>3. \E res, reqs : Complete(o, res, reqs)
    BY <2>1, Zenon DEF KernelAccept, KernelRecv, KernelEof, KernelSend, KernelFail
  <2>4. PICK res, reqs : Complete(o, res, reqs)
    BY <2>3
  <2> DEFINE e == [op |-> o, res |-> res, reqs |-> reqs]
  <2>5. cq' = Append(cq, e) /\ kernel' = kernel \ {o} /\ e.op = o
    BY <2>4 DEF Complete
  <2>6. cq \in Seq(Cqe) /\ cq' \in Seq(Cqe)
    BY <1>3, KernelTypes DEF TypeOK, Cqe
  <2>7. e \in Cqe
    <3> HIDE DEF e
    <3>1. Len(cq) + 1 \in 1..Len(Append(cq, e)) /\ Append(cq, e)[Len(cq) + 1] = e
      BY <2>6
    <3> QED BY <2>5, <2>6, <3>1
  <2>8. Ids(cq) \in Seq(OpId) /\ Ids(cq') = Append(Ids(cq), o)
    <3> HIDE DEF e
    <3> QED BY <2>5, <2>6, <2>7, IdsOfQueue
  <2>9. /\ o \notin Range(Ids(cq))
        /\ Apart(Range(sq), kernel \ {o}, Range(Ids(cq)) \cup {o}, cur.op, Busy)
    BY <2>2, HolderApart, MoveCompleted, Zenon
  <2>10. Distinct(Ids(cq)) /\ Distinct(sq) /\ Busy' = Busy
    BY <2>2 DEF HolderInv, Busy
  <2>11. Distinct(Ids(cq')) /\ Range(Ids(cq')) = Range(Ids(cq)) \cup {o}
    BY <2>8, <2>9, <2>10, PrepareIds
  <2> QED BY <2>2, <2>5, <2>9, <2>10, <2>11, Zenon DEF HolderInv
<1> QED BY <1>1, <1>2, <1>3 DEF Loop

\* The first accept is prepared and nothing else is out of the pool.
LEMMA HolderInit == Init => HolderInv
<1> SUFFICES ASSUME Init PROVE HolderInv
  OBVIOUS
<1>1. PICK o \in Offer(OpId) :
        pool = [x \in OpId |-> IF x = o THEN 1 ELSE 0] /\ sq = <<o>>
  BY DEF Init
<1>2. cq = <<>> /\ kernel = {} /\ cur.op = NoOp
  BY DEF Init, Idle
<1>3. o \in OpId /\ o # NoOp
  BY ServerAssumption
<1>4. Busy = {o}
  BY <1>1, <1>3 DEF Busy
<1>5. Ids(cq) = <<>>
  BY <1>2 DEF Ids
<1>6. Range(Ids(cq)) = {} /\ Distinct(Ids(cq))
  <2>1. Distinct(<<>>)
    BY DEF Distinct
  <2> QED BY <1>5, <2>1, EmptyRange
<1>7. Distinct(sq) /\ Range(sq) = {o}
  <2>1. sq \in Seq(OpId) /\ Len(sq) = 1 /\ sq[1] = o
    BY <1>1, <1>3
  <2>2. Distinct(sq)
    BY <2>1 DEF Distinct
  <2>3. \A x : x \in Range(sq) <=> \E i \in 1..Len(sq) : x = sq[i]
    BY <2>1, SeqRange, Zenon
  <2> QED BY <2>1, <2>2, <2>3
<1>8. Apart({o}, {}, {}, NoOp, {o})
  BY <1>3 DEF Apart
<1> QED BY <1>2, <1>4, <1>6, <1>7, <1>8, Zenon DEF HolderInv

\* Every step keeps HolderInv.
LEMMA HolderNext == TypeOK /\ HolderInv /\ [Next]_vars => HolderInv'
<1> SUFFICES ASSUME TypeOK, HolderInv, [Next]_vars PROVE HolderInv'
  OBVIOUS
<1>1. CASE Handler
  BY <1>1, HolderCompletion, HolderParser DEF Handler
<1>2. CASE Loop \/ Kernel
  BY <1>2, HolderRing
<1>3. CASE ring_error
  BY <1>3, HolderExit DEF ring_error
<1>4. CASE UNCHANGED vars
  <2>1. UNCHANGED <<pool, sq, cq, kernel>> /\ cur'.op = cur.op
    BY <1>4 DEF vars, memory, loop, world
  <2> QED BY <2>1, HolderUnchanged
<1> QED BY <1>1, <1>2, <1>3, <1>4 DEF Next, Terminated

\* No Operation of server.c is recycled, completed twice or lost while the
\* ring or the parser refers to it by its pool_id, for any number of
\* Operations, clients and completions.
THEOREM ServerOneHolder == Spec => []OneHolder
<1>1. Init => TypeOK /\ HolderInv
  BY InitTypes, HolderInit
<1>2. (TypeOK /\ HolderInv) /\ [Next]_vars => (TypeOK /\ HolderInv)'
  BY NextTypes, HolderNext
<1>3. TypeOK /\ HolderInv => OneHolder
  BY HolderForm
<1> QED BY <1>1, <1>2, <1>3, PTL DEF Spec

-----------------------------------------------------------------------------
(***************************************************************************)
(* How many submissions a round of server.c's loop prepares: the ring is   *)
(* never found full when it holds RoundMax entries, whatever arrives.      *)
(***************************************************************************)

\* The most submissions one completion leads to.
PerCqe == MaxReqs + 1

\* The most submissions the receive that is being parsed can still lead to.
Need == IF cur = Idle THEN 0 ELSE Len(cur.reqs) + 1

\* The submissions that may be prepared before the next step of the round.
Budget == IF pc = "one" THEN PerCqe ELSE RoundMax

Running == pc \in {"one", "many"}

RoomInv ==
    /\ \A i \in 1..Len(cq) : Len(cq[i].reqs) <= MaxReqs
    /\ cur # Idle => Len(cur.reqs) <= MaxReqs /\ (Running \/ Stopped)
    /\ pc = "wait" => sq = <<>>
    /\ Running => Len(sq) + batch * PerCqe + Need <= Budget
    /\ pc = "sq_full" => RoundMax > SqSize

\* The arithmetic of a round, apart from any state.
LEMMA RoundArithmetic ==
    /\ PerCqe \in Nat /\ PerCqe >= 2 /\ RoundMax \in Nat /\ SqSize \in Nat
    /\ RoundMax = MaxBatch * PerCqe + PerCqe
    /\ MaxBatch * PerCqe \in Nat
    /\ 0 * PerCqe = 0 /\ 1 * PerCqe = PerCqe
    /\ \A b \in Nat : b * PerCqe \in Nat
    /\ \A b \in Nat : b > 0 => (b - 1) * PerCqe = b * PerCqe - PerCqe /\ b * PerCqe >= PerCqe
    /\ \A b \in Nat : b <= MaxBatch => b * PerCqe <= MaxBatch * PerCqe
<1>1. MaxReqs \in Nat /\ MaxReqs >= 1 /\ MaxBatch \in Nat /\ SqSize \in Nat
  BY ServerAssumption
<1>2. PerCqe \in Nat /\ PerCqe >= 2
  BY <1>1 DEF PerCqe
<1>3. RoundMax = (MaxBatch + 1) * PerCqe
  BY DEF RoundMax, PerCqe
<1>4. \A p, b \in Nat : b * p \in Nat /\ (b + 1) * p = b * p + p
  OBVIOUS
<1>5. \A p, b \in Nat : b > 0 => (b - 1) * p = b * p - p /\ b * p >= p
  <2> SUFFICES ASSUME NEW p \in Nat, NEW b \in Nat, b > 0
               PROVE  (b - 1) * p = b * p - p /\ b * p >= p
    OBVIOUS
  <2>1. b - 1 \in Nat
    OBVIOUS
  <2>2. (b - 1) * p \in Nat /\ ((b - 1) + 1) * p = (b - 1) * p + p
    BY <1>4, <2>1
  <2>3. (b - 1) + 1 = b /\ b * p \in Nat
    BY <1>4
  <2> QED BY <2>2, <2>3
<1>6. \A p, b, m \in Nat : b <= m => b * p <= m * p
  <2> SUFFICES ASSUME NEW p \in Nat, NEW b \in Nat, NEW m \in Nat, b <= m
               PROVE  b * p <= m * p
    OBVIOUS
  <2>1. m - b \in Nat /\ m = b + (m - b)
    OBVIOUS
  <2>2. \A d \in Nat : (b + d) * p = b * p + d * p
    OBVIOUS
  <2>3. (m - b) * p \in Nat /\ b * p \in Nat /\ m * p \in Nat
    BY <2>1, <1>4
  <2>4. m * p = b * p + (m - b) * p
    BY <2>1, <2>2
  <2> QED BY <2>3, <2>4
<1>7. 0 * PerCqe = 0 /\ 1 * PerCqe = PerCqe
  BY <1>2
<1> HIDE DEF PerCqe, RoundMax
<1>8. RoundMax = MaxBatch * PerCqe + PerCqe /\ MaxBatch * PerCqe \in Nat
  BY <1>1, <1>2, <1>3, <1>4
<1>9. RoundMax \in Nat
  BY <1>2, <1>8
<1> QED BY <1>1, <1>2, <1>4, <1>5, <1>6, <1>7, <1>8, <1>9

\* The types the arithmetic needs, before a step and after it.
LEMMA RoomTypes ==
    /\ TypeOK => Len(sq) \in Nat /\ Need \in Nat /\ batch \in Nat
    /\ TypeOK' => Len(sq') \in Nat /\ Need' \in Nat /\ batch' \in Nat
<1>1. ASSUME TypeOK PROVE Len(sq) \in Nat /\ Need \in Nat /\ batch \in Nat
  <2>1. Len(sq) \in Nat /\ batch \in Nat
    BY <1>1 DEF TypeOK
  <2>2. cur # Idle => Len(cur.reqs) \in Nat
    BY <1>1 DEF TypeOK
  <2> QED BY <2>1, <2>2 DEF Need
<1>2. ASSUME TypeOK' PROVE Len(sq') \in Nat /\ Need' \in Nat /\ batch' \in Nat
  <2>1. Len(sq') \in Nat /\ batch' \in Nat
    BY <1>2 DEF TypeOK
  <2>2. cur' # Idle => Len(cur'.reqs) \in Nat
    BY <1>2 DEF TypeOK, Idle
  <2> QED BY <2>1, <2>2 DEF Need, Idle
<1> QED BY <1>1, <1>2

\* The process ends; if for lack of room, the ring is too small for a round.
LEMMA RoomExit ==
    ASSUME RoomInv, NEW reason \in {"sq_full", "bad_close", "ring_error"}, exit(reason),
           reason = "sq_full" => RoundMax > SqSize
    PROVE  RoomInv'
<1>1. cq' = cq /\ cur' = cur /\ pc' = reason /\ sq' = sq
  BY DEF exit
<1>2. ~Running' /\ Stopped' /\ pc' # "wait"
  BY <1>1 DEF Running, Stopped
<1> QED BY <1>1, <1>2 DEF RoomInv, Idle

\* A completion is taken; it leads to at most PerCqe submissions.
LEMMA RoomTake ==
    ASSUME TypeOK, TypeOK', RoomInv, Ready, Take, pc' = pc,
           Len(sq') + Need' <= Len(sq) + PerCqe,
           cur' # Idle => Len(cur'.reqs) <= MaxReqs
    PROVE  RoomInv'
<1>1. Running /\ Running' /\ pc' # "wait" /\ pc' # "sq_full" /\ Budget' = Budget
  BY DEF Ready, Running, Budget
<1>2. batch > 0 /\ batch' = batch - 1 /\ cq' = Tail(cq) /\ cq # <<>> /\ Need = 0
  BY DEF Ready, Take, Need
<1>3. \A i \in 1..Len(cq') : Len(cq'[i].reqs) <= MaxReqs
  <2>1. cq \in Seq(Cqe)
    BY DEF TypeOK, Cqe
  <2>2. \A i \in 1..Len(Tail(cq)) : i + 1 \in 1..Len(cq) /\ Tail(cq)[i] = cq[i + 1]
    BY <1>2, <2>1, HeadTailProperties
  <2> QED BY <1>2, <2>2 DEF RoomInv
<1>4. Len(sq') + batch' * PerCqe + Need' <= Budget'
  <2>1. Len(sq) + batch * PerCqe <= Budget
    <3>1. Len(sq) + batch * PerCqe + Need <= Budget
      BY <1>1 DEF RoomInv
    <3>2. batch * PerCqe \in Nat /\ Len(sq) \in Nat
      BY RoundArithmetic, RoomTypes
    <3> QED BY <1>2, <3>1, <3>2
  <2>2. batch' * PerCqe = batch * PerCqe - PerCqe
    BY <1>2, RoundArithmetic, RoomTypes
  <2>3. /\ batch * PerCqe \in Nat /\ PerCqe \in Nat /\ Len(sq) \in Nat
        /\ Len(sq') \in Nat /\ Need' \in Nat /\ Budget \in Nat
    BY RoundArithmetic, RoomTypes DEF Budget
  <2> HIDE DEF PerCqe, Budget, Need
  <2> QED BY <1>1, <2>1, <2>2, <2>3
<1> QED BY <1>1, <1>3, <1>4 DEF RoomInv, Idle

\* A request is parsed; what it prepares was accounted for.
LEMMA RoomParse ==
    ASSUME TypeOK, TypeOK', RoomInv, ~Stopped, cur # Idle, UNCHANGED <<cq, batch, pc>>,
           Len(sq') + Need' <= Len(sq) + Need,
           cur' # Idle => Len(cur'.reqs) <= MaxReqs
    PROVE  RoomInv'
<1>1. Running /\ Running' /\ pc' # "wait" /\ pc' # "sq_full" /\ Budget' = Budget
  BY DEF RoomInv, Running, Budget, Stopped
<1>2. Len(sq') + batch' * PerCqe + Need' <= Budget'
  <2>1. Len(sq) + batch * PerCqe + Need <= Budget
    BY <1>1 DEF RoomInv
  <2>2. batch' * PerCqe = batch * PerCqe
    OBVIOUS
  <2>3. /\ batch * PerCqe \in Nat /\ Len(sq) \in Nat /\ Len(sq') \in Nat
        /\ Need' \in Nat /\ Need \in Nat /\ Budget \in Nat
    BY RoundArithmetic, RoomTypes DEF Budget
  <2> HIDE DEF PerCqe, Budget, Need
  <2> QED BY <1>1, <2>1, <2>2, <2>3
<1> QED BY <1>1, <1>2 DEF RoomInv, Idle

\* While the loop runs, what a step may need fits in a round.
LEMMA RoomLeft ==
    ASSUME TypeOK, RoomInv, Running
    PROVE  /\ batch > 0 => Len(sq) + PerCqe <= RoundMax
           /\ Len(sq) + Need <= RoundMax
<1>1. Len(sq) + batch * PerCqe + Need <= Budget
  BY DEF RoomInv
<1>2. /\ batch * PerCqe \in Nat /\ Len(sq) \in Nat /\ Need \in Nat
      /\ RoundMax \in Nat /\ Budget \in Nat /\ PerCqe \in Nat /\ Budget <= RoundMax
  BY RoundArithmetic, RoomTypes DEF Budget
<1>3. batch > 0 => batch * PerCqe >= PerCqe
  BY RoundArithmetic, RoomTypes
<1> HIDE DEF PerCqe, Budget, Need, RoundMax
<1> QED BY <1>1, <1>2, <1>3

\* Appending to the submission queue.
LEMMA PrepareLen ==
    ASSUME TypeOK, NEW e \in OpId
    PROVE  Append(sq, e) \in Seq(OpId) /\ Len(Append(sq, e)) = Len(sq) + 1
BY AppendProperties DEF TypeOK

\* A handler that finds the queue full for what it needs.
LEMMA RoomFull ==
    ASSUME TypeOK, RoomInv, Running, NEW n \in 1..2, SqFull(n),
           (batch > 0 /\ n <= PerCqe) \/ n <= Need
    PROVE  RoundMax > SqSize
<1>1. Len(sq) + n > SqSize
  BY DEF SqFull
<1>2. /\ Len(sq) \in Nat /\ Need \in Nat /\ PerCqe \in Nat
      /\ RoundMax \in Nat /\ SqSize \in Nat
  BY RoundArithmetic, RoomTypes
<1> HIDE DEF PerCqe, Need, RoundMax
<1> QED BY <1>1, <1>2, RoomLeft

\* A handler step of a completion keeps RoomInv.
LEMMA RoomCompletion ==
    ASSUME TypeOK, TypeOK', RoomInv,
           op_failed \/ client_gone \/ handle_accept \/ handle_recv \/ handle_send
    PROVE  RoomInv'
<1> DEFINE o == Head(cq).op
<1>1. Ready
  BY DEF op_failed, client_gone, handle_accept, handle_recv, handle_send, Handles
<1>2. Running /\ batch > 0 /\ cur = Idle /\ Need = 0 /\ cq # <<>>
  BY <1>1 DEF Ready, Running, Need
<1>3. o \in OpId /\ Len(Head(cq).reqs) <= MaxReqs /\ Len(Head(cq).reqs) \in Nat
  <2>1. cq \in Seq(Cqe)
    BY DEF TypeOK, Cqe
  <2>2. Head(cq) = cq[1] /\ 1 \in 1..Len(cq) /\ Head(cq) \in Cqe
    BY <1>2, <2>1
  <2> QED BY <2>2 DEF RoomInv, Cqe
<1>4. PerCqe \in Nat /\ PerCqe >= 2 /\ Len(sq) \in Nat
  BY RoundArithmetic, RoomTypes
<1>5. CASE must_close_fails(o)
  BY <1>5, RoomExit DEF must_close_fails
<1>6. CASE Take /\ UNCHANGED <<sq, pc, cur>>
  <2>1. Need' = 0 /\ cur' = Idle
    BY <1>2, <1>6 DEF Need, Idle
  <2>2. Len(sq') + Need' <= Len(sq) + PerCqe
    BY <1>4, <1>6, <2>1
  <2> QED BY <1>1, <1>6, <2>1, <2>2, RoomTake
<1>7. CASE handle_accept
  <2>1. CASE SqFull(2) /\ exit("sq_full")
    <3>1. RoundMax > SqSize
      BY <1>2, <1>4, <2>1, RoomFull
    <3> QED BY <2>1, <3>1, RoomExit
  <2>2. CASE ~(SqFull(2) /\ exit("sq_full"))
    <3>1. Take /\ pc' = pc /\ cur' = cur
      BY <1>7, <2>2 DEF handle_accept
    <3>2. PICK n \in Offer(FreeIn(pool)) : sq' = Append(Append(sq, o), n)
      BY <1>7, <2>2 DEF handle_accept
    <3>3. n \in OpId
      BY OffersFree
    <3>4. Append(sq, o) \in Seq(OpId) /\ Len(Append(sq, o)) = Len(sq) + 1
      BY <1>3, PrepareLen
    <3>5. Len(sq') = Len(sq) + 2
      <4>1. Len(sq') = Len(Append(sq, o)) + 1
        BY <3>2, <3>3, <3>4, AppendProperties
      <4> QED BY <1>4, <3>4, <4>1
    <3>6. Need' = 0 /\ cur' = Idle
      BY <1>2, <3>1 DEF Need, Idle
    <3>7. Len(sq') + Need' <= Len(sq) + PerCqe
      BY <1>4, <3>5, <3>6
    <3> QED BY <1>1, <3>1, <3>6, <3>7, RoomTake
  <2> QED BY <2>1, <2>2
<1>8. CASE cur' = [op |-> o, reqs |-> Head(cq).reqs] /\ Take /\ sq' = sq /\ pc' = pc
  <2>1. cur' # Idle /\ cur'.reqs = Head(cq).reqs
    BY <1>3, <1>8, ServerAssumption DEF Idle
  <2>2. Need' = Len(Head(cq).reqs) + 1
    BY <2>1 DEF Need, Idle
  <2>3. Len(sq') + Need' <= Len(sq) + PerCqe
    BY <1>3, <1>4, <1>8, <2>2, ServerAssumption DEF PerCqe
  <2>4. cur' # Idle => Len(cur'.reqs) <= MaxReqs
    BY <1>3, <2>1
  <2> QED BY <1>1, <1>8, <2>3, <2>4, RoomTake
<1>9. CASE SqFull(1) /\ exit("sq_full")
  <2>1. RoundMax > SqSize
    BY <1>2, <1>4, <1>9, RoomFull
  <2> QED BY <1>9, <2>1, RoomExit
<1>10. CASE sq' = Append(sq, o) /\ Take /\ pc' = pc /\ cur' = cur
  <2>1. Len(sq') = Len(sq) + 1
    BY <1>3, <1>10, PrepareLen
  <2>2. Need' = 0 /\ cur' = Idle
    BY <1>2, <1>10 DEF Need, Idle
  <2>3. Len(sq') + Need' <= Len(sq) + PerCqe
    BY <1>4, <2>1, <2>2
  <2> QED BY <1>1, <1>10, <2>2, <2>3, RoomTake
<1>11. CASE op_failed
  BY <1>5, <1>6, <1>11 DEF op_failed
<1>12. CASE client_gone
  BY <1>6, <1>12 DEF client_gone
<1>13. CASE handle_recv
  BY <1>5, <1>6, <1>8, <1>13 DEF handle_recv
<1>14. CASE handle_send
  BY <1>6, <1>9, <1>10, <1>14 DEF handle_send, resume_send
<1> QED BY <1>7, <1>11, <1>12, <1>13, <1>14

\* A parsing step keeps RoomInv.
LEMMA RoomParser ==
    ASSUME TypeOK, TypeOK', RoomInv, handle \/ resume_recv
    PROVE  RoomInv'
<1>1. cur # Idle /\ ~Stopped /\ Running /\ Len(cur.reqs) <= MaxReqs
  BY DEF handle, resume_recv, RoomInv
<1>2. cur \in [op : OpId, reqs : Seq(Request)]
  BY <1>1 DEF TypeOK
<1>3. /\ Len(cur.reqs) \in Nat /\ cur.op \in OpId /\ Need = Len(cur.reqs) + 1
      /\ Need >= 1 /\ Len(sq) \in Nat /\ MaxReqs \in Nat
  BY <1>1, <1>2, RoomTypes, ServerAssumption DEF Need
<1>4. CASE must_close_fails(cur.op)
  BY <1>4, RoomExit DEF must_close_fails
<1>5. CASE SqFull(1) /\ exit("sq_full")
  <2>1. RoundMax > SqSize
    BY <1>1, <1>3, <1>5, RoomFull
  <2> QED BY <1>5, <2>1, RoomExit
<1>6. CASE cur' = Idle /\ UNCHANGED <<cq, batch, pc>> /\ (sq' = sq \/ sq' = Append(sq, cur.op))
  <2>1. Len(sq') <= Len(sq) + 1 /\ Len(sq') \in Nat
    BY <1>3, <1>6, PrepareLen, RoomTypes
  <2>2. Need' = 0 /\ cur' = Idle
    BY <1>6 DEF Need, Idle
  <2>3. Len(sq') + Need' <= Len(sq) + Need
    <3>1. Need \in Nat /\ Len(sq') + Need' = Len(sq')
      BY <1>3, <2>1, <2>2
    <3> QED BY <1>3, <2>1, <3>1
  <2> QED BY <1>1, <1>6, <2>2, <2>3, RoomParse
<1>7. CASE /\ send_response(cur.op, OkLen) \/ send_response(cur.op, ErrLen)
           /\ cur.reqs # <<>>
           /\ cur' = [cur EXCEPT !.reqs = Tail(@)]
           /\ UNCHANGED <<cq, batch, pc>>
  <2>1. PICK n \in Offer(FreeIn(pool)) : sq' = Append(sq, n)
    BY <1>7 DEF send_response
  <2>2. Len(sq') = Len(sq) + 1
    BY <2>1, OffersFree, PrepareLen
  <2>3. cur'.reqs = Tail(cur.reqs) /\ cur'.op = cur.op
    BY <1>2, <1>7
  <2>4. Len(Tail(cur.reqs)) = Len(cur.reqs) - 1
    BY <1>2, <1>7, HeadTailProperties
  <2>5. cur' # Idle
    BY <1>3, <2>3, ServerAssumption DEF Idle
  <2>6. Need' = Len(cur.reqs)
    BY <1>3, <2>3, <2>4, <2>5 DEF Need, Idle
  <2>7. Len(sq') + Need' <= Len(sq) + Need
    <3>1. Len(sq') + Need' = Len(sq) + 1 + Len(cur.reqs)
      BY <2>2, <2>6, Zenon
    <3>2. Len(sq) + Need = Len(sq) + (Len(cur.reqs) + 1)
      BY <1>3, Zenon
    <3>3. \A s, k \in Nat : s + 1 + k <= s + (k + 1)
      OBVIOUS
    <3> QED BY <1>3, <3>1, <3>2, <3>3, Zenon
  <2>8. Len(cur'.reqs) <= MaxReqs
    BY <1>1, <1>3, <2>3, <2>4
  <2> QED BY <1>1, <1>7, <2>7, <2>8, RoomParse
<1>8. CASE handle
  BY <1>4, <1>5, <1>6, <1>7, <1>8 DEF handle
<1>9. CASE resume_recv
  BY <1>5, <1>6, <1>9 DEF resume_recv
<1> QED BY <1>8, <1>9

\* The loop's own steps keep RoomInv.
LEMMA RoomLoop ==
    ASSUME TypeOK, TypeOK', RoomInv, Loop
    PROVE  RoomInv'
<1>1. CASE io_uring_wait_cqe
  <2>1. /\ pc' = "one" /\ batch' = 1 /\ sq' = <<>> /\ cq' = cq /\ cur' = cur
        /\ cur = Idle
    BY <1>1 DEF io_uring_wait_cqe, RoomInv, Running, Stopped
  <2>2. Need' = 0 /\ Len(sq') = 0 /\ Budget' = PerCqe /\ 1 * PerCqe = PerCqe
    BY <2>1, RoundArithmetic DEF Need, Idle, Budget
  <2>3. Len(sq') + batch' * PerCqe + Need' <= Budget'
    BY <2>1, <2>2, RoundArithmetic
  <2> QED BY <2>1, <2>3 DEF RoomInv, Idle
<1>2. CASE io_uring_peek_batch_cqe
  <2>1. /\ pc = "one" /\ batch = 0 /\ cur = Idle /\ pc' = "many"
        /\ sq' = sq /\ cq' = cq /\ cur' = Idle
    BY <1>2 DEF io_uring_peek_batch_cqe, Idle
  <2>2. Len(sq) <= PerCqe
    <3>1. Len(sq) + 0 * PerCqe + 0 <= PerCqe
      BY <2>1 DEF RoomInv, Running, Need, Budget
    <3> QED BY <3>1, RoundArithmetic, RoomTypes
  <2>3. batch' \in Nat /\ batch' <= MaxBatch
    <3>1. Len(cq) \in Nat /\ MaxBatch \in Nat
      BY ServerAssumption DEF TypeOK
    <3> QED BY <1>2, <3>1 DEF io_uring_peek_batch_cqe
  <2>4. Need' = 0 /\ Budget' = MaxBatch * PerCqe + PerCqe
    BY <2>1, RoundArithmetic DEF Need, Idle, Budget
  <2>5. /\ batch' * PerCqe <= MaxBatch * PerCqe /\ batch' * PerCqe \in Nat
        /\ MaxBatch * PerCqe \in Nat /\ PerCqe \in Nat /\ Len(sq) \in Nat
    BY <2>3, RoundArithmetic, RoomTypes
  <2>6. Len(sq') + batch' * PerCqe + Need' <= Budget'
    <3> HIDE DEF PerCqe, Need, Budget
    <3> QED BY <2>1, <2>2, <2>4, <2>5
  <2> QED BY <2>1, <2>6 DEF RoomInv, Idle
<1>3. CASE batch_done
  <2>1. pc' = "submit" /\ cq' = cq /\ cur' = Idle
    BY <1>3 DEF batch_done, Idle
  <2> QED BY <2>1 DEF RoomInv, Running, Idle
<1>4. CASE submit_sqe
  <2>1. pc' = pc /\ pc = "submit" /\ cq' = cq /\ cur' = cur
    BY <1>4 DEF submit_sqe, loop
  <2> QED BY <2>1 DEF RoomInv, Running, Stopped, Idle
<1>5. CASE io_uring_submit
  <2>1. pc = "submit" /\ pc' = "wait" /\ sq' = <<>> /\ cq' = cq /\ cur' = cur
    BY <1>5 DEF io_uring_submit
  <2> QED BY <2>1 DEF RoomInv, Running, Stopped, Idle
<1> QED BY <1>1, <1>2, <1>3, <1>4, <1>5 DEF Loop

\* The kernel delivers at most MaxReqs requests with a completion.
LEMMA RoomKernel ==
    ASSUME TypeOK, TypeOK', RoomInv, Kernel
    PROVE  RoomInv'
<1>1. PICK o \in OpId : \/ KernelAccept(o) \/ KernelRecv(o) \/ KernelEof(o)
                        \/ KernelSend(o) \/ KernelFail(o)
  BY DEF Kernel
<1>2. sq' = sq /\ pc' = pc /\ batch' = batch /\ cur' = cur
  BY <1>1 DEF KernelAccept, KernelRecv, KernelEof, KernelSend, KernelFail, loop
<1>3. \E e : cq' = Append(cq, e) /\ Len(e.reqs) <= MaxReqs
  <2>1. ASSUME NEW res, Complete(o, res, <<>>)
        PROVE  \E e : cq' = Append(cq, e) /\ Len(e.reqs) <= MaxReqs
    <3>1. cq' = Append(cq, [op |-> o, res |-> res, reqs |-> <<>>])
      BY <2>1 DEF Complete
    <3>2. [op |-> o, res |-> res, reqs |-> <<>>].reqs = <<>> /\ Len(<<>>) <= MaxReqs
      BY ServerAssumption
    <3> QED BY <3>1, <3>2, Zenon
  <2>2. CASE KernelRecv(o)
    <3>1. PICK n \in 0..MaxReqs : \E reqs \in [1..n -> Request] : Complete(o, 1, reqs)
      BY <2>2 DEF KernelRecv
    <3>2. PICK reqs \in [1..n -> Request] : Complete(o, 1, reqs)
      BY <3>1
    <3>3. Len(reqs) = n /\ n <= MaxReqs
      BY ServerAssumption
    <3>4. cq' = Append(cq, [op |-> o, res |-> 1, reqs |-> reqs])
      BY <3>2 DEF Complete
    <3>5. [op |-> o, res |-> 1, reqs |-> reqs].reqs = reqs
      OBVIOUS
    <3> QED BY <3>3, <3>4, <3>5, Zenon
  <2>3. CASE KernelAccept(o) \/ KernelEof(o) \/ KernelSend(o) \/ KernelFail(o)
    <3>1. \E res : Complete(o, res, <<>>)
      BY <2>3, Zenon DEF KernelAccept, KernelEof, KernelSend, KernelFail
    <3> QED BY <2>1, <3>1
  <2> QED BY <1>1, <2>2, <2>3
<1>4. PICK e : cq' = Append(cq, e) /\ Len(e.reqs) <= MaxReqs
  BY <1>3
<1>5. \A i \in 1..Len(cq') : Len(cq'[i].reqs) <= MaxReqs
  <2>1. cq \in Seq(Cqe)
    BY DEF TypeOK, Cqe
  <2>2. /\ Len(cq') = Len(cq) + 1 /\ cq'[Len(cq) + 1] = e
        /\ \A i \in 1..Len(cq) : cq'[i] = cq[i]
    BY <1>4, <2>1
  <2>3. \A i \in 1..Len(cq') : i \in 1..Len(cq) \/ i = Len(cq) + 1
    BY <2>1, <2>2
  <2> QED BY <1>4, <2>2, <2>3 DEF RoomInv
<1> QED BY <1>2, <1>5 DEF RoomInv, Running, Stopped, Need, Budget, Idle

\* With a ring of RoundMax entries or more, server.c's io_uring_get_sqe never
\* returns NULL, however many clients, requests and completions there are;
\* this is the condition under which the assumption above handle is true.
THEOREM ServerRingHasRoom == Spec => []RingHasRoom
<1>1. Init => TypeOK /\ RoomInv
  <2> SUFFICES ASSUME Init PROVE RoomInv
    BY InitTypes
  <2>1. pc = "submit" /\ cq = <<>> /\ cur = Idle
    BY DEF Init
  <2> QED BY <2>1 DEF RoomInv, Running
<1>2. (TypeOK /\ RoomInv) /\ [Next]_vars => (TypeOK /\ RoomInv)'
  <2> SUFFICES ASSUME TypeOK, TypeOK', RoomInv, [Next]_vars PROVE RoomInv'
    BY NextTypes
  <2>1. CASE Handler
    BY <2>1, RoomCompletion, RoomParser DEF Handler
  <2>2. CASE Loop
    BY <2>2, RoomLoop
  <2>3. CASE ring_error
    BY <2>3, RoomExit DEF ring_error
  <2>4. CASE Kernel
    BY <2>4, RoomKernel
  <2>5. CASE UNCHANGED vars
    <3>1. UNCHANGED <<sq, cq, pc, batch, cur>>
      BY <2>5 DEF vars, loop
    <3> QED BY <3>1 DEF RoomInv, Running, Stopped, Need, Budget, Idle
  <2> QED BY <2>1, <2>2, <2>3, <2>4, <2>5 DEF Next, Terminated
<1>3. TypeOK /\ RoomInv => RingHasRoom
  <2>1. RoundMax \in Nat /\ SqSize \in Nat
    BY RoundArithmetic
  <2> HIDE DEF RoundMax
  <2> QED BY <2>1 DEF RoomInv, RingHasRoom
<1> QED BY <1>1, <1>2, <1>3, PTL DEF Spec

-----------------------------------------------------------------------------
(* The steps of the server by what they do to Operations, clients and      *)
(* descriptors; every invariant below has one case for each.               *)

\* Nothing moves but the loop's own place and count.
QuietStep == UNCHANGED <<memory, sq, cq, cur, world, ghost>>

\* disconnect_and_free_op of a client that is in the map.
Closes(o) ==
    /\ ops[o].client_id \in DOMAIN clients
    /\ Open(ops[o].client_fd)
    /\ files' = [files EXCEPT ![ops[o].client_fd] = NoConn]
    /\ clients' = Restrict(clients, DOMAIN clients \ {ops[o].client_id})

\* An Operation is freed with its client or without, because that is gone or
\* because all of a response was taken.
FreeStep(o) ==
    /\ free_op(o) /\ Forget(o)
    /\ \/ Closes(o)
       \/ UNCHANGED <<clients, files>> /\ ops[o].client_id \notin DOMAIN clients
       \/ UNCHANGED <<clients, files>> /\ Handles("OP_WRITE") /\ o = Head(cq).op
          /\ ~op_is_incomplete(o, Head(cq).res)
    /\ UNCHANGED <<next_client_id, sq, pc, kernel, fresh>>

\* The Operation is that of the completion at hand, or of the parser.
FreeCompleted == Ready /\ FreeStep(Head(cq).op) /\ Take /\ cur' = cur
FreeParsed == cur # Idle /\ ~Stopped /\ FreeStep(cur.op) /\ cur' = Idle /\ cq' = cq

AcceptStep(r, fd, o, b) ==
    /\ Handles("OP_ACCEPT") /\ r = Head(cq).op /\ fd = Head(cq).res
    /\ o \in Offer(FreeIn(pool)) /\ b \in Offer(FreeIn(slab2k))
    /\ Pool!Acquire(o, 1)
    /\ Slab2k!Acquire(b, 1)
    /\ ops' = [ops EXCEPT ![r] = add_recv(@, fd), ![o] = AcceptOp(next_client_id, b)]
    /\ sq' = Append(Append(sq, r), o)
    /\ clients' = [id \in DOMAIN clients \cup {next_client_id} |->
           IF id = next_client_id THEN NewClient
           ELSE IF id = ops[r].client_id
           THEN [clients[id] EXCEPT !.client_fd = fd]
           ELSE clients[id]]
    /\ next_client_id' = next_client_id + 1
    /\ Take
    /\ UNCHANGED <<slab64, pc, cur, world, ghost>>

ParseStep ==
    /\ Handles("OP_READ")
    /\ cur' = [op |-> Head(cq).op, reqs |-> Head(cq).reqs]
    /\ Take
    /\ UNCHANGED <<memory, sq, pc, world, ghost>>

RespondStep(r, len, o, b) ==
    /\ cur # Idle /\ ~Stopped /\ r = cur.op /\ len \in {OkLen, ErrLen}
    /\ o \in Offer(FreeIn(pool)) /\ b \in Offer(FreeIn(slab64))
    /\ Pool!Acquire(o, 1)
    /\ Slab64!Acquire(b, 1)
    /\ ops' = [ops EXCEPT ![o] = WriteOp(ops[r].client_id, ops[r].client_fd, b, len)]
    /\ sq' = Append(sq, o)
    /\ peer' = [peer EXCEPT ![o] = peer[r]]
    /\ sent' = [sent EXCEPT ![o] = 0]
    /\ clients' \in {clients, [clients EXCEPT ![ops[r].client_id].named = TRUE]}
    /\ cur' = [cur EXCEPT !.reqs = Tail(@)]
    /\ UNCHANGED <<slab2k, next_client_id, cq, pc, world>>

ReadOnStep ==
    /\ cur # Idle /\ ~Stopped
    /\ sq' = Append(sq, cur.op)
    /\ cur' = Idle
    /\ UNCHANGED <<memory, cq, pc, world, ghost>>

SendOnStep ==
    /\ Handles("OP_WRITE")
    /\ op_is_incomplete(Head(cq).op, Head(cq).res)
    /\ ops' = [ops EXCEPT ![Head(cq).op].processed = @ + Head(cq).res]
    /\ sq' = Append(sq, Head(cq).op)
    /\ Take
    /\ UNCHANGED <<pool, slab64, slab2k, clients, next_client_id, pc, cur, world, ghost>>

\* Every step of the server is one of these.
LEMMA StepShapes ==
    ASSUME [Next]_vars
    PROVE  \/ QuietStep \/ FreeCompleted \/ FreeParsed \/ ParseStep \/ ReadOnStep
           \/ \E r, fd, o, b : AcceptStep(r, fd, o, b)
           \/ \E r, len, o, b : RespondStep(r, len, o, b)
           \/ SendOnStep \/ submit_sqe \/ Kernel
<1>1. ASSUME NEW reason, exit(reason) PROVE QuietStep
  BY <1>1 DEF exit, QuietStep
<1>2. ASSUME NEW o, disconnect_and_free_op(o)
      PROVE  /\ free_op(o) /\ Forget(o)
             /\ \/ Closes(o)
                \/ UNCHANGED <<clients, files>> /\ ops[o].client_id \notin DOMAIN clients
  BY <1>2, Zenon DEF disconnect_and_free_op, Closes
<1>3. CASE op_failed
  <2>1. CASE must_close_fails(Head(cq).op)
    BY <1>1, <2>1, Zenon DEF must_close_fails
  <2>2. CASE /\ disconnect_and_free_op(Head(cq).op)
             /\ Take
             /\ UNCHANGED <<next_client_id, sq, pc, cur, kernel, sock, fresh, requests>>
    BY <1>2, <1>3, <2>2, Zenon DEF op_failed, FreeCompleted, FreeStep
  <2> QED BY <1>3, <2>1, <2>2, Zenon DEF op_failed
<1>4. CASE client_gone
  BY <1>4, Zenon DEF client_gone, FreeCompleted, FreeStep, world
<1>5. CASE handle_accept
  <2>1. CASE exit("sq_full")
    BY <1>1, <2>1, Zenon
  <2>2. CASE ~exit("sq_full")
    <3>1. PICK o \in Offer(FreeIn(pool)), b \in Offer(FreeIn(slab2k)) :
                     /\ Pool!Acquire(o, 1)
                     /\ Slab2k!Acquire(b, 1)
                     /\ ops' = [ops EXCEPT
                            ![Head(cq).op] = add_recv(@, Head(cq).res),
                            ![o] = AcceptOp(next_client_id, b)]
                     /\ sq' = Append(Append(sq, Head(cq).op), o)
      BY <1>5, <2>2, Zenon DEF handle_accept
    <3>2. AcceptStep(Head(cq).op, Head(cq).res, o, b)
      BY <1>5, <2>2, <3>1, Zenon DEF handle_accept, AcceptStep
    <3> QED BY <3>2, Zenon
  <2> QED BY <2>1, <2>2
<1>6. CASE handle_recv
  <2>1. CASE must_close_fails(Head(cq).op)
    BY <1>1, <2>1, Zenon DEF must_close_fails
  <2>2. CASE /\ disconnect_and_free_op(Head(cq).op)
             /\ Take
             /\ UNCHANGED <<next_client_id, sq, pc, cur, kernel, sock, fresh, requests>>
    BY <1>2, <1>6, <2>2, Zenon DEF handle_recv, Handles, FreeCompleted, FreeStep
  <2>3. CASE /\ cur' = [op |-> Head(cq).op, reqs |-> Head(cq).reqs]
             /\ Take
             /\ UNCHANGED <<memory, sq, pc, world, ghost>>
    BY <1>6, <2>3, Zenon DEF handle_recv, ParseStep
  <2> QED BY <1>6, <2>1, <2>2, <2>3, Zenon DEF handle_recv
<1>7. CASE handle
  <2>1. CASE must_close_fails(cur.op) \/ exit("sq_full")
    BY <1>1, <2>1, Zenon DEF must_close_fails
  <2>2. CASE /\ disconnect_and_free_op(cur.op)
             /\ cur' = Idle
             /\ UNCHANGED <<next_client_id, sq, cq, pc, batch, kernel, sock, fresh, requests>>
    BY <1>2, <1>7, <2>2, Zenon DEF handle, FreeParsed, FreeStep
  <2>3. ASSUME NEW len \in {OkLen, ErrLen}, send_response(cur.op, len),
               clients' \in {clients, [clients EXCEPT ![ops[cur.op].client_id].named = TRUE]},
               cur' = [cur EXCEPT !.reqs = Tail(@)],
               UNCHANGED <<next_client_id, cq, pc, batch, world>>
        PROVE  \E r, l, o, b : RespondStep(r, l, o, b)
    <3>1. PICK o \in Offer(FreeIn(pool)), b \in Offer(FreeIn(slab64)) :
            /\ Pool!Acquire(o, 1)
            /\ Slab64!Acquire(b, 1)
            /\ ops' = [ops EXCEPT ![o] =
                   WriteOp(ops[cur.op].client_id, ops[cur.op].client_fd, b, len)]
            /\ sq' = Append(sq, o)
            /\ peer' = [peer EXCEPT ![o] = peer[cur.op]]
            /\ sent' = [sent EXCEPT ![o] = 0]
            /\ UNCHANGED slab2k
      BY <2>3, Zenon DEF send_response
    <3>2. RespondStep(cur.op, len, o, b)
      BY <1>7, <2>3, <3>1, Zenon DEF handle, RespondStep
    <3> QED BY <3>2, Zenon
  <2> QED BY <1>7, <2>1, <2>2, <2>3, Zenon DEF handle
<1>8. CASE resume_recv
  BY <1>1, <1>8, Zenon DEF resume_recv, ReadOnStep
<1>9. CASE handle_send
  <2>1. CASE exit("sq_full")
    BY <1>1, <2>1, Zenon
  <2>2. CASE /\ op_is_incomplete(Head(cq).op, Head(cq).res)
             /\ resume_send(Head(cq).op, Head(cq).res)
             /\ Take
             /\ UNCHANGED <<pool, slab64, slab2k, clients, next_client_id,
                            pc, cur, world, ghost>>
    BY <1>9, <2>2, Zenon DEF handle_send, resume_send, SendOnStep
  <2>3. CASE /\ ~op_is_incomplete(Head(cq).op, Head(cq).res)
             /\ free_op(Head(cq).op)
             /\ Forget(Head(cq).op)
             /\ Take
             /\ UNCHANGED <<clients, next_client_id, sq, pc, cur, world>>
    BY <1>9, <2>3, Zenon DEF handle_send, Handles, FreeCompleted, FreeStep, world
  <2> QED BY <1>9, <2>1, <2>2, <2>3, Zenon DEF handle_send
<1>10. CASE Loop \/ ring_error \/ UNCHANGED vars
  BY <1>1, <1>10, Zenon DEF Loop, io_uring_wait_cqe, io_uring_peek_batch_cqe, batch_done,
        io_uring_submit, ring_error, QuietStep, vars, loop
<1> QED BY <1>3, <1>4, <1>5, <1>6, <1>7, <1>8, <1>9, <1>10, Zenon
        DEF Next, Handler, Terminated
-----------------------------------------------------------------------------
(* What a step does to the completion queue, read as a set of completions, *)
(* and to the Operations that are out of the pool.                         *)

\* What HolderInv says, pool_id by pool_id.
LEMMA HolderElements ==
    ASSUME HolderInv
    PROVE  /\ \A y : /\ ~(y \in Range(sq) /\ y \in kernel)
                    /\ ~(y \in Range(sq) /\ y \in Range(Ids(cq)))
                    /\ ~(y \in kernel /\ y \in Range(Ids(cq)))
           /\ cur.op \notin Range(sq) /\ cur.op \notin kernel /\ cur.op \notin Range(Ids(cq))
           /\ \A y : y \in Busy <=> \/ y \in Range(sq) \/ y \in kernel \/ y \in Range(Ids(cq))
                                  \/ (y = cur.op /\ y # NoOp)
<1> DEFINE R == Range(sq)
           C == Range(Ids(cq))
           c == cur.op
           B == Busy
<1>1. Apart(R, kernel, C, c, B)
  BY HolderApart
<1> HIDE DEF R, C, c, B
<1>2. /\ \A y : ~(y \in R /\ y \in kernel) /\ ~(y \in R /\ y \in C) /\ ~(y \in kernel /\ y \in C)
      /\ c \notin R /\ c \notin kernel /\ c \notin C
      /\ \A y : y \in B <=> y \in R \/ y \in kernel \/ y \in C \/ (y = c /\ y # NoOp)
  BY <1>1, ApartElements
<1> QED BY <1>2, Zenon DEF R, C, c, B

\* The members of the completion queue belong to Operations that are out of
\* the pool, one completion each.
LEMMA CqMembers ==
    ASSUME TypeOK, HolderInv
    PROVE  /\ \A e \in Range(cq) : /\ e \in Cqe /\ e.op \in OpId /\ e.res \in Int
                                   /\ e.op \in Range(Ids(cq)) /\ e.op \in Busy
           /\ \A e, f \in Range(cq) : e.op = f.op => e = f
           /\ \A x : x \in Range(cq) <=> \E i \in 1..Len(cq) : x = cq[i]
<1>1. cq \in Seq(Cqe) /\ Distinct(Ids(cq))
  BY DEF TypeOK, Cqe, HolderInv
<1>2. /\ Range(cq) \subseteq Cqe
      /\ \A x : x \in Range(cq) <=> \E i \in 1..Len(cq) : x = cq[i]
  BY <1>1, SeqRange, Zenon
<1>3. /\ \A i, j \in 1..Len(cq) : cq[i].op = cq[j].op => i = j
      /\ Range(Ids(cq)) = {cq[i].op : i \in 1..Len(cq)}
  BY <1>1, IdsMeaning, Zenon
<1>4. \A x \in Range(Ids(cq)) : x \in Busy
  BY HolderElements, Zenon
<1>5. \A e \in Cqe : e.op \in OpId /\ e.res \in Int
  BY DEF Cqe
<1>6. ASSUME NEW e \in Range(cq)
      PROVE  /\ e \in Cqe /\ e.op \in OpId /\ e.res \in Int
             /\ e.op \in Range(Ids(cq)) /\ e.op \in Busy
  <2>1. PICK i \in 1..Len(cq) : e = cq[i]
    BY <1>2, Zenon
  <2>2. e \in Cqe /\ e.op \in Range(Ids(cq))
    BY <1>2, <1>3, <2>1, Zenon
  <2> QED BY <1>4, <1>5, <2>2, Zenon
<1>7. ASSUME NEW e \in Range(cq), NEW f \in Range(cq), e.op = f.op PROVE e = f
  <2>1. PICK i \in 1..Len(cq) : e = cq[i]
    BY <1>2, Zenon
  <2>2. PICK j \in 1..Len(cq) : f = cq[j]
    BY <1>2, Zenon
  <2>3. i = j
    BY <1>3, <1>7, <2>1, <2>2, Zenon
  <2> QED BY <2>1, <2>2, <2>3
<1> QED BY <1>2, <1>6, <1>7, Zenon

\* Taking a completion leaves the others.
LEMMA TakeMembers ==
    ASSUME TypeOK, HolderInv, cq # <<>>, Take
    PROVE  /\ Head(cq) \in Range(cq)
           /\ Range(cq') = Range(cq) \ {Head(cq)}
           /\ \A e \in Range(cq') : e \in Range(cq) /\ e.op # Head(cq).op
<1>1. cq \in Seq(Cqe) /\ Distinct(Ids(cq))
  BY DEF TypeOK, Cqe, HolderInv
<1>2. \A i, j \in 1..Len(cq) : cq[i].op = cq[j].op => i = j
  BY <1>1, IdsMeaning, Zenon
<1>3. Distinct(cq)
  BY <1>2, Zenon DEF Distinct
<1>4. Head(cq) \in Range(cq) /\ Range(cq') = Range(cq) \ {Head(cq)}
  BY <1>1, <1>3, TailDistinct, Zenon DEF Take
<1>5. \A e, f \in Range(cq) : e.op = f.op => e = f
  BY CqMembers, Zenon
<1> QED BY <1>4, <1>5, Zenon

\* A completion by the kernel adds one.
LEMMA CompleteMembers ==
    ASSUME TypeOK, HolderInv, NEW o \in kernel, NEW res \in Int, NEW reqs \in Seq(Request),
           Complete(o, res, reqs)
    PROVE  /\ Range(cq') = Range(cq) \cup {[op |-> o, res |-> res, reqs |-> reqs]}
           /\ \A e \in Range(cq) : e.op # o
           /\ kernel' = kernel \ {o}
           /\ o \in OpId /\ o \in Busy
<1> DEFINE new == [op |-> o, res |-> res, reqs |-> reqs]
<1>1. cq \in Seq(Cqe) /\ o \in OpId
  BY DEF TypeOK, Cqe
<1>2. new \in Cqe
  BY <1>1 DEF Cqe
<1>3. cq' = Append(cq, new) /\ kernel' = kernel \ {o}
  BY DEF Complete
<1>4. Range(cq') = Range(cq) \cup {new}
  <2> HIDE DEF new
  <2>1. Range(Append(cq, new)) = Range(cq) \cup {new}
    BY <1>1, <1>2, AppendDistinct
  <2> QED BY <1>3, <2>1
<1>5. o \notin Range(Ids(cq)) /\ o \in Busy
  BY HolderElements, Zenon
<1> QED BY <1>1, <1>3, <1>4, <1>5, CqMembers, Zenon

\* The Operation a handler works on is out of the pool.
LEMMA HandledBusy ==
    ASSUME TypeOK, HolderInv
    PROVE  /\ Ready => /\ cq # <<>> /\ Head(cq) \in Range(cq) /\ Head(cq).op \in OpId
                       /\ Head(cq).op \in Busy /\ Head(cq).res \in Int
           /\ cur # Idle => cur.op \in OpId /\ cur.op \in Busy
<1>1. ASSUME Ready PROVE /\ cq # <<>> /\ Head(cq) \in Range(cq) /\ Head(cq).op \in OpId
                         /\ Head(cq).op \in Busy /\ Head(cq).res \in Int
  <2>1. cq # <<>> /\ cq \in Seq(Cqe)
    BY <1>1 DEF Ready, TypeOK, Cqe
  <2>2. 1 \in 1..Len(cq) /\ Head(cq) = cq[1]
    BY <2>1
  <2>3. Head(cq) \in Range(cq)
    BY <2>2, CqMembers, Zenon
  <2> QED BY <2>1, <2>3, CqMembers, Zenon
<1>2. ASSUME cur # Idle PROVE cur.op \in OpId /\ cur.op \in Busy
  <2>1. cur.op \in OpId /\ cur.op # NoOp
    BY <1>2, ServerAssumption DEF TypeOK
  <2> QED BY <2>1, HolderElements, Zenon
<1> QED BY <1>1, <1>2

\* Preparing a submission.
LEMMA AppendRange ==
    \A s \in Seq(OpId) : \A e \in OpId :
        Append(s, e) \in Seq(OpId) /\ Range(Append(s, e)) = Range(s) \cup {e}
BY AppendDistinct

\* What handle_accept does to the Operation r that accepted and to the new one.
LEMMA AcceptEffect ==
    ASSUME TypeOK, HolderInv, NEW r, NEW fd, NEW o, NEW b, AcceptStep(r, fd, o, b)
    PROVE  /\ Ready /\ Head(cq) \in Range(cq) /\ r = Head(cq).op /\ fd = Head(cq).res
           /\ Head(cq).res >= 0 /\ fd \in Int
           /\ r \in OpId /\ r \in Busy /\ ops[r].type = "OP_ACCEPT"
           /\ o \in OpId /\ o \notin Busy /\ o # r /\ b \in Buf
           /\ Busy' = Busy \cup {o}
           /\ ops'[r] = [ops[r] EXCEPT !.client_fd = fd, !.type = "OP_READ"]
           /\ ops'[o] = AcceptOp(next_client_id, b)
           /\ \A p \in OpId : p # o /\ p # r => ops'[p] = ops[p]
           /\ Range(sq') = (Range(sq) \cup {r}) \cup {o}
           /\ \A e \in Range(cq') : e \in Range(cq) /\ e.op # r
           /\ \A e \in Range(cq) : e.op # r => e \in Range(cq')
<1>1. /\ Ready /\ Take /\ r = Head(cq).op /\ fd = Head(cq).res /\ Head(cq).res >= 0
      /\ ops[r].type = "OP_ACCEPT" /\ Pool!Acquire(o, 1)
  BY DEF AcceptStep, Handles
<1>2. /\ r \in OpId /\ r \in Busy /\ Head(cq) \in Range(cq) /\ cq # <<>> /\ fd \in Int
      /\ o \in OpId /\ b \in Buf
  BY <1>1, HandledBusy, OffersFree DEF AcceptStep
<1>3. o \notin Busy /\ Busy' = Busy \cup {o} /\ o # r
  BY <1>1, <1>2, BusyChange
<1>4. /\ ops'[r] = [ops[r] EXCEPT !.client_fd = fd, !.type = "OP_READ"]
      /\ ops'[o] = AcceptOp(next_client_id, b)
      /\ \A p \in OpId : p # o /\ p # r => ops'[p] = ops[p]
  BY <1>2, <1>3 DEF AcceptStep, TypeOK, add_recv
<1>5. Range(sq') = (Range(sq) \cup {r}) \cup {o}
  <2>1. sq \in Seq(OpId)
    BY DEF TypeOK
  <2>2. Append(sq, r) \in Seq(OpId) /\ Range(Append(sq, r)) = Range(sq) \cup {r}
    BY <1>2, <2>1, AppendRange, Zenon
  <2>3. Range(Append(Append(sq, r), o)) = Range(Append(sq, r)) \cup {o}
    BY <1>2, <2>2, AppendRange, Zenon
  <2>4. sq' = Append(Append(sq, r), o)
    BY DEF AcceptStep
  <2> QED BY <2>2, <2>3, <2>4, Zenon
<1>6. /\ \A e \in Range(cq') : e \in Range(cq) /\ e.op # r
      /\ \A e \in Range(cq) : e.op # r => e \in Range(cq')
  BY <1>1, <1>2, TakeMembers
<1> QED BY <1>1, <1>2, <1>3, <1>4, <1>5, <1>6

\* What send_response does to the Operation o of the response.
LEMMA RespondEffect ==
    ASSUME TypeOK, HolderInv, NEW r, NEW len, NEW o, NEW b, RespondStep(r, len, o, b)
    PROVE  /\ cur # Idle /\ r = cur.op /\ cur'.op = r
           /\ len \in Nat /\ r \in OpId /\ r \in Busy
           /\ o \in OpId /\ o \notin Busy /\ o # r /\ b \in Buf
           /\ Busy' = Busy \cup {o}
           /\ ops'[o] = WriteOp(ops[r].client_id, ops[r].client_fd, b, len)
           /\ sent'[o] = 0 /\ peer'[o] = peer[r]
           /\ \A p \in OpId : p # o => /\ ops'[p] = ops[p] /\ sent'[p] = sent[p]
                                      /\ peer'[p] = peer[p]
           /\ Range(sq') = Range(sq) \cup {o}
<1>1. /\ cur # Idle /\ r = cur.op /\ Pool!Acquire(o, 1)
      /\ cur' = [cur EXCEPT !.reqs = Tail(@)] /\ sq' = Append(sq, o)
  BY DEF RespondStep
<1>2. r \in OpId /\ r \in Busy /\ o \in OpId /\ b \in Buf
  BY <1>1, HandledBusy, OffersFree DEF RespondStep
<1>3. len \in Nat
  <2>1. OkLen \in Nat /\ ErrLen \in Nat
    BY ServerAssumption DEF SmallCap
  <2>2. len \in {OkLen, ErrLen}
    BY DEF RespondStep
  <2> QED BY <2>1, <2>2
<1>4. o \notin Busy /\ Busy' = Busy \cup {o} /\ o # r
  BY <1>1, <1>2, BusyChange
<1>5. cur'.op = r
  BY <1>1 DEF TypeOK
<1>6. /\ ops'[o] = WriteOp(ops[r].client_id, ops[r].client_fd, b, len)
      /\ sent'[o] = 0 /\ peer'[o] = peer[r]
      /\ \A p \in OpId : p # o => /\ ops'[p] = ops[p] /\ sent'[p] = sent[p]
                                 /\ peer'[p] = peer[p]
  BY <1>2 DEF RespondStep, TypeOK
<1>7. Range(sq') = Range(sq) \cup {o}
  <2>1. sq \in Seq(OpId)
    BY DEF TypeOK
  <2>2. Range(Append(sq, o)) = Range(sq) \cup {o}
    BY <1>2, <2>1, AppendRange, Zenon
  <2> QED BY <1>1, <2>2, Zenon
<1> QED BY <1>1, <1>2, <1>3, <1>4, <1>5, <1>6, <1>7

\* free_op clears one Operation and leaves the others alone.
LEMMA FreeEffect ==
    ASSUME TypeOK, NEW o \in OpId, free_op(o)
    PROVE  /\ Busy' = Busy \ {o}
           /\ \A p \in OpId : p # o => ops'[p] = ops[p]
BY BusyChange DEF free_op, TypeOK
-----------------------------------------------------------------------------
(* BufferOwned.  free_op picks the slab by the capacity, so the capacity   *)
(* of an Operation that is out of the pool has to be one of the two: with  *)
(* the 0 of an Operation nobody used yet, no slab would own its buffer.    *)

BufInv ==
    /\ BufferOwned
    /\ \A o \in Busy : ops[o].buf_cap \in {SmallCap, LargeCap}

\* A step that changes no buffer of an Operation and neither slab.
LEMMA BufKept ==
    ASSUME TypeOK, BufInv, UNCHANGED <<pool, slab64, slab2k>>,
           \A o \in OpId : ops'[o].buf = ops[o].buf /\ ops'[o].buf_cap = ops[o].buf_cap
    PROVE  BufInv'
<1>1. Busy' = Busy /\ Busy \subseteq OpId
  BY DEF Busy
<1> QED BY <1>1 DEF BufInv, BufferOwned

\* An Operation returns with its buffer.
LEMMA BufFreed ==
    ASSUME TypeOK, BufInv, NEW o \in Busy, free_op(o)
    PROVE  BufInv'
<1>0. o \in OpId /\ Busy \subseteq OpId
  BY DEF Busy
<1>1. Busy' = Busy \ {o} /\ \A p \in OpId : p # o => ops'[p] = ops[p]
  BY <1>0, FreeEffect
<1>2. /\ ops[o].buf \in Buf
      /\ slab64 \in [Buf -> 0..1] /\ slab2k \in [Buf -> 0..1]
  BY DEF TypeOK, BufInv, BufferOwned
<1>3. SmallCap = 64 /\ LargeCap = 2048
  BY DEF SmallCap, LargeCap
<1>4. CASE ops[o].buf_cap = LargeCap
  <2>1. slab64' = slab64 /\ slab2k' = [slab2k EXCEPT ![ops[o].buf] = @ - 1]
    BY <1>3, <1>4 DEF free_op, Slab2k!Release
  <2>2. slab2k[ops[o].buf] = 1
    BY <1>3, <1>4 DEF BufInv, BufferOwned
  <2>3. slab2k'[ops[o].buf] = 0 /\ \A b \in Buf : b # ops[o].buf => slab2k'[b] = slab2k[b]
    BY <1>2, <2>1, <2>2
  <2> QED BY <1>0, <1>1, <1>2, <1>3, <1>4, <2>1, <2>3 DEF BufInv, BufferOwned
<1>5. CASE ops[o].buf_cap = SmallCap
  <2>1. slab2k' = slab2k /\ slab64' = [slab64 EXCEPT ![ops[o].buf] = @ - 1]
    BY <1>3, <1>5 DEF free_op, Slab64!Release
  <2>2. slab64[ops[o].buf] = 1
    BY <1>3, <1>5 DEF BufInv, BufferOwned
  <2>3. slab64'[ops[o].buf] = 0 /\ \A b \in Buf : b # ops[o].buf => slab64'[b] = slab64[b]
    BY <1>2, <2>1, <2>2
  <2> QED BY <1>0, <1>1, <1>2, <1>3, <1>5, <2>1, <2>3 DEF BufInv, BufferOwned
<1> QED BY <1>4, <1>5 DEF BufInv

\* A small buffer goes out with a new response, a large one with a new accept.
LEMMA BufTaken ==
    ASSUME TypeOK, BufInv, NEW o \in OpId, NEW b \in Buf, Pool!Acquire(o, 1),
           ops'[o].buf = b,
           \A p \in OpId \ {o} : ops'[p].buf = ops[p].buf /\ ops'[p].buf_cap = ops[p].buf_cap,
           \/ Slab64!Acquire(b, 1) /\ slab2k' = slab2k /\ ops'[o].buf_cap = SmallCap
           \/ Slab2k!Acquire(b, 1) /\ slab64' = slab64 /\ ops'[o].buf_cap = LargeCap
    PROVE  BufInv'
<1>1. o \notin Busy /\ Busy' = Busy \cup {o} /\ Busy \subseteq OpId
  BY BusyChange DEF Busy
<1>2. slab64 \in [Buf -> 0..1] /\ slab2k \in [Buf -> 0..1]
  BY DEF TypeOK
<1>3. SmallCap = 64 /\ LargeCap = 2048
  BY DEF SmallCap, LargeCap
<1>4. CASE Slab64!Acquire(b, 1) /\ slab2k' = slab2k /\ ops'[o].buf_cap = SmallCap
  <2>1. slab64[b] = 0 /\ slab64'[b] = 1 /\ \A c \in Buf : c # b => slab64'[c] = slab64[c]
    BY <1>2, <1>4 DEF Slab64!Acquire
  <2> QED BY <1>1, <1>3, <1>4, <2>1 DEF BufInv, BufferOwned
<1>5. CASE Slab2k!Acquire(b, 1) /\ slab64' = slab64 /\ ops'[o].buf_cap = LargeCap
  <2>1. slab2k[b] = 0 /\ slab2k'[b] = 1 /\ \A c \in Buf : c # b => slab2k'[c] = slab2k[c]
    BY <1>2, <1>5 DEF Slab2k!Acquire
  <2> QED BY <1>1, <1>3, <1>5, <2>1 DEF BufInv, BufferOwned
<1> QED BY <1>4, <1>5

\* Every step keeps every buffer with its Operation.
LEMMA BufNext == TypeOK /\ HolderInv /\ BufInv /\ [Next]_vars => BufInv'
<1> SUFFICES ASSUME TypeOK, HolderInv, BufInv, [Next]_vars PROVE BufInv'
  OBVIOUS
<1>1. CASE QuietStep \/ ParseStep \/ ReadOnStep \/ submit_sqe
  BY <1>1, BufKept DEF QuietStep, ParseStep, ReadOnStep, submit_sqe, memory
<1>2. CASE FreeCompleted
  BY <1>2, HandledBusy, BufFreed DEF FreeCompleted, FreeStep
<1>3. CASE FreeParsed
  BY <1>3, HandledBusy, BufFreed DEF FreeParsed, FreeStep
<1>4. ASSUME NEW r, NEW fd, NEW o, NEW b, AcceptStep(r, fd, o, b) PROVE BufInv'
  <2>1. /\ r \in OpId /\ o \in OpId /\ b \in Buf
        /\ ops'[r] = [ops[r] EXCEPT !.client_fd = fd, !.type = "OP_READ"]
        /\ ops'[o] = AcceptOp(next_client_id, b)
        /\ \A p \in OpId : p # o /\ p # r => ops'[p] = ops[p]
    BY <1>4, AcceptEffect
  <2>2. ops'[r].buf = ops[r].buf /\ ops'[r].buf_cap = ops[r].buf_cap
    BY <2>1 DEF TypeOK, OpRec
  <2>3. ops'[o].buf = b /\ ops'[o].buf_cap = LargeCap
    BY <2>1 DEF AcceptOp
  <2>4. Pool!Acquire(o, 1) /\ Slab2k!Acquire(b, 1) /\ slab64' = slab64
    BY <1>4 DEF AcceptStep
  <2> QED BY <2>1, <2>2, <2>3, <2>4, BufTaken
<1>5. ASSUME NEW r, NEW len, NEW o, NEW b, RespondStep(r, len, o, b) PROVE BufInv'
  <2>1. /\ o \in OpId /\ b \in Buf
        /\ ops'[o] = WriteOp(ops[r].client_id, ops[r].client_fd, b, len)
        /\ \A p \in OpId : p # o => ops'[p] = ops[p]
    BY <1>5, RespondEffect
  <2>2. ops'[o].buf = b /\ ops'[o].buf_cap = SmallCap
    BY <2>1 DEF WriteOp
  <2>3. Pool!Acquire(o, 1) /\ Slab64!Acquire(b, 1) /\ slab2k' = slab2k
    BY <1>5 DEF RespondStep
  <2> QED BY <2>1, <2>2, <2>3, BufTaken
<1>6. CASE SendOnStep
  <2>1. Head(cq).op \in OpId
    BY <1>6, HandledBusy DEF SendOnStep, Handles
  <2>2. \A o \in OpId : ops'[o].buf = ops[o].buf /\ ops'[o].buf_cap = ops[o].buf_cap
    BY <1>6, <2>1 DEF SendOnStep, TypeOK, OpRec
  <2> QED BY <1>6, <2>2, BufKept DEF SendOnStep
<1>7. CASE Kernel
  <2>1. UNCHANGED memory
    BY <1>7 DEF Kernel, KernelAccept, KernelRecv, KernelEof, KernelSend, KernelFail
  <2> QED BY <2>1, BufKept DEF memory
<1> QED BY <1>1, <1>2, <1>3, <1>4, <1>5, <1>6, <1>7, StepShapes

\* The first accept has the only buffer.
LEMMA BufInit == Init => BufInv
<1> SUFFICES ASSUME Init PROVE BufInv
  OBVIOUS
<1>1. PICK o \in Offer(OpId), b \in Offer(Buf) :
        /\ pool = [x \in OpId |-> IF x = o THEN 1 ELSE 0]
        /\ slab64 = [x \in Buf |-> 0]
        /\ slab2k = [x \in Buf |-> IF x = b THEN 1 ELSE 0]
        /\ ops = [x \in OpId |-> IF x = o THEN AcceptOp(1, b)
                                 ELSE [AcceptOp(1, NoBuf) EXCEPT !.buf_cap = 0]]
  BY DEF Init
<1>2. o \in OpId /\ b \in Buf
  BY <1>1, ServerAssumption
<1>3. Busy = {o}
  BY <1>1, <1>2 DEF Busy
<1>4. ops[o].buf = b /\ ops[o].buf_cap = LargeCap
  BY <1>1, <1>2 DEF AcceptOp
<1> QED BY <1>1, <1>2, <1>3, <1>4 DEF BufInv, BufferOwned, SmallCap, LargeCap

\* Every buffer that acquire_small_buf or add_accept took out of a slab belongs
\* to exactly one Operation that is out of the pool, and free_op returns it to
\* the slab it came from, for any number of Operations and buffers.
THEOREM ServerBufferOwned == Spec => []BufferOwned
<1>1. Init => TypeOK /\ HolderInv /\ BufInv
  BY InitTypes, HolderInit, BufInit
<1>2. (TypeOK /\ HolderInv /\ BufInv) /\ [Next]_vars => (TypeOK /\ HolderInv /\ BufInv)'
  BY NextTypes, HolderNext, BufNext
<1>3. BufInv => BufferOwned
  BY DEF BufInv
<1> QED BY <1>1, <1>2, <1>3, PTL DEF Spec
-----------------------------------------------------------------------------
(* SendOffset.  The completion of a write is judged by processed and by    *)
(* what the kernel took, so the invariant also bounds both by the length;  *)
(* and the Operation the parser hands back to the ring is a receive.       *)

\* A response that is to be sent from where the kernel stopped.
SendAt(o) ==
    ops[o].type = "OP_WRITE" =>
        sent[o] = ops[o].processed /\ ops[o].processed <= ops[o].buf_len

\* A response some bytes of which were just taken.
SentBy(e) ==
    ops[e.op].type = "OP_WRITE" /\ e.res >= 0 =>
        sent[e.op] = ops[e.op].processed + e.res /\ sent[e.op] <= ops[e.op].buf_len

SendInv ==
    /\ \A o \in Range(sq) \cup kernel : SendAt(o)
    /\ \A e \in Range(cq) : SentBy(e)
    /\ cur # Idle => ops[cur.op].type = "OP_READ"

\* Operations in the queues and with the kernel are out of the pool.
LEMMA QueuedBusy ==
    ASSUME TypeOK, HolderInv
    PROVE  /\ \A o \in Range(sq) \cup kernel : o \in OpId /\ o \in Busy
           /\ Ready => Head(cq).op \notin Range(sq) /\ Head(cq).op \notin kernel
           /\ cur # Idle => /\ cur.op \notin Range(sq) /\ cur.op \notin kernel
                            /\ \A e \in Range(cq) : e.op # cur.op
<1>1. \A o \in Range(sq) \cup kernel : o \in OpId /\ o \in Busy
  <2>1. \A o \in Range(sq) \cup kernel : o \in Busy
    BY HolderElements
  <2> QED BY <2>1, Zenon DEF Busy
<1>2. ASSUME Ready PROVE Head(cq).op \notin Range(sq) /\ Head(cq).op \notin kernel
  <2>1. Head(cq).op \in Range(Ids(cq))
    BY <1>2, HandledBusy, CqMembers, Zenon
  <2> QED BY <2>1, HolderElements, Zenon
<1>3. /\ cur.op \notin Range(sq) /\ cur.op \notin kernel
      /\ \A e \in Range(cq) : e.op # cur.op
  BY HolderElements, CqMembers, Zenon
<1> QED BY <1>1, <1>2, <1>3

\* Freeing an Operation that neither the ring nor the parser keeps.
LEMMA SendFreed ==
    ASSUME TypeOK, HolderInv, SendInv, NEW o \in OpId, free_op(o), Forget(o),
           o \notin Range(sq), o \notin kernel, UNCHANGED <<sq, kernel>>, cur' = Idle,
           \A e \in Range(cq') : e \in Range(cq) /\ e.op # o
    PROVE  SendInv'
<1>1. \A p \in OpId : p # o => ops'[p] = ops[p] /\ sent'[p] = sent[p]
  BY FreeEffect DEF Forget, TypeOK
<1>2. \A p \in Range(sq') \cup kernel' : SendAt(p)'
  BY <1>1, QueuedBusy DEF SendInv, SendAt
<1>3. \A e \in Range(cq') : SentBy(e)'
  BY <1>1, CqMembers DEF SendInv, SentBy
<1> QED BY <1>2, <1>3 DEF SendInv

\* Every step keeps the offsets.
LEMMA SendNext == TypeOK /\ HolderInv /\ SendInv /\ [Next]_vars => SendInv'
<1> SUFFICES ASSUME TypeOK, HolderInv, SendInv, [Next]_vars PROVE SendInv'
  OBVIOUS
<1>0. sq \in Seq(OpId)
  BY DEF TypeOK
<1>1. CASE QuietStep
  BY <1>1 DEF QuietStep, memory, world, ghost, SendInv, SendAt, SentBy
<1>2. CASE FreeCompleted
  <2>1. /\ Ready /\ free_op(Head(cq).op) /\ Forget(Head(cq).op) /\ Take
        /\ UNCHANGED <<sq, kernel>> /\ cur' = Idle
    BY <1>2 DEF FreeCompleted, FreeStep, Ready
  <2> QED BY <2>1, HandledBusy, QueuedBusy, TakeMembers, SendFreed
<1>3. CASE FreeParsed
  <2>1. /\ cur # Idle /\ free_op(cur.op) /\ Forget(cur.op)
        /\ UNCHANGED <<sq, kernel, cq>> /\ cur' = Idle
    BY <1>3 DEF FreeParsed, FreeStep
  <2> QED BY <2>1, HandledBusy, QueuedBusy, SendFreed
<1>4. CASE ParseStep
  <2>1. /\ Ready /\ Take /\ ops[Head(cq).op].type = "OP_READ"
        /\ UNCHANGED <<ops, sq, kernel, sent>> /\ cur'.op = Head(cq).op
    BY <1>4 DEF ParseStep, Handles, memory, world, ghost
  <2>2. \A e \in Range(cq') : e \in Range(cq)
    BY <2>1, HandledBusy, TakeMembers
  <2> QED BY <2>1, <2>2 DEF SendInv, SendAt, SentBy
<1>5. CASE ReadOnStep
  <2>1. /\ cur # Idle /\ sq' = Append(sq, cur.op) /\ cur' = Idle
        /\ UNCHANGED <<ops, cq, kernel, sent>>
    BY <1>5 DEF ReadOnStep, memory, world, ghost
  <2>2. cur.op \in OpId
    BY <2>1, HandledBusy
  <2>3. Range(sq') = Range(sq) \cup {cur.op}
    BY <1>0, <2>1, <2>2, AppendDistinct
  <2>4. ops[cur.op].type = "OP_READ"
    BY <2>1 DEF SendInv
  <2>5. \A p \in Range(sq') \cup kernel' : SendAt(p)'
    BY <2>1, <2>3, <2>4 DEF SendInv, SendAt
  <2>6. \A e \in Range(cq') : SentBy(e)'
    BY <2>1 DEF SendInv, SentBy
  <2> QED BY <2>1, <2>5, <2>6 DEF SendInv
<1>6. ASSUME NEW r, NEW fd, NEW o, NEW b, AcceptStep(r, fd, o, b) PROVE SendInv'
  <2>1. cur' = Idle /\ UNCHANGED <<kernel, sent>>
    BY <1>6 DEF AcceptStep, Handles, Ready, world, ghost
  <2>2. /\ r \in OpId /\ r \in Busy /\ o \in OpId /\ o \notin Busy
        /\ ops'[r] = [ops[r] EXCEPT !.client_fd = fd, !.type = "OP_READ"]
        /\ ops'[o] = AcceptOp(next_client_id, b)
        /\ \A p \in OpId : p # o /\ p # r => ops'[p] = ops[p]
        /\ Range(sq') = (Range(sq) \cup {r}) \cup {o}
        /\ \A e \in Range(cq') : e \in Range(cq) /\ e.op # r
    BY <1>6, AcceptEffect, Zenon
  <2>3. ops'[o].type = "OP_ACCEPT" /\ ops'[r].type = "OP_READ"
    BY <2>2 DEF AcceptOp, TypeOK, OpRec
  <2>4. \A p \in Range(sq') \cup kernel' : SendAt(p)'
    BY <2>1, <2>2, <2>3, QueuedBusy DEF SendInv, SendAt
  <2>5. \A e \in Range(cq') : SentBy(e)'
    BY <2>1, <2>2, <2>3, CqMembers DEF SendInv, SentBy
  <2> QED BY <2>1, <2>4, <2>5 DEF SendInv
<1>7. ASSUME NEW r, NEW len, NEW o, NEW b, RespondStep(r, len, o, b) PROVE SendInv'
  <2>1. UNCHANGED <<kernel, cq>>
    BY <1>7 DEF RespondStep, world
  <2>2. /\ cur # Idle /\ r = cur.op /\ cur'.op = r /\ len \in Nat
        /\ r \in OpId /\ o \in OpId /\ o \notin Busy /\ o # r
        /\ ops'[o] = WriteOp(ops[r].client_id, ops[r].client_fd, b, len) /\ sent'[o] = 0
        /\ \A p \in OpId : p # o => /\ ops'[p] = ops[p] /\ sent'[p] = sent[p]
                                   /\ peer'[p] = peer[p]
        /\ Range(sq') = Range(sq) \cup {o}
    BY <1>7, RespondEffect
  <2>3. ops'[o].type = "OP_WRITE" /\ ops'[o].processed = 0 /\ ops'[o].buf_len = len
    BY <2>2 DEF WriteOp
  <2>4. SendAt(o)'
    BY <2>2, <2>3 DEF SendAt
  <2>5. \A p \in Range(sq') \cup kernel' : SendAt(p)'
    BY <2>1, <2>2, <2>4, QueuedBusy DEF SendInv, SendAt
  <2>6. \A e \in Range(cq') : SentBy(e)'
    BY <2>1, <2>2, CqMembers DEF SendInv, SentBy
  <2> QED BY <2>2, <2>5, <2>6 DEF SendInv
<1>8. CASE SendOnStep
  <2>0. PICK o : o = Head(cq).op
    OBVIOUS
  <2>1. /\ Ready /\ Take /\ cur' = cur /\ cur = Idle /\ sq' = Append(sq, o)
        /\ UNCHANGED <<kernel, sent>> /\ ops[o].type = "OP_WRITE" /\ Head(cq).res >= 0
        /\ ops' = [ops EXCEPT ![o].processed = @ + Head(cq).res]
    BY <1>8, <2>0 DEF SendOnStep, Handles, Ready, world, ghost
  <2>2. o \in OpId /\ o \in Busy /\ Head(cq) \in Range(cq) /\ cq # <<>> /\ ops[o] \in OpRec
    BY <2>0, <2>1, HandledBusy DEF TypeOK
  <2>3. /\ ops'[o].processed = ops[o].processed + Head(cq).res
        /\ ops'[o].buf_len = ops[o].buf_len
        /\ \A p \in OpId : p # o => ops'[p] = ops[p]
    BY <2>1, <2>2 DEF TypeOK, OpRec
  <2>4. sent[o] = ops[o].processed + Head(cq).res /\ sent[o] <= ops[o].buf_len
    BY <2>0, <2>1, <2>2 DEF SendInv, SentBy
  <2>5. Range(sq') = Range(sq) \cup {o}
    BY <1>0, <2>1, <2>2, AppendDistinct
  <2>6. SendAt(o)'
    BY <2>1, <2>3, <2>4 DEF SendAt
  <2>7. \A p \in Range(sq') \cup kernel' : SendAt(p)'
    BY <2>1, <2>3, <2>5, <2>6, QueuedBusy DEF SendInv, SendAt
  <2>8. \A e \in Range(cq') : SentBy(e)'
    BY <2>0, <2>1, <2>2, <2>3, TakeMembers, CqMembers DEF SendInv, SentBy
  <2> QED BY <2>1, <2>7, <2>8 DEF SendInv
<1>9. CASE submit_sqe
  <2>1. /\ sq # <<>> /\ sq' = Tail(sq) /\ kernel' = kernel \cup {Head(sq)}
        /\ UNCHANGED <<ops, cq, sent, cur>>
    BY <1>9 DEF submit_sqe, memory, loop, ghost
  <2>2. Head(sq) \in Range(sq) /\ Range(Tail(sq)) \subseteq Range(sq)
    BY <1>0, <2>1, TailDistinct DEF HolderInv
  <2> QED BY <2>1, <2>2 DEF SendInv, SendAt, SentBy
<1>10. CASE Kernel
  <2>1. PICK o \in OpId : \/ KernelAccept(o) \/ KernelRecv(o) \/ KernelEof(o)
                          \/ KernelSend(o) \/ KernelFail(o)
    BY <1>10 DEF Kernel
  <2>2. ASSUME NEW res \in Int, NEW reqs \in Seq(Request), Complete(o, res, reqs),
               o \in kernel, UNCHANGED <<ops, sq, cur>>,
               \A p \in OpId \ {o} : sent'[p] = sent[p],
               ops[o].type = "OP_WRITE" /\ res >= 0 =>
                   sent'[o] = ops[o].processed + res /\ sent'[o] <= ops[o].buf_len
        PROVE  SendInv'
    <3>1. /\ Range(cq') = Range(cq) \cup {[op |-> o, res |-> res, reqs |-> reqs]}
          /\ \A e \in Range(cq) : e.op # o
          /\ kernel' = kernel \ {o}
      BY <2>2, CompleteMembers
    <3>2. o \notin Range(sq)
      BY <2>2, HolderElements
    <3>3. \A p \in Range(sq') \cup kernel' : SendAt(p)'
      BY <2>2, <3>1, <3>2, QueuedBusy DEF SendInv, SendAt
    <3>4. \A e \in Range(cq) : SentBy(e)'
      BY <2>2, <3>1, CqMembers DEF SendInv, SentBy
    <3>5. SentBy([op |-> o, res |-> res, reqs |-> reqs])'
      BY <2>2 DEF SentBy
    <3> QED BY <2>2, <3>1, <3>3, <3>4, <3>5 DEF SendInv
  <2>3. <<>> \in Seq(Request) /\ 0 \in Int /\ -1 \in Int
    OBVIOUS
  <2>4. CASE KernelAccept(o)
    <3>1. PICK fd \in Fd : Complete(o, fd, <<>>)
      BY <2>4 DEF KernelAccept
    <3>2. fd \in Int
      BY ServerAssumption
    <3> QED BY <2>2, <2>3, <2>4, <3>1, <3>2 DEF KernelAccept, Works, memory, loop
  <2>5. CASE KernelRecv(o)
    <3>1. PICK n \in 0..MaxReqs : \E reqs \in [1..n -> Request] : Complete(o, 1, reqs)
      BY <2>5 DEF KernelRecv
    <3>2. PICK reqs \in [1..n -> Request] : Complete(o, 1, reqs)
      BY <3>1
    <3>3. reqs \in Seq(Request)
      BY ServerAssumption
    <3>4. o \in kernel /\ UNCHANGED <<ops, sq, cur, sent>> /\ ops[o].type # "OP_WRITE"
      BY <2>5 DEF KernelRecv, Works, memory, loop, ghost
    <3>5. 1 \in Int
      OBVIOUS
    <3> QED BY <2>2, <3>2, <3>3, <3>4, <3>5, Zenon
  <2>6. CASE KernelEof(o)
    <3>1. Complete(o, 0, <<>>) /\ o \in kernel /\ UNCHANGED <<ops, sq, cur, sent>>
          /\ ops[o].type # "OP_WRITE"
      BY <2>6 DEF KernelEof, Works, memory, loop, ghost
    <3> QED BY <2>2, <2>3, <3>1, Zenon
  <2>7. CASE KernelSend(o)
    <3>1. PICK n \in 0..(ops[o].buf_len - ops[o].processed) :
             /\ sent' = [sent EXCEPT ![o] = @ + n]
             /\ Complete(o, n, <<>>)
      BY <2>7 DEF KernelSend
    <3>2. /\ ops[o].type = "OP_WRITE" /\ o \in kernel /\ UNCHANGED <<ops, sq, cur>>
          /\ ops[o] \in OpRec
      BY <2>7 DEF KernelSend, Works, memory, loop, TypeOK
    <3>3. sent[o] = ops[o].processed /\ ops[o].processed <= ops[o].buf_len
      BY <3>2 DEF SendInv, SendAt
    <3>4. ops[o].buf_len \in Int /\ ops[o].processed \in Int
      BY <3>2 DEF OpRec
    <3>5. n \in Int /\ ops[o].processed + n <= ops[o].buf_len
      BY <3>4
    <3>6. sent'[o] = ops[o].processed + n /\ \A p \in OpId \ {o} : sent'[p] = sent[p]
      BY <3>1, <3>3 DEF TypeOK
    <3> QED BY <2>2, <2>3, <3>1, <3>2, <3>5, <3>6, Zenon
  <2>8. CASE KernelFail(o)
    <3>1. Complete(o, -1, <<>>) /\ o \in kernel /\ UNCHANGED <<ops, sq, cur, sent>>
      BY <2>8 DEF KernelFail, Works, memory, loop, ghost
    <3>2. ~(-1 >= 0)
      OBVIOUS
    <3> QED BY <2>2, <2>3, <3>1, <3>2, Zenon
  <2> QED BY <2>1, <2>4, <2>5, <2>6, <2>7, <2>8
<1> QED BY <1>1, <1>2, <1>3, <1>4, <1>5, <1>6, <1>7, <1>8, <1>9, <1>10, StepShapes

\* At first there is no response.
LEMMA SendInit == Init => SendInv
<1> SUFFICES ASSUME Init PROVE SendInv
  OBVIOUS
<1>1. PICK o \in Offer(OpId), b \in Offer(Buf) :
        /\ ops = [x \in OpId |-> IF x = o THEN AcceptOp(1, b)
                                 ELSE [AcceptOp(1, NoBuf) EXCEPT !.buf_cap = 0]]
        /\ sq = <<o>>
  BY DEF Init
<1>2. o \in OpId /\ cq = <<>> /\ kernel = {} /\ cur = Idle
  BY <1>1, ServerAssumption DEF Init
<1>3. \A x \in OpId : ops[x].type = "OP_ACCEPT"
  BY <1>1 DEF AcceptOp
<1>4. Range(sq) \subseteq OpId
  <2>1. sq \in Seq(OpId)
    BY <1>1, <1>2
  <2> QED BY <2>1, SeqRange, Zenon
<1> QED BY <1>2, <1>3, <1>4, EmptyRange DEF SendInv, SendAt

\* The invariant in the words of SendOffset.
LEMMA SendForm == TypeOK /\ HolderInv /\ SendInv => SendOffset
<1> SUFFICES ASSUME TypeOK, HolderInv, SendInv PROVE SendOffset
  OBVIOUS
<1>1. \A i \in 1..Len(cq) : cq[i] \in Range(cq)
  BY CqMembers, Zenon
<1> QED BY <1>1 DEF SendInv, SendAt, SentBy, SendOffset

\* A response of server.c is resumed exactly where the kernel stopped taking
\* it, whatever Operation object add_send got for it.
THEOREM ServerSendOffset == Spec => []SendOffset
<1>1. Init => TypeOK /\ HolderInv /\ SendInv
  BY InitTypes, HolderInit, SendInit
<1>2. (TypeOK /\ HolderInv /\ SendInv) /\ [Next]_vars => (TypeOK /\ HolderInv /\ SendInv)'
  BY NextTypes, HolderNext, SendNext
<1>3. TypeOK /\ HolderInv /\ SendInv => SendOffset
  BY SendForm
<1> QED BY <1>1, <1>2, <1>3, PTL DEF Spec

\* Giving up the Operation of a response.
FreedComplete ==
    \A o \in OpId :
        (pool[o] = 1 /\ pool'[o] = 0 /\ ops[o].type = "OP_WRITE"
             /\ ops[o].client_id \in DOMAIN clients')
        => sent[o] = ops[o].buf_len

\* A step frees no Operation but the one it calls free_op for.
LEMMA CompleteNext == TypeOK /\ HolderInv /\ SendInv /\ [Next]_vars => FreedComplete
<1> SUFFICES ASSUME TypeOK, HolderInv, SendInv, [Next]_vars,
                    NEW o \in OpId, pool[o] = 1, pool'[o] = 0, ops[o].type = "OP_WRITE",
                    ops[o].client_id \in DOMAIN clients'
             PROVE  sent[o] = ops[o].buf_len
  BY DEF FreedComplete
<1>1. ASSUME NEW p \in OpId, FreeStep(p) PROVE sent[o] = ops[o].buf_len
  <2>1. o = p
    BY <1>1 DEF FreeStep, free_op, Pool!Release, TypeOK
  <2>2. CASE Closes(p)
    BY <2>1, <2>2 DEF Closes, Restrict
  <2>3. CASE UNCHANGED clients /\ ops[p].client_id \notin DOMAIN clients
    BY <2>1, <2>3
  <2>4. CASE Handles("OP_WRITE") /\ p = Head(cq).op /\ ~op_is_incomplete(p, Head(cq).res)
    <3>1. /\ Head(cq) \in Range(cq) /\ Head(cq).res >= 0 /\ Head(cq).res \in Int
      BY <2>4, HandledBusy DEF Handles
    <3>2. sent[o] = ops[o].processed + Head(cq).res /\ sent[o] <= ops[o].buf_len
      BY <2>1, <2>4, <3>1 DEF SendInv, SentBy
    <3>3. ops[o].processed \in Int /\ ops[o].buf_len \in Int
      BY DEF TypeOK, OpRec
    <3>4. ~(Head(cq).res < ops[o].buf_len - ops[o].processed)
      BY <2>1, <2>4 DEF op_is_incomplete
    <3> QED BY <3>1, <3>2, <3>3, <3>4
  <2> QED BY <1>1, <2>2, <2>3, <2>4 DEF FreeStep
<1>2. CASE FreeCompleted
  BY <1>1, <1>2, HandledBusy DEF FreeCompleted
<1>3. CASE FreeParsed
  BY <1>1, <1>3, HandledBusy DEF FreeParsed
<1>4. CASE ~FreeCompleted /\ ~FreeParsed
  <2>1. CASE QuietStep \/ ParseStep \/ ReadOnStep \/ submit_sqe
    BY <2>1 DEF QuietStep, ParseStep, ReadOnStep, submit_sqe, memory
  <2>2. ASSUME NEW r, NEW fd, NEW n, NEW b, AcceptStep(r, fd, n, b) PROVE FALSE
    BY <2>2, OffersFree DEF AcceptStep, Pool!Acquire, TypeOK
  <2>3. ASSUME NEW r, NEW len, NEW n, NEW b, RespondStep(r, len, n, b) PROVE FALSE
    BY <2>3, OffersFree DEF RespondStep, Pool!Acquire, TypeOK
  <2>4. CASE SendOnStep
    BY <2>4 DEF SendOnStep
  <2>5. CASE Kernel
    BY <2>5 DEF Kernel, KernelAccept, KernelRecv, KernelEof, KernelSend, KernelFail, memory
  <2> QED BY <1>4, <2>1, <2>2, <2>3, <2>4, <2>5, StepShapes
<1> QED BY <1>2, <1>3, <1>4

\* handle_send gives up the Operation of a response only when the kernel took
\* all of it, unless the client is dropped.
THEOREM ServerResponseComplete == Spec => ResponseComplete
<1>1. Init => TypeOK /\ HolderInv /\ SendInv
  BY InitTypes, HolderInit, SendInit
<1>2. (TypeOK /\ HolderInv /\ SendInv) /\ [Next]_vars => (TypeOK /\ HolderInv /\ SendInv)'
  BY NextTypes, HolderNext, SendNext
<1>3. (TypeOK /\ HolderInv /\ SendInv) /\ [Next]_vars => [FreedComplete]_vars
  BY CompleteNext
<1>4. Spec => [][FreedComplete]_vars
  BY <1>1, <1>2, <1>3, PTL DEF Spec
<1> QED BY <1>4 DEF ResponseComplete, FreedComplete
-----------------------------------------------------------------------------
(* Clients, readers and sockets.  The four properties only carry each      *)
(* other through a step together with what is true of the Operation that   *)
(* waits for the next client: it is the only one, no other Operation has   *)
(* its client, and a descriptor it was handed is nobody else's yet.        *)

Accepts(o) == ops[o].type = "OP_ACCEPT"

\* Client ids are never used again: next_client_id is above all of them.
IdsBelow ==
    /\ \A o \in Busy : ops[o].client_id < next_client_id
    /\ \A id \in DOMAIN clients : id < next_client_id

\* The accept is alone, and its client has no descriptor.
AcceptAlone ==
    \A o \in Busy : Accepts(o) =>
        /\ ops[o].client_id \in DOMAIN clients
        /\ clients[ops[o].client_id].client_fd = NoFd
        /\ ops[o].client_fd = NoFd
        /\ \A p \in Busy : Accepts(p) \/ ops[p].client_id = ops[o].client_id => p = o

\* No two clients in the map have the same descriptor.
FdsApart ==
    \A i, j \in DOMAIN clients :
        clients[i].client_fd = clients[j].client_fd /\ clients[i].client_fd # NoFd => i = j

\* A connection that was accepted and not handled yet is open on a descriptor
\* of its own.
AcceptedFd ==
    \A e \in Range(cq) : Accepts(e.op) /\ e.res >= 0 =>
        /\ e.res \in Fd /\ files[e.res] = peer[e.op] /\ peer[e.op] # NoConn
        /\ \A id \in DOMAIN clients : clients[id].client_fd # e.res

\* NoOrphanSocket, with the completions as a set.
Owned ==
    \A fd \in Fd : files[fd] # NoConn =>
        \/ \E id \in DOMAIN clients : clients[id].client_fd = fd
        \/ \E e \in Range(cq) : Accepts(e.op) /\ e.res = fd

ClientInv ==
    /\ IdsBelow /\ AcceptAlone /\ OneReader /\ ClientSockets
    /\ FdsApart /\ AcceptedFd /\ Owned

\* A client in the map has no descriptor yet, or an open one; that of the
\* accept is not open.
LEMMA ClientFds ==
    ASSUME TypeOK, ClientInv
    PROVE  /\ NoFd \notin Fd
           /\ \A id \in DOMAIN clients : clients[id].client_fd = NoFd \/ Open(clients[id].client_fd)
           /\ \A o \in Busy : Open(ops[o].client_fd) => ~Accepts(o)
<1>1. NoFd \notin Fd
  BY ServerAssumption DEF NoFd
<1>2. \A o \in Busy : Open(ops[o].client_fd) => ~Accepts(o)
  BY <1>1 DEF ClientInv, AcceptAlone, Open
<1>3. ASSUME NEW id \in DOMAIN clients
      PROVE  clients[id].client_fd = NoFd \/ Open(clients[id].client_fd)
  <2>1. PICK o \in Busy : ops[o].client_id = id /\ ops[o].type # "OP_WRITE"
    BY DEF ClientInv, OneReader
  <2>2. CASE Accepts(o)
    BY <2>1, <2>2 DEF ClientInv, AcceptAlone
  <2>3. CASE ~Accepts(o)
    BY <2>1, <2>3 DEF ClientInv, ClientSockets, Accepts
  <2> QED BY <2>2, <2>3
<1> QED BY <1>1, <1>2, <1>3

\* Steps that move Operations between the holders and nothing else.
LEMMA ClientsKept ==
    ASSUME TypeOK, ClientInv, UNCHANGED <<pool, clients, next_client_id, files, peer>>,
           \A o \in Busy : /\ ops'[o].type = ops[o].type /\ ops'[o].client_id = ops[o].client_id
                           /\ ops'[o].client_fd = ops[o].client_fd,
           \A e \in Range(cq') : Accepts(e.op) => e \in Range(cq) \/ e.res < 0,
           \A e \in Range(cq') : e.op \in Busy /\ e.res \in Int,
           \A e \in Range(cq) : e.op \in Busy,
           \A e \in Range(cq) : Accepts(e.op) => e \in Range(cq')
    PROVE  ClientInv'
<1>1. Busy' = Busy
  BY DEF Busy
<1>2. \A o \in Busy : Accepts(o)' <=> Accepts(o)
  BY DEF Accepts
<1>3. IdsBelow' /\ AcceptAlone'
  BY <1>1, <1>2 DEF ClientInv, IdsBelow, AcceptAlone
<1>4. OneReader'
  BY <1>1 DEF ClientInv, OneReader
<1>5. ClientSockets' /\ FdsApart'
  BY <1>1 DEF ClientInv, ClientSockets, FdsApart, Open
<1>6. AcceptedFd'
  <2> SUFFICES ASSUME NEW e \in Range(cq'), Accepts(e.op)', e.res >= 0
               PROVE  /\ e.res \in Fd /\ files[e.res] = peer[e.op] /\ peer[e.op] # NoConn
                      /\ \A id \in DOMAIN clients : clients[id].client_fd # e.res
    BY DEF AcceptedFd
  <2>1. Accepts(e.op) /\ e.res \in Int
    BY <1>2
  <2>2. e \in Range(cq)
    BY <2>1
  <2> QED BY <2>1, <2>2 DEF ClientInv, AcceptedFd
<1>7. Owned'
  BY <1>2 DEF ClientInv, Owned
<1> QED BY <1>3, <1>4, <1>5, <1>6, <1>7 DEF ClientInv

\* An Operation is freed.
LEMMA ClientsFreed ==
    ASSUME TypeOK, HolderInv, ClientInv, NEW o \in Busy, FreeStep(o),
           \A e \in Range(cq') : e \in Range(cq) /\ e.op # o,
           \A e \in Range(cq) : e.op # o => e \in Range(cq')
    PROVE  ClientInv'
<1>0. o \in OpId /\ Busy \subseteq OpId
  BY DEF Busy
<1>1. /\ Busy' = Busy \ {o} /\ next_client_id' = next_client_id
      /\ \A p \in OpId : p # o => ops'[p] = ops[p] /\ peer'[p] = peer[p]
  BY <1>0, FreeEffect DEF FreeStep, Forget, TypeOK
<1>2. \A e \in Range(cq) : e.op \in OpId /\ e.op \in Busy
  BY CqMembers
<1>3. ASSUME UNCHANGED <<clients, files>>, ~Accepts(o),
             ops[o].client_id \notin DOMAIN clients \/ ops[o].type = "OP_WRITE"
      PROVE  ClientInv'
  <2>1. IdsBelow' /\ AcceptAlone'
    BY <1>0, <1>1, <1>3 DEF ClientInv, IdsBelow, AcceptAlone, Accepts
  <2>2. OneReader'
    BY <1>0, <1>1, <1>3 DEF ClientInv, OneReader, Accepts
  <2>3. ClientSockets' /\ FdsApart'
    BY <1>0, <1>1, <1>3 DEF ClientInv, ClientSockets, FdsApart, Open
  <2>4. AcceptedFd' /\ Owned'
    BY <1>1, <1>2, <1>3 DEF ClientInv, AcceptedFd, Owned, Accepts
  <2> QED BY <2>1, <2>2, <2>3, <2>4 DEF ClientInv
<1>4. CASE Closes(o)
  <2>0. PICK id, fd : id = ops[o].client_id /\ fd = ops[o].client_fd
    OBVIOUS
  <2>1. /\ id \in DOMAIN clients /\ fd \in Fd /\ clients[id].client_fd = fd /\ ~Accepts(o)
        /\ DOMAIN clients' = DOMAIN clients \ {id}
        /\ \A i \in DOMAIN clients : i # id => clients'[i] = clients[i]
        /\ files' = [files EXCEPT ![fd] = NoConn]
    <3>1. Open(fd) /\ id \in DOMAIN clients /\ files' = [files EXCEPT ![fd] = NoConn]
          /\ clients' = Restrict(clients, DOMAIN clients \ {id})
      BY <1>4, <2>0 DEF Closes
    <3>2. ~Accepts(o)
      BY <2>0, <3>1, ClientFds
    <3>3. clients[id].client_fd = fd
      BY <2>0, <3>1, <3>2 DEF ClientInv, ClientSockets, Accepts
    <3> QED BY <3>1, <3>2, <3>3 DEF Restrict, Open
  <2>2. \A f \in Fd : f # fd => files'[f] = files[f]
    BY <2>1 DEF TypeOK
  <2>3. files'[fd] = NoConn
    BY <2>1 DEF TypeOK
  <2>4. \A i \in DOMAIN clients' : clients[i].client_fd # fd
    BY <2>1, ClientFds DEF ClientInv, FdsApart
  <2>5. IdsBelow'
    BY <1>0, <1>1, <2>1 DEF ClientInv, IdsBelow
  <2>6. AcceptAlone'
    BY <1>0, <1>1, <2>0, <2>1 DEF ClientInv, AcceptAlone, Accepts
  <2>7. OneReader'
    <3>1. \A i \in DOMAIN clients' : \E p \in Busy' :
              ops'[p].client_id = i /\ ops'[p].type # "OP_WRITE"
      BY <1>0, <1>1, <2>0, <2>1 DEF ClientInv, OneReader
    <3>2. \A p, q \in Busy' :
              /\ ops'[p].type # "OP_WRITE" /\ ops'[q].type # "OP_WRITE"
              /\ ops'[p].client_id = ops'[q].client_id
              => p = q
      BY <1>0, <1>1 DEF ClientInv, OneReader
    <3>3. PICK p \in Busy : Accepts(p)
      BY DEF ClientInv, OneReader, Accepts
    <3>4. p # o /\ ops[p].client_id # id /\ ops[p].client_id \in DOMAIN clients
      BY <2>0, <2>1, <3>3 DEF ClientInv, AcceptAlone
    <3>5. p \in Busy' /\ ops'[p].type = "OP_ACCEPT" /\ ops'[p].client_id \in DOMAIN clients'
      BY <1>0, <1>1, <2>1, <3>3, <3>4 DEF Accepts
    <3> QED BY <3>1, <3>2, <3>5 DEF OneReader
  <2>8. ClientSockets'
    <3> SUFFICES ASSUME NEW p \in Busy', ops'[p].type # "OP_ACCEPT",
                        ops'[p].client_id \in DOMAIN clients'
                 PROVE  /\ ops'[p].client_fd = clients'[ops'[p].client_id].client_fd
                        /\ Open(ops[p].client_fd)'
                        /\ files'[ops'[p].client_fd] = peer'[p]
      BY DEF ClientSockets
    <3>1. p \in Busy /\ p # o /\ ops'[p] = ops[p] /\ peer'[p] = peer[p]
      BY <1>0, <1>1
    <3>2. ops[p].client_id \in DOMAIN clients /\ ops[p].client_id # id
      BY <2>1, <3>1
    <3>3. /\ ops[p].client_fd = clients[ops[p].client_id].client_fd
          /\ Open(ops[p].client_fd)
          /\ files[ops[p].client_fd] = peer[p]
      BY <3>1, <3>2 DEF ClientInv, ClientSockets
    <3>4. ops[p].client_fd # fd
      BY <2>4, <3>1, <3>3
    <3> QED BY <2>1, <2>2, <3>1, <3>2, <3>3, <3>4 DEF Open
  <2>9. FdsApart'
    BY <2>1 DEF ClientInv, FdsApart
  <2>10. AcceptedFd'
    <3> SUFFICES ASSUME NEW e \in Range(cq'), Accepts(e.op)', e.res >= 0
                 PROVE  /\ e.res \in Fd /\ files'[e.res] = peer'[e.op] /\ peer'[e.op] # NoConn
                        /\ \A i \in DOMAIN clients' : clients'[i].client_fd # e.res
      BY DEF AcceptedFd
    <3>1. e \in Range(cq) /\ ops'[e.op] = ops[e.op] /\ peer'[e.op] = peer[e.op]
      BY <1>1, <1>2
    <3>2. /\ e.res \in Fd /\ files[e.res] = peer[e.op] /\ peer[e.op] # NoConn
          /\ \A i \in DOMAIN clients : clients[i].client_fd # e.res
      BY <3>1 DEF ClientInv, AcceptedFd, Accepts
    <3> QED BY <2>1, <2>2, <3>1, <3>2
  <2>11. Owned'
    <3> SUFFICES ASSUME NEW f \in Fd, files'[f] # NoConn
                 PROVE  \/ \E i \in DOMAIN clients' : clients'[i].client_fd = f
                        \/ \E e \in Range(cq') : Accepts(e.op)' /\ e.res = f
      BY DEF Owned
    <3>1. f # fd /\ files[f] # NoConn
      BY <2>2, <2>3
    <3>2. CASE \E i \in DOMAIN clients : clients[i].client_fd = f
      BY <2>1, <3>1, <3>2
    <3>3. CASE \E e \in Range(cq) : Accepts(e.op) /\ e.res = f
      BY <1>1, <1>2, <2>1, <3>3 DEF Accepts
    <3> QED BY <3>1, <3>2, <3>3 DEF ClientInv, Owned
  <2> QED BY <2>5, <2>6, <2>7, <2>8, <2>9, <2>10, <2>11 DEF ClientInv
<1>5. CASE UNCHANGED <<clients, files>> /\ ops[o].client_id \notin DOMAIN clients
  BY <1>3, <1>5 DEF ClientInv, AcceptAlone
<1>6. CASE UNCHANGED <<clients, files>> /\ Handles("OP_WRITE") /\ o = Head(cq).op
  BY <1>3, <1>6 DEF Handles, Accepts
<1> QED BY <1>4, <1>5, <1>6 DEF FreeStep

\* handle_accept: the waiting client gets its descriptor, and a new one waits.
LEMMA ClientsAccepted ==
    ASSUME TypeOK, HolderInv, ClientInv, NEW r, NEW fd, NEW o, NEW b, AcceptStep(r, fd, o, b)
    PROVE  ClientInv'
<1>0. Busy \subseteq OpId
  BY DEF Busy
<1>1. /\ Head(cq) \in Range(cq) /\ r = Head(cq).op /\ fd = Head(cq).res
      /\ Head(cq).res >= 0 /\ r \in OpId /\ r \in Busy /\ ops[r].type = "OP_ACCEPT"
      /\ o \in OpId /\ o \notin Busy /\ o # r /\ b \in Buf
      /\ Busy' = Busy \cup {o}
      /\ \A p \in OpId : p # o /\ p # r => ops'[p] = ops[p]
      /\ \A e \in Range(cq') : e \in Range(cq) /\ e.op # r
      /\ \A e \in Range(cq) : e.op # r => e \in Range(cq')
  <2>1. /\ Head(cq) \in Range(cq) /\ r = Head(cq).op /\ fd = Head(cq).res
        /\ Head(cq).res >= 0
    BY AcceptEffect, Zenon
  <2>2. /\ r \in OpId /\ r \in Busy /\ ops[r].type = "OP_ACCEPT"
        /\ o \in OpId /\ o \notin Busy /\ o # r /\ b \in Buf
        /\ Busy' = Busy \cup {o}
    BY AcceptEffect, Zenon
  <2>3. \A p \in OpId : p # o /\ p # r => ops'[p] = ops[p]
    BY AcceptEffect, Zenon
  <2>4. /\ \A e \in Range(cq') : e \in Range(cq) /\ e.op # r
        /\ \A e \in Range(cq) : e.op # r => e \in Range(cq')
    BY AcceptEffect, Zenon
  <2> QED BY <2>1, <2>2, <2>3, <2>4
<1>2. /\ next_client_id' = next_client_id + 1 /\ next_client_id \in Nat
      /\ UNCHANGED <<files, peer>>
  BY DEF AcceptStep, world, ghost, TypeOK
<1>3. PICK id : id = ops[r].client_id
  OBVIOUS
<1>4. /\ ops'[r].type = "OP_READ" /\ ops'[r].client_id = id /\ ops'[r].client_fd = fd
      /\ ops'[o].type = "OP_ACCEPT" /\ ops'[o].client_id = next_client_id
      /\ ops'[o].client_fd = NoFd
  <2>1. /\ ops'[r] = [ops[r] EXCEPT !.client_fd = fd, !.type = "OP_READ"]
        /\ ops'[o] = AcceptOp(next_client_id, b)
    BY AcceptEffect, Zenon
  <2>2. ops[r] \in OpRec
    BY <1>1 DEF TypeOK
  <2> QED BY <1>3, <2>1, <2>2 DEF OpRec, AcceptOp
<1>5. /\ id \in DOMAIN clients /\ clients[id].client_fd = NoFd
      /\ \A p \in Busy : Accepts(p) \/ ops[p].client_id = id => p = r
  BY <1>1, <1>3 DEF ClientInv, AcceptAlone, Accepts
<1>6. /\ fd \in Fd /\ files[fd] = peer[r] /\ peer[r] # NoConn
      /\ \A i \in DOMAIN clients : clients[i].client_fd # fd
  BY <1>1 DEF ClientInv, AcceptedFd, Accepts
<1>7. /\ \A i \in DOMAIN clients : i \in Nat /\ i < next_client_id
      /\ \A p \in Busy : ops[p].client_id \in Nat /\ ops[p].client_id < next_client_id
  <2>1. \A p \in OpId : ops[p].client_id \in Nat
    BY DEF TypeOK, OpRec
  <2>2. \A i \in DOMAIN clients : i \in Nat
    BY DEF TypeOK
  <2> QED BY <1>0, <2>1, <2>2 DEF ClientInv, IdsBelow
<1>8. next_client_id \notin DOMAIN clients /\ id # next_client_id
  BY <1>2, <1>5, <1>7
<1>9. /\ DOMAIN clients' = DOMAIN clients \cup {next_client_id}
      /\ clients'[next_client_id].client_fd = NoFd
      /\ clients'[id].client_fd = fd
      /\ \A i \in DOMAIN clients : i # id => clients'[i] = clients[i]
  <2>1. clients[id] \in ClientInfo
    BY <1>5 DEF TypeOK
  <2>2. clients' = [i \in DOMAIN clients \cup {next_client_id} |->
           IF i = next_client_id THEN NewClient
           ELSE IF i = id THEN [clients[i] EXCEPT !.client_fd = fd]
           ELSE clients[i]]
    BY <1>3 DEF AcceptStep
  <2> QED BY <1>5, <1>8, <2>1, <2>2 DEF NewClient, ClientInfo
<1>10. fd # NoFd /\ NoFd \notin Fd
  BY <1>6, ClientFds
<1>11. \A p \in Busy' : /\ ops'[p].type = "OP_ACCEPT" => p = o
                        /\ ops'[p].client_id = next_client_id => p = o
  <2> SUFFICES ASSUME NEW p \in Busy', p # o
               PROVE  ops'[p].type # "OP_ACCEPT" /\ ops'[p].client_id # next_client_id
    OBVIOUS
  <2>1. CASE p = r
    BY <1>4, <1>8, <2>1
  <2>2. CASE p # r
    <3>1. p \in Busy /\ p \in OpId /\ ops'[p] = ops[p]
      BY <1>0, <1>1, <2>2
    <3>2. ~Accepts(p) /\ ops[p].client_id < next_client_id /\ ops[p].client_id \in Nat
      BY <1>5, <1>7, <2>2, <3>1
    <3> QED BY <1>2, <3>1, <3>2 DEF Accepts
  <2> QED BY <2>1, <2>2
<1>12. IdsBelow'
  <2>1. ASSUME NEW p \in Busy' PROVE ops'[p].client_id < next_client_id'
    <3>1. CASE p = o
      BY <1>2, <1>4, <3>1
    <3>2. CASE p \in Busy
      <4>1. ops'[p].client_id = ops[p].client_id
        BY <1>0, <1>1, <1>3, <1>4, <3>2
      <4> QED BY <1>2, <1>7, <3>2, <4>1
    <3> QED BY <1>1, <3>1, <3>2
  <2>2. \A i \in DOMAIN clients' : i < next_client_id'
    BY <1>2, <1>7, <1>9
  <2> QED BY <2>1, <2>2 DEF IdsBelow
<1>13. AcceptAlone'
  BY <1>4, <1>9, <1>11 DEF AcceptAlone, Accepts
<1>14. OneReader'
  <2>1. ASSUME NEW i \in DOMAIN clients'
        PROVE  \E p \in Busy' : ops'[p].client_id = i /\ ops'[p].type # "OP_WRITE"
    <3>1. CASE i = next_client_id
      BY <1>1, <1>4, <3>1
    <3>2. CASE i \in DOMAIN clients
      <4>1. PICK p \in Busy : ops[p].client_id = i /\ ops[p].type # "OP_WRITE"
        BY <3>2 DEF ClientInv, OneReader
      <4>2. ops'[p].client_id = i /\ ops'[p].type # "OP_WRITE"
        BY <1>0, <1>1, <1>3, <1>4, <4>1
      <4> QED BY <1>1, <4>2
    <3> QED BY <1>9, <3>1, <3>2
  <2>2. ASSUME NEW p \in Busy', NEW q \in Busy', ops'[p].type # "OP_WRITE",
               ops'[q].type # "OP_WRITE", ops'[p].client_id = ops'[q].client_id
        PROVE  p = q
    <3>1. CASE p = o \/ q = o
      BY <1>4, <1>11, <2>2, <3>1
    <3>2. CASE p \in Busy /\ q \in Busy
      <4>1. /\ ops[p].type # "OP_WRITE" /\ ops[p].client_id = ops'[p].client_id
            /\ ops[q].type # "OP_WRITE" /\ ops[q].client_id = ops'[q].client_id
        BY <1>0, <1>1, <1>3, <1>4, <2>2, <3>2
      <4> QED BY <2>2, <3>2, <4>1 DEF ClientInv, OneReader
    <3> QED BY <1>1, <3>1, <3>2
  <2> QED BY <1>1, <1>4, <1>9, <2>1, <2>2 DEF OneReader
<1>15. ClientSockets'
  <2> SUFFICES ASSUME NEW p \in Busy', ops'[p].type # "OP_ACCEPT",
                      ops'[p].client_id \in DOMAIN clients'
               PROVE  /\ ops'[p].client_fd = clients'[ops'[p].client_id].client_fd
                      /\ Open(ops[p].client_fd)'
                      /\ files'[ops'[p].client_fd] = peer'[p]
    BY DEF ClientSockets
  <2>1. CASE p = r
    BY <1>2, <1>4, <1>6, <1>9, <2>1 DEF Open
  <2>2. CASE p # r
    <3>1. p \in Busy /\ ops'[p] = ops[p] /\ ops[p].client_id \in DOMAIN clients
      BY <1>0, <1>1, <1>4, <1>7, <1>9, <2>2
    <3>2. ops[p].client_id # id
      BY <1>5, <2>2, <3>1
    <3>3. /\ ops[p].client_fd = clients[ops[p].client_id].client_fd
          /\ Open(ops[p].client_fd)
          /\ files[ops[p].client_fd] = peer[p]
      BY <3>1 DEF ClientInv, ClientSockets
    <3> QED BY <1>2, <1>9, <3>1, <3>2, <3>3 DEF Open
  <2> QED BY <2>1, <2>2
<1>16. FdsApart'
  <2> SUFFICES ASSUME NEW i \in DOMAIN clients', NEW j \in DOMAIN clients',
                      clients'[i].client_fd = clients'[j].client_fd,
                      clients'[i].client_fd # NoFd
               PROVE  i = j
    BY DEF FdsApart
  <2>1. i \in DOMAIN clients /\ j \in DOMAIN clients
    BY <1>9
  <2> QED BY <1>6, <1>9, <2>1 DEF ClientInv, FdsApart
<1>17. AcceptedFd'
  <2>1. \A e \in Range(cq') : e.op \in Busy /\ ops'[e.op].type # "OP_ACCEPT"
    BY <1>1, <1>11, CqMembers
  <2> QED BY <2>1 DEF AcceptedFd, Accepts
<1>18. Owned'
  <2> SUFFICES ASSUME NEW f \in Fd, files'[f] # NoConn
               PROVE  \E i \in DOMAIN clients' : clients'[i].client_fd = f
    BY DEF Owned
  <2>1. CASE \E i \in DOMAIN clients : clients[i].client_fd = f
    BY <1>5, <1>9, <1>10, <2>1
  <2>2. CASE \E e \in Range(cq) : Accepts(e.op) /\ e.res = f
    <3>1. PICK e \in Range(cq) : Accepts(e.op) /\ e.res = f
      BY <2>2
    <3>2. e.op = r
      BY <1>5, <3>1, CqMembers
    <3>3. e = Head(cq)
      BY <1>1, <3>2, CqMembers
    <3> QED BY <1>1, <1>5, <1>9, <3>1, <3>3
  <2> QED BY <1>2, <2>1, <2>2 DEF ClientInv, Owned
<1> QED BY <1>12, <1>13, <1>14, <1>15, <1>16, <1>17, <1>18 DEF ClientInv

\* A response is for the client of the receive, on the same descriptor.
LEMMA ClientsAnswered ==
    ASSUME TypeOK, HolderInv, SendInv, ClientInv,
           NEW r, NEW len, NEW o, NEW b, RespondStep(r, len, o, b)
    PROVE  ClientInv'
<1>0. Busy \subseteq OpId
  BY DEF Busy
<1>1. /\ cur # Idle /\ r = cur.op /\ r \in OpId /\ r \in Busy
      /\ o \in OpId /\ o \notin Busy /\ o # r /\ b \in Buf
      /\ Busy' = Busy \cup {o}
      /\ ops'[o] = WriteOp(ops[r].client_id, ops[r].client_fd, b, len)
      /\ peer'[o] = peer[r]
      /\ \A p \in OpId : p # o => /\ ops'[p] = ops[p] /\ sent'[p] = sent[p]
                                 /\ peer'[p] = peer[p]
  BY RespondEffect
<1>2. ops[r].type = "OP_READ"
  BY <1>1 DEF SendInv
<1>3. /\ ops'[o].type = "OP_WRITE" /\ ops'[o].client_id = ops[r].client_id
      /\ ops'[o].client_fd = ops[r].client_fd
  BY <1>1 DEF WriteOp
<1>4. UNCHANGED <<next_client_id, cq, files>>
  BY DEF RespondStep, world
<1>5. /\ DOMAIN clients' = DOMAIN clients
      /\ \A i \in DOMAIN clients : clients'[i].client_fd = clients[i].client_fd
  <2>1. \A i \in DOMAIN clients : clients[i] \in ClientInfo
    BY DEF TypeOK
  <2>2. clients' \in {clients, [clients EXCEPT ![ops[r].client_id].named = TRUE]}
    BY DEF RespondStep
  <2> QED BY <2>1, <2>2 DEF ClientInfo
<1>6. \A e \in Range(cq) : e.op \in OpId /\ e.op \in Busy
  BY CqMembers
<1>7. IdsBelow' /\ AcceptAlone'
  <2>1. \A p \in Busy : Accepts(p) => ops[p].client_id # ops[r].client_id
    BY <1>1, <1>2 DEF ClientInv, AcceptAlone, Accepts
  <2>2. IdsBelow'
    BY <1>0, <1>1, <1>3, <1>4, <1>5 DEF ClientInv, IdsBelow
  <2>3. AcceptAlone'
    BY <1>0, <1>1, <1>3, <1>5, <2>1 DEF ClientInv, AcceptAlone, Accepts
  <2> QED BY <2>2, <2>3
<1>8. OneReader'
  BY <1>0, <1>1, <1>3, <1>5 DEF ClientInv, OneReader
<1>9. ClientSockets'
  <2> SUFFICES ASSUME NEW p \in Busy', ops'[p].type # "OP_ACCEPT",
                      ops'[p].client_id \in DOMAIN clients'
               PROVE  /\ ops'[p].client_fd = clients'[ops'[p].client_id].client_fd
                      /\ Open(ops[p].client_fd)'
                      /\ files'[ops'[p].client_fd] = peer'[p]
    BY DEF ClientSockets
  <2>1. PICK q \in Busy : /\ ops[q].type # "OP_ACCEPT" /\ ops[q].client_id = ops'[p].client_id
                          /\ ops[q].client_fd = ops'[p].client_fd /\ peer[q] = peer'[p]
    BY <1>0, <1>1, <1>2, <1>3
  <2>2. /\ ops[q].client_fd = clients[ops[q].client_id].client_fd
        /\ Open(ops[q].client_fd)
        /\ files[ops[q].client_fd] = peer[q]
    BY <1>5, <2>1 DEF ClientInv, ClientSockets
  <2> QED BY <1>4, <1>5, <2>1, <2>2 DEF Open
<1>10. FdsApart'
  BY <1>5 DEF ClientInv, FdsApart
<1>11. AcceptedFd' /\ Owned'
  BY <1>1, <1>4, <1>5, <1>6 DEF ClientInv, AcceptedFd, Owned, Accepts
<1> QED BY <1>7, <1>8, <1>9, <1>10, <1>11 DEF ClientInv

\* The kernel accepts a connection on a descriptor nobody has.
LEMMA ClientsConnected ==
    ASSUME TypeOK, HolderInv, ClientInv, NEW o \in OpId, KernelAccept(o)
    PROVE  ClientInv'
<1>0. Busy \subseteq OpId
  BY DEF Busy
<1>1. PICK c \in fresh, fd \in Fd :
           /\ ~Open(fd)
           /\ files' = [files EXCEPT ![fd] = c]
           /\ peer' = [peer EXCEPT ![o] = c]
           /\ Complete(o, fd, <<>>)
  BY DEF KernelAccept
<1>2. /\ o \in kernel /\ ops[o].type = "OP_ACCEPT"
      /\ UNCHANGED <<pool, ops, clients, next_client_id>>
  BY DEF KernelAccept, Works, memory
<1>3. Busy' = Busy
  BY <1>2 DEF Busy
<1>4. c # NoConn /\ fd \in Int /\ <<>> \in Seq(Request)
  BY ServerAssumption DEF TypeOK
<1>5. /\ Range(cq') = Range(cq) \cup {[op |-> o, res |-> fd, reqs |-> <<>>]}
      /\ \A e \in Range(cq) : e.op # o
      /\ o \in Busy
  BY <1>1, <1>2, <1>4, CompleteMembers
<1>6. /\ files'[fd] = c /\ peer'[o] = c
      /\ \A f \in Fd : f # fd => files'[f] = files[f]
      /\ \A p \in OpId : p # o => peer'[p] = peer[p]
  BY <1>1 DEF TypeOK
<1>7. \A p \in Busy : Accepts(p) => p = o
  BY <1>2, <1>5 DEF ClientInv, AcceptAlone, Accepts
<1>8. \A id \in DOMAIN clients : clients[id].client_fd # fd
  BY <1>1, ClientFds
<1>9. IdsBelow' /\ AcceptAlone' /\ OneReader' /\ FdsApart'
  BY <1>2, <1>3 DEF ClientInv, IdsBelow, AcceptAlone, OneReader, FdsApart, Accepts
<1>10. ClientSockets'
  BY <1>0, <1>1, <1>2, <1>3, <1>6 DEF ClientInv, ClientSockets, Open
<1>11. AcceptedFd'
  <2> SUFFICES ASSUME NEW e \in Range(cq'), Accepts(e.op)'
               PROVE  /\ e.res \in Fd /\ files'[e.res] = peer'[e.op] /\ peer'[e.op] # NoConn
                      /\ \A id \in DOMAIN clients' : clients'[id].client_fd # e.res
    BY DEF AcceptedFd
  <2>1. CASE e \in Range(cq)
    BY <1>2, <1>5, <1>7, <2>1, CqMembers DEF Accepts
  <2>2. CASE e = [op |-> o, res |-> fd, reqs |-> <<>>]
    BY <1>2, <1>4, <1>6, <1>8, <2>2
  <2> QED BY <1>5, <2>1, <2>2
<1>12. Owned'
  <2> SUFFICES ASSUME NEW f \in Fd, files'[f] # NoConn
               PROVE  \/ \E i \in DOMAIN clients' : clients'[i].client_fd = f
                      \/ \E e \in Range(cq') : Accepts(e.op)' /\ e.res = f
    BY DEF Owned
  <2>1. CASE f = fd
    <3>1. PICK e : e = [op |-> o, res |-> fd, reqs |-> <<>>]
      OBVIOUS
    <3>2. e \in Range(cq') /\ e.op = o /\ e.res = fd
      BY <1>5, <3>1
    <3> QED BY <1>2, <2>1, <3>2 DEF Accepts
  <2>2. CASE f # fd
    <3>1. Range(cq) \subseteq Range(cq')
      BY <1>5
    <3> QED BY <1>2, <1>6, <2>2, <3>1 DEF ClientInv, Owned, Accepts
  <2> QED BY <2>1, <2>2
<1> QED BY <1>9, <1>10, <1>11, <1>12 DEF ClientInv

\* Every step keeps clients, readers and sockets together.
LEMMA ClientNext == TypeOK /\ HolderInv /\ SendInv /\ ClientInv /\ [Next]_vars => ClientInv'
<1> SUFFICES ASSUME TypeOK, HolderInv, SendInv, ClientInv, [Next]_vars PROVE ClientInv'
  OBVIOUS
<1>0. /\ \A e \in Range(cq) : e.op \in Busy /\ e.res \in Int
      /\ \A e, f \in Range(cq) : e.op = f.op => e = f
  BY CqMembers
<1>1. ASSUME UNCHANGED <<memory, files, peer, cq>> PROVE ClientInv'
  BY <1>0, <1>1, ClientsKept DEF memory
<1>2. CASE QuietStep \/ ReadOnStep \/ submit_sqe
  BY <1>1, <1>2 DEF QuietStep, ReadOnStep, submit_sqe, world, ghost
<1>3. CASE FreeCompleted
  <2>1. Ready /\ Take /\ FreeStep(Head(cq).op)
    BY <1>3 DEF FreeCompleted
  <2>2. Head(cq) \in Range(cq) /\ Head(cq).op \in Busy /\ cq # <<>>
    BY <2>1, HandledBusy
  <2>3. /\ \A e \in Range(cq') : e \in Range(cq) /\ e.op # Head(cq).op
        /\ \A e \in Range(cq) : e.op # Head(cq).op => e \in Range(cq')
    BY <2>1, <2>2, TakeMembers
  <2> QED BY <2>1, <2>2, <2>3, ClientsFreed
<1>4. CASE FreeParsed
  <2>1. cur # Idle /\ FreeStep(cur.op) /\ cq' = cq
    BY <1>4 DEF FreeParsed
  <2> QED BY <2>1, HandledBusy, QueuedBusy, ClientsFreed
<1>5. CASE ParseStep \/ SendOnStep
  <2>1. /\ Ready /\ Take /\ ops[Head(cq).op].type # "OP_ACCEPT"
        /\ UNCHANGED <<pool, clients, next_client_id, files, peer>>
    BY <1>5 DEF ParseStep, SendOnStep, Handles, memory, world, ghost
  <2>2. \A o \in Busy : /\ ops'[o].type = ops[o].type /\ ops'[o].client_id = ops[o].client_id
                        /\ ops'[o].client_fd = ops[o].client_fd
    <3>1. CASE ParseStep
      BY <3>1 DEF ParseStep, memory
    <3>2. CASE SendOnStep
      <4>1. Head(cq).op \in OpId /\ \A o \in Busy : o \in OpId
        BY <2>1, HandledBusy DEF Busy
      <4> QED BY <3>2, <4>1 DEF SendOnStep, TypeOK, OpRec
    <3> QED BY <1>5, <3>1, <3>2
  <2>3. /\ \A e \in Range(cq') : e \in Range(cq)
        /\ \A e \in Range(cq) : e.op # Head(cq).op => e \in Range(cq')
    BY <2>1, HandledBusy, TakeMembers
  <2> QED BY <1>0, <2>1, <2>2, <2>3, ClientsKept DEF Accepts
<1>6. ASSUME NEW r, NEW fd, NEW o, NEW b, AcceptStep(r, fd, o, b) PROVE ClientInv'
  BY <1>6, ClientsAccepted
<1>7. ASSUME NEW r, NEW len, NEW o, NEW b, RespondStep(r, len, o, b) PROVE ClientInv'
  BY <1>7, ClientsAnswered
<1>8. CASE Kernel
  <2>1. PICK o \in OpId : \/ KernelAccept(o) \/ KernelRecv(o) \/ KernelEof(o)
                          \/ KernelSend(o) \/ KernelFail(o)
    BY <1>8 DEF Kernel
  <2>2. ASSUME NEW res \in Int, NEW reqs \in Seq(Request), Complete(o, res, reqs),
               o \in kernel, UNCHANGED <<memory, files, peer>>,
               ~Accepts(o) \/ res < 0
        PROVE  ClientInv'
    <3>1. /\ Range(cq') = Range(cq) \cup {[op |-> o, res |-> res, reqs |-> reqs]}
          /\ o \in Busy
      BY <2>2, CompleteMembers
    <3>2. \A e \in Range(cq') : e.op \in Busy /\ e.res \in Int
      BY <1>0, <2>2, <3>1
    <3>3. \A e \in Range(cq') : Accepts(e.op) => e \in Range(cq) \/ e.res < 0
      BY <2>2, <3>1
    <3>4. \A e \in Range(cq) : Accepts(e.op) => e \in Range(cq')
      BY <3>1
    <3> QED BY <1>0, <2>2, <3>2, <3>3, <3>4, ClientsKept DEF memory
  <2>3. <<>> \in Seq(Request) /\ 0 \in Int /\ -1 \in Int /\ 1 \in Int /\ -1 < 0
    OBVIOUS
  <2>4. CASE KernelRecv(o)
    <3>1. PICK n \in 0..MaxReqs : \E reqs \in [1..n -> Request] : Complete(o, 1, reqs)
      BY <2>4 DEF KernelRecv
    <3>2. PICK reqs \in [1..n -> Request] : Complete(o, 1, reqs)
      BY <3>1
    <3>3. reqs \in Seq(Request)
      BY ServerAssumption
    <3>4. o \in kernel /\ UNCHANGED <<memory, files, peer>> /\ ~Accepts(o)
      BY <2>4 DEF KernelRecv, Works, ghost, Accepts
    <3> QED BY <2>2, <2>3, <3>2, <3>3, <3>4, Zenon
  <2>5. CASE KernelEof(o)
    <3>1. Complete(o, 0, <<>>) /\ o \in kernel /\ UNCHANGED <<memory, files, peer>> /\ ~Accepts(o)
      BY <2>5 DEF KernelEof, Works, ghost, Accepts
    <3> QED BY <2>2, <2>3, <3>1, Zenon
  <2>6. CASE KernelSend(o)
    <3>1. PICK n \in 0..(ops[o].buf_len - ops[o].processed) : Complete(o, n, <<>>)
      BY <2>6 DEF KernelSend
    <3>2. n \in Int
      <4>1. ops[o].buf_len \in Int /\ ops[o].processed \in Int
        BY DEF TypeOK, OpRec
      <4> QED BY <4>1
    <3>3. o \in kernel /\ UNCHANGED <<memory, files, peer>> /\ ~Accepts(o)
      BY <2>6 DEF KernelSend, Works, Accepts
    <3> QED BY <2>2, <2>3, <3>1, <3>2, <3>3, Zenon
  <2>7. CASE KernelFail(o)
    <3>1. Complete(o, -1, <<>>) /\ o \in kernel /\ UNCHANGED <<memory, files, peer>>
      BY <2>7 DEF KernelFail, Works, ghost
    <3> QED BY <2>2, <2>3, <3>1, Zenon
  <2>8. CASE KernelAccept(o)
    BY <2>8, ClientsConnected
  <2> QED BY <2>1, <2>4, <2>5, <2>6, <2>7, <2>8
<1> QED BY <1>2, <1>3, <1>4, <1>5, <1>6, <1>7, <1>8, StepShapes

\* At first the first client waits to be accepted.
LEMMA ClientInit == Init => ClientInv
<1> SUFFICES ASSUME Init PROVE ClientInv
  OBVIOUS
<1>1. PICK o \in Offer(OpId), b \in Offer(Buf) :
        /\ pool = [x \in OpId |-> IF x = o THEN 1 ELSE 0]
        /\ ops = [x \in OpId |-> IF x = o THEN AcceptOp(1, b)
                                 ELSE [AcceptOp(1, NoBuf) EXCEPT !.buf_cap = 0]]
  BY DEF Init
<1>2. /\ clients = [id \in {1} |-> NewClient] /\ next_client_id = 2 /\ cq = <<>>
      /\ files = [fd \in Fd |-> NoConn]
  BY DEF Init
<1>3. o \in OpId
  BY <1>1, ServerAssumption
<1>4. Busy = {o}
  BY <1>1, <1>3 DEF Busy
<1>5. ops[o].type = "OP_ACCEPT" /\ ops[o].client_id = 1 /\ ops[o].client_fd = NoFd
  BY <1>1, <1>3 DEF AcceptOp
<1>6. DOMAIN clients = {1} /\ clients[1].client_fd = NoFd
  BY <1>2 DEF NewClient
<1>7. \A e : e \notin Range(cq)
  BY <1>2, EmptyRange
<1>8. IdsBelow /\ AcceptAlone /\ FdsApart
  BY <1>2, <1>4, <1>5, <1>6 DEF IdsBelow, AcceptAlone, FdsApart, Accepts
<1>9. OneReader /\ ClientSockets
  BY <1>4, <1>5, <1>6 DEF OneReader, ClientSockets
<1>10. AcceptedFd /\ Owned
  BY <1>2, <1>7 DEF AcceptedFd, Owned
<1> QED BY <1>8, <1>9, <1>10 DEF ClientInv

\* The parts are kept together by every step, from the first state on.
LEMMA ClientSpec == Spec => [](TypeOK /\ HolderInv /\ SendInv /\ ClientInv)
<1>1. Init => TypeOK /\ HolderInv /\ SendInv /\ ClientInv
  BY InitTypes, HolderInit, SendInit, ClientInit
<1>2. (TypeOK /\ HolderInv /\ SendInv /\ ClientInv) /\ [Next]_vars
          => (TypeOK /\ HolderInv /\ SendInv /\ ClientInv)'
  BY NextTypes, HolderNext, SendNext, ClientNext
<1> QED BY <1>1, <1>2, PTL DEF Spec

\* While a client is in server.c's map, its Operations carry its descriptor,
\* and that is open and still refers to the connection it was accepted on,
\* however the kernel reuses descriptors.
THEOREM ServerClientSockets == Spec => []ClientSockets
<1>1. ClientInv => ClientSockets
  BY DEF ClientInv
<1> QED BY <1>1, ClientSpec, PTL

\* Every client in the map has exactly one Operation that accepts or receives
\* for it, and there is always one to accept the next client.
THEOREM ServerOneReader == Spec => []OneReader
<1>1. ClientInv => OneReader
  BY DEF ClientInv
<1> QED BY <1>1, ClientSpec, PTL

\* No descriptor stays open without a client that uses it or an accept that is
\* about to be handled.
THEOREM ServerNoOrphanSocket == Spec => []NoOrphanSocket
<1>1. TypeOK /\ HolderInv /\ ClientInv => NoOrphanSocket
  <2> SUFFICES ASSUME TypeOK, HolderInv, ClientInv, NEW fd \in Fd, Open(fd)
               PROVE  \/ \E id \in DOMAIN clients : clients[id].client_fd = fd
                      \/ \E i \in 1..Len(cq) :
                             ops[cq[i].op].type = "OP_ACCEPT" /\ cq[i].res = fd
    BY DEF NoOrphanSocket
  <2>1. CASE \E e \in Range(cq) : Accepts(e.op) /\ e.res = fd
    <3>1. PICK e \in Range(cq) : Accepts(e.op) /\ e.res = fd
      BY <2>1
    <3>2. PICK i \in 1..Len(cq) : e = cq[i]
      BY CqMembers
    <3> QED BY <3>1, <3>2 DEF Accepts
  <2> QED BY <2>1 DEF ClientInv, Owned, Open
<1> QED BY <1>1, ClientSpec, PTL

\* A step ends the process with bad_close only from must_close_fails, and then
\* the Operation at hand is an accept that failed.
LEMMA CloseNext ==
    TypeOK /\ HolderInv /\ SendInv /\ ClientInv /\ ClosedOnce /\ [Next]_vars => ClosedOnce'
<1> SUFFICES ASSUME TypeOK, HolderInv, SendInv, ClientInv, ClosedOnce, [Next]_vars,
                    pc' = "bad_close"
             PROVE  /\ cur' = Idle /\ cq' # <<>>
                    /\ Head(cq').res < 0 /\ ops'[Head(cq').op].type = "OP_ACCEPT"
  BY DEF ClosedOnce
<1>1. ASSUME NEW o \in Busy, must_close_fails(o) PROVE Accepts(o)
  BY <1>1 DEF must_close_fails, ClientInv, ClientSockets, Accepts
<1>2. CASE pc = "bad_close"
  <2>1. Stopped /\ ~Ready
    BY <1>2 DEF Stopped, Ready
  <2>2. UNCHANGED vars
    BY <1>2, <2>1 DEF Next, Handler, Loop, Kernel, op_failed, client_gone, handle_accept,
        handle_recv, handle, resume_recv, handle_send, Handles, io_uring_wait_cqe,
        io_uring_peek_batch_cqe, batch_done, submit_sqe, io_uring_submit, ring_error,
        KernelAccept, KernelRecv, KernelEof, KernelSend, KernelFail, Works, Terminated
  <2> QED BY <1>2, <2>2 DEF vars, memory, loop, ClosedOnce
<1>3. CASE pc # "bad_close"
  <2>1. CASE op_failed /\ must_close_fails(Head(cq).op)
    <3>1. Ready /\ Head(cq).res < 0 /\ UNCHANGED <<ops, cq, cur>>
      BY <2>1 DEF op_failed, must_close_fails, exit, memory
    <3>2. Accepts(Head(cq).op)
      BY <1>1, <2>1, <3>1, HandledBusy
    <3> QED BY <3>1, <3>2 DEF Ready, Accepts
  <2>2. CASE handle_recv /\ must_close_fails(Head(cq).op)
    <3>1. Ready /\ ops[Head(cq).op].type = "OP_READ"
      BY <2>2 DEF handle_recv, Handles
    <3> QED BY <1>1, <2>2, <3>1, HandledBusy DEF Accepts
  <2>3. CASE handle /\ must_close_fails(cur.op)
    <3>1. cur # Idle /\ ops[cur.op].type = "OP_READ"
      BY <2>3 DEF handle, SendInv
    <3> QED BY <1>1, <2>3, <3>1, HandledBusy DEF Accepts
  <2>4. exit("sq_full") \/ exit("ring_error") => FALSE
    BY DEF exit
  <2>5. CASE pc' = pc
    BY <1>3, <2>5
  <2>6. CASE Handler
    BY <2>1, <2>2, <2>3, <2>4, <2>5, <2>6 DEF Handler, op_failed, client_gone, handle_accept,
        handle_recv, handle, resume_recv, handle_send
  <2>7. CASE Loop \/ ring_error
    BY <2>4, <2>5, <2>7 DEF Loop, io_uring_wait_cqe, io_uring_peek_batch_cqe, batch_done,
        submit_sqe, io_uring_submit, ring_error, loop
  <2>8. CASE Kernel \/ UNCHANGED vars
    BY <2>5, <2>8 DEF Kernel, KernelAccept, KernelRecv, KernelEof, KernelSend, KernelFail,
        loop, vars
  <2> QED BY <2>6, <2>7, <2>8 DEF Next, Terminated
<1> QED BY <1>2, <1>3

\* must_close of server.c never ends the process because a client's socket was
\* closed before: the only close that fails is the one for a failed accept.
THEOREM ServerClosedOnce == Spec => []ClosedOnce
<1>1. Init => ClosedOnce
  BY DEF Init, ClosedOnce
<1>2. (TypeOK /\ HolderInv /\ SendInv /\ ClientInv) /\ ClosedOnce /\ [Next]_vars => ClosedOnce'
  BY CloseNext
<1> QED BY <1>1, <1>2, ClientSpec, PTL DEF Spec
=============================================================================
