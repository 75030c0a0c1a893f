------------------------------ MODULE Session -------------------------------
(***************************************************************************)
(* One client's conversation with the server, byte by byte: the requests   *)
(* it encodes, what handle decodes and answers, and the stream of bytes    *)
(* that comes back when several responses are in the kernel at once and    *)
(* each may be written in pieces (add_send, resume_send, handle_send).     *)
(* Every request is received whole; RecvBuffer is about those that are     *)
(* not, Server about what a round does to the other clients.               *)
(***************************************************************************)
EXTENDS Protocol, FiniteSets

CONSTANTS
    Unames,       \* usernames the client may ask for, as bytes
    UidLists,     \* members of the groups it may ask for
    LowLens,      \* length fields below a header that it may send
    MaxAsked,     \* bound of the model: requests the client sends
    MaxShort      \* bound of the model: short writes

SmallCap == 64
BUFFER_SIZE_2KB == 2048
Uint64 == [1..8 -> 0..255]
MIN_UNAME_LEN == 3
MAX_UNAME_LEN == 15
CODE_INVALID_MSG_LEN == 2
CODE_INVALID_USERNAME == 3

\* A request with a length above BUFFER_SIZE_2KB is not given to handle; the
\* comment above handle asks for lengths of 3 and more.
ASSUME SessionAssumption ==
    /\ \A u \in Unames : u \in Seq(0..255) /\ HdrLen + Len(u) <= BUFFER_SIZE_2KB
    /\ \A us \in UidLists :
           us \in Seq(Uint64) /\ GroupLen + 8 * Len(us) <= BUFFER_SIZE_2KB
    /\ LowLens \subseteq 3..(HdrLen - 1)
    /\ MaxAsked \in 0..255 /\ MaxShort \in Nat

VARIABLES
    phase,      \* "open", "shifted" after a length below the header, "closed"
    username,   \* info->username up to its '\0'
    asked,      \* the requests so far: the bytes and what the client meant
    ops,        \* the Operation of the response to each request
    wire,       \* the bytes the client was sent, each with its response
    short,      \* how many writes took less than they were given
    pipelined   \* a request was sent before the last response was complete

vars == <<phase, username, asked, ops, wire, short, pipelined>>

\* The client's seqid for its k-th request: no two bytes are equal.
SeqId(k) == <<k, 251, 252, 253, 254, 255, 0, 128>>

(***************************************************************************)
(* The requests a client can make: usernames, groups, a group message with *)
(* a count that is not that of its ids, and a bare header whose length is  *)
(* below its own.                                                          *)
(***************************************************************************)
Asks(k) ==
    {[msgt |-> MSGT_SET_USERNAME, body |-> u, honest |-> TRUE,
      frame |-> ser_set_username(SeqId(k), u)] : u \in Unames}
    \cup {[msgt |-> MSGT_CREATE_GROUP, body |-> us, honest |-> TRUE,
           frame |-> ser_create_group(SeqId(k), us)] : us \in UidLists}
    \cup {[msgt |-> MSGT_CREATE_GROUP, body |-> us, honest |-> FALSE,
           frame |-> ReplaceAt(ser_create_group(SeqId(k), us), GroupLen, Len(us) + 1)] :
              us \in UidLists}
    \cup {[msgt |-> MSGT_SET_USERNAME, body |-> <<>>, honest |-> FALSE,
           frame |-> Header(n, MSGT_SET_USERNAME, SeqId(k))] : n \in LowLens}

isalnum(c) == c \in (48..57) \cup (65..90) \cup (97..122)

username_valid(uname) == \A i \in DOMAIN uname : isalnum(uname[i])

\* n bytes of the request buffer from the username on; behind the request
\* there is whatever an earlier one left.
UnameAt(frame, n) ==
    [i \in 1..n |-> IF HdrLen + i <= Len(frame) THEN frame[HdrLen + i] ELSE 0]

Init ==
    /\ phase = "open"
    /\ username = <<>>
    /\ asked = <<>>
    /\ ops = << >>
    /\ wire = <<>>
    /\ short = 0
    /\ pipelined = FALSE

\* How many bytes of the response to request k were written.
Taken(k) == Cardinality({i \in DOMAIN wire : wire[i].of = k})

Unfinished(k) == k \in DOMAIN ops /\ Taken(k) < Len(ops[k].buf)

\* add_send for the response to the request that comes next.
add_send(buf) ==
    ops' = [k \in DOMAIN ops \cup {Len(asked) + 1} |->
               IF k \in DOMAIN ops THEN ops[k]
               ELSE [buf |-> buf, processed |-> 0, res |-> 0, at |-> "kernel"]]

\* Mutation of BadLen: the bound is off by one.
BadLen_long(n) == n < MIN_UNAME_LEN \/ n > MAX_UNAME_LEN + 1

BadLen(n) == n < MIN_UNAME_LEN \/ n > MAX_UNAME_LEN

\* handle for a request of one frame, and what handle_recv does after it.
handle(req) ==
    LET hdr == deser_header(req.frame)
        uname_len == deser_set_username(hdr.len)
    IN  \/ /\ hdr.msgt # MSGT_SET_USERNAME
           /\ phase' = "closed"
           /\ UNCHANGED <<username, ops>>
        \/ /\ hdr.msgt = MSGT_SET_USERNAME
           /\ phase' = IF hdr.len < HdrLen THEN "shifted" ELSE phase
           /\ \/ /\ BadLen(uname_len)
                 /\ add_send(ser_server_error(hdr.seqid, CODE_INVALID_MSG_LEN))
                 /\ UNCHANGED username
              \/ /\ ~BadLen(uname_len)
                 /\ ~username_valid(UnameAt(req.frame, uname_len))
                 /\ add_send(ser_server_error(hdr.seqid, CODE_INVALID_USERNAME))
                 /\ UNCHANGED username
              \/ /\ ~BadLen(uname_len)
                 /\ username_valid(UnameAt(req.frame, uname_len))
                 /\ username' = UnameAt(req.frame, uname_len)
                 /\ add_send(ser_set_username_response(hdr.seqid))

handle_recv ==
    /\ phase = "open"
    /\ Len(asked) < MaxAsked
    /\ \E req \in Asks(Len(asked) + 1) :
           /\ handle(req)
           /\ asked' = Append(asked, req)
    /\ pipelined' = (pipelined \/ \E k \in DOMAIN ops : Unfinished(k))
    /\ UNCHANGED <<wire, short>>

\* The kernel writes what is left of the buffer, or a piece of it.
KernelSend(k) ==
    /\ ops[k].at = "kernel"
    /\ LET left == SubSeq(ops[k].buf, ops[k].processed + 1, Len(ops[k].buf))
       IN  \E n \in 0..Len(left) :
               /\ short' = IF n < Len(left) THEN short + 1 ELSE short
               /\ short' <= MaxShort
               /\ wire' = wire \o [i \in 1..n |-> [of |-> k, byte |-> left[i]]]
               /\ ops' = [ops EXCEPT ![k] = [@ EXCEPT !.at = "cq", !.res = n]]
    /\ UNCHANGED <<phase, username, asked, pipelined>>

op_is_incomplete(k) == ops[k].res < Len(ops[k].buf) - ops[k].processed

\* Mutation of resume_send: the offset is that of the last write alone.
resume_send_restarts(op) == [op EXCEPT !.processed = op.res, !.at = "kernel"]

resume_send(op) == [op EXCEPT !.processed = @ + op.res, !.at = "kernel"]

\* handle_send, or the end of an Operation whose client is gone.
handle_send(k) ==
    /\ ops[k].at = "cq"
    /\ ops' = [ops EXCEPT ![k] = IF op_is_incomplete(k) /\ phase # "closed"
                                 THEN resume_send(@) ELSE [@ EXCEPT !.at = "free"]]
    /\ UNCHANGED <<phase, username, asked, wire, short, pipelined>>

\* A failed send: the client is dropped.
op_failed(k) ==
    /\ ops[k].at = "kernel"
    /\ phase' = "closed"
    /\ ops' = [ops EXCEPT ![k].at = "free"]
    /\ UNCHANGED <<username, asked, wire, short, pipelined>>

Next ==
    \/ handle_recv
    \/ \E k \in DOMAIN ops : KernelSend(k) \/ handle_send(k) \/ op_failed(k)

Spec == Init /\ [][Next]_vars
-----------------------------------------------------------------------------
(* What the client makes of the stream.                                    *)

Bytes == [i \in DOMAIN wire |-> wire[i].byte]

\* Where the k-th message of the stream begins, after k - 1 whole ones; the
\* length of each is in its header.
Begin ==
    LET b[k \in 1..(Len(asked) + 1)] ==
            IF k = 1 THEN 1
            ELSE IF Len(Bytes) < b[k - 1] + HdrLen - 1 THEN b[k - 1]
            ELSE b[k - 1] + deser_header(SubSeq(Bytes, b[k - 1], Len(Bytes))).len
    IN  b

\* The messages that are complete.
Messages ==
    {SubSeq(Bytes, Begin[k], Begin[k + 1] - 1) :
        k \in {j \in 1..Len(asked) : Begin[j] < Begin[j + 1] /\ Begin[j + 1] <= Len(Bytes) + 1}}

Good(req) ==
    /\ req.msgt = MSGT_SET_USERNAME
    /\ Len(req.body) \in MIN_UNAME_LEN..MAX_UNAME_LEN
    /\ username_valid(req.body)

\* msg is what the protocol has for request k.
Answers(msg, k) ==
    LET hdr == deser_header(msg)
    IN  /\ hdr.seqid = SeqId(k)
        /\ hdr.len = Len(msg)
        /\ IF Good(asked[k])
           THEN hdr.msgt = MSGT_SET_USERNAME_RESPONSE /\ Len(msg) = HdrLen
           ELSE /\ hdr.msgt = MSGT_SERVER_ERROR
                /\ deser_server_error(hdr.len, msg) =
                       [ret |-> 0,
                        code |-> IF Len(asked[k].body) \in MIN_UNAME_LEN..MAX_UNAME_LEN
                                 THEN CODE_INVALID_USERNAME ELSE CODE_INVALID_MSG_LEN]

\* The client's name is the last acceptable one it asked for, with every byte
\* of it and none from behind the request, whatever lengths it has sent in
\* between, those below the header included.
LastGoodName ==
    LET good == {k \in 1..Len(asked) : Good(asked[k])}
    IN  username = IF good = {} THEN <<>>
                   ELSE asked[CHOOSE k \in good : \A j \in good : j <= k].body

\* What is decoded is what was encoded, in network byte order on the wire; a
\* group message is taken only with a count that fits the array it is copied
\* to and the length of the message.
RoundTrip ==
    \A k \in 1..Len(asked) :
        LET req == asked[k]
            hdr == deser_header(req.frame)
            group == deser_create_group(hdr.len, req.frame)
        IN  /\ hdr.msgt = req.msgt
            /\ hdr.seqid = SeqId(k)
            /\ SubSeq(req.frame, 4, HdrLen) = Reverse(SeqId(k))
            /\ req.msgt = MSGT_CREATE_GROUP =>
                   group = IF req.honest /\ Len(req.body) <= MaxUids
                           THEN [ret |-> 0, uids |-> req.body] ELSE [ret |-> -1]

\* If no write is short, or the client waits for each response before its next
\* request, then the stream it reads is whole messages, each the answer to a
\* request of its own, and when nothing is under way every request that was
\* taken has its answer.  (With both, the rest of one response is written
\* behind another one.)
WholeAnswers ==
    (short = 0 \/ ~pipelined) =>
        /\ \A msg \in Messages : \E k \in DOMAIN ops : Answers(msg, k)
        /\ (phase # "closed" /\ \A k \in DOMAIN ops : ~Unfinished(k)) =>
               /\ Cardinality(Messages) = Cardinality(DOMAIN ops)
               /\ \A k \in DOMAIN ops : \E msg \in Messages : Answers(msg, k)

\* Byte i of the stream is the Nth of its response.
Nth(i) == Cardinality({j \in 1..i : wire[j].of = wire[i].of})

\* However the writes of several responses are mixed, the bytes of each one are
\* written once and in their order, and its Operation is only given up with the
\* last of them or with the client.  Each fits its buffer, as the ser_ functions
\* assert.
BytesOnce ==
    \A k \in DOMAIN ops :
        /\ Taken(k) <= Len(ops[k].buf) /\ Len(ops[k].buf) <= SmallCap
        /\ \A i \in DOMAIN wire :
               wire[i].of = k => wire[i].byte = ops[k].buf[Nth(i)]
        /\ ops[k].at = "free" => phase = "closed" \/ ~Unfinished(k)
=============================================================================
