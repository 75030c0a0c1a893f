----------------------------- MODULE RecvBuffer -----------------------------
(***************************************************************************)
(* handle_recv of server.c, byte by byte: how the bytes one client sends   *)
(* are received into the 2 KB buffer of its Operation, cut into requests   *)
(* and kept for the next receive, and the submission entries this takes.   *)
(* The length field of a frame is the client's to choose.  A byte is known *)
(* by its place in the stream, so the buffer shows which bytes a handler   *)
(* really looks at.                                                        *)
(***************************************************************************)
EXTENDS Integers, Sequences, FiniteSets

CONSTANTS
    Cap,          \* BUFFER_SIZE_2KB, which is also op->buf_cap
    HdrLen,       \* PROT_HDR_LEN
    Start,        \* where the frames the client sends lie in the stream
    Field,        \* the length each of them carries in its header
    SqRoom        \* submission entries that are free when handle_recv starts

\* Every frame has a header's bytes, so it starts that far behind all that
\* start before it; what its length field says is another matter.  There are
\* entries for as many requests as a buffer holds if each takes a byte of it.
ASSUME RecvBufferAssumption ==
    /\ Cap \in Nat /\ HdrLen \in 1..Cap
    /\ Start \in Seq(Nat) /\ Start # <<>> /\ Start[1] = 0
    /\ \A i, j \in 1..Len(Start) : i < j => Start[i] + HdrLen <= Start[j]
    /\ Field \in Seq(Nat) /\ Len(Field) = Len(Start) - 1
    /\ SqRoom \in Nat /\ SqRoom >= Cap - HdrLen + 2

\* Frame i is bytes Start[i] + 1 .. Start[i + 1] of the stream; the last start
\* is the end of the stream.
Frames == Len(Start) - 1
Lens == [i \in 1..Frames |-> Start[i + 1] - Start[i]]
Total == Start[Frames + 1]
Boundary == {Start[i] : i \in 1..(Frames + 1)}

\* The frames that end in the first n bytes carry their own length.
WellFormed(n) == \A i \in 1..Frames : Start[i + 1] <= n => Field[i] = Lens[i]

VARIABLES
    phase,       \* "recv": a receive is submitted; "parse": handle_recv runs;
                 \* "closed": the client is dropped; "exited": the process is gone
    buf,         \* the buffer: the stream byte in each place, 0 for an old one
    off,         \* where the submitted receive starts to write
    received,    \* bytes of the stream received so far
    bytes_read,  \* handle_recv's variable of that name
    req_buf,     \* its pointer, as an offset into the buffer
    sqes,        \* submission entries this handle_recv has taken
    handled,     \* what handle was given: the number of a frame, 0 if none; the
                 \* record ends with the first that is not the client's next one
    whole,       \* every receive so far has ended with the end of a frame, and
                 \* the frames received carry their own lengths
    zero         \* handle was given a request of length 0

vars == <<phase, buf, off, received, bytes_read, req_buf, sqes, handled, whole, zero>>

Init ==
    /\ phase = "recv"
    /\ buf = [i \in 0..(Cap - 1) |-> 0]
    /\ off = 0
    /\ received = 0
    /\ bytes_read = 0
    /\ req_buf = 0
    /\ sqes = 0
    /\ handled = <<>>
    /\ whole = TRUE
    /\ zero = FALSE

\* The kernel stores n bytes where add_recv or resume_recv pointed it, and
\* handle_recv starts at the beginning of the buffer, with n alone.
Receive(n) ==
    /\ phase = "recv"
    /\ n \in 1..(Cap - off)
    /\ received + n <= Total
    /\ buf' = [i \in 0..(Cap - 1) |->
                  IF i \in off..(off + n - 1) THEN received + 1 + i - off ELSE buf[i]]
    /\ received' = received + n
    /\ whole' = (whole /\ received + n \in Boundary /\ WellFormed(received + n))
    /\ bytes_read' = n
    /\ req_buf' = 0
    /\ sqes' = 0
    /\ phase' = "parse"
    /\ UNCHANGED <<off, handled, zero>>

\* The frame whose first len bytes are in the buffer at q, if there is one.
FramesAt(q, len) ==
    {i \in 1..Frames :
        \A k \in 0..(len - 1) : q + k < Cap /\ buf[q + k] = Start[i] + 1 + k}

\* What deser_header finds in the two bytes of the length: the field of
\* the frame that starts there, and anything at all where none starts.
deser_header ==
    IF FramesAt(req_buf, HdrLen) = {} THEN 0..(Cap + 1)
    ELSE {Field[i] : i \in FramesAt(req_buf, HdrLen)}

\* resume_recv receives the rest of the buffer after the bytes that are left;
\* without a submission entry it ends the process.
resume_recv ==
    /\ \/ sqes < SqRoom /\ sqes' = sqes + 1 /\ off' = bytes_read /\ phase' = "recv"
       \/ sqes = SqRoom /\ phase' = "exited" /\ UNCHANGED <<sqes, off>>
    /\ UNCHANGED <<received, bytes_read, req_buf, handled, whole, zero>>

\* disconnect_and_free_op.
disconnect ==
    /\ phase' = "closed"
    /\ UNCHANGED <<buf, off, received, bytes_read, req_buf, sqes, handled, whole, zero>>

\* A receive of 0 bytes: the client has closed its end.
EndOfStream == phase = "recv" /\ disconnect

\* Mutations of HeaderThere: off by one; as long as there are bytes at all.
HeaderThere_strict == bytes_read > HdrLen
HeaderThere_any == bytes_read > 0

\* The condition of the loop.
HeaderThere == bytes_read >= HdrLen

\* Mutation of too_long: the check is missing.
too_long_never(len) == FALSE

too_long(len) == len > Cap

\* The loop ends because there is no room for a header.
NoHeader ==
    /\ phase = "parse"
    /\ ~HeaderThere
    /\ resume_recv
    /\ UNCHANGED buf

TooLong ==
    /\ phase = "parse"
    /\ HeaderThere
    /\ \E len \in deser_header : too_long(len)
    /\ disconnect

\* The loop ends at a request that is not complete, after moving it to the
\* front: buf_cap - bytes_read bytes, and what lies behind the buffer is
\* not known.
Incomplete ==
    /\ phase = "parse"
    /\ HeaderThere
    /\ \E len \in deser_header : ~too_long(len) /\ bytes_read < len
    /\ buf' = IF req_buf = 0 THEN buf
              ELSE [i \in 0..(Cap - 1) |->
                       IF i >= Cap - bytes_read THEN buf[i]
                       ELSE IF req_buf + i < Cap THEN buf[req_buf + i] ELSE 0]
    /\ resume_recv

\* Mutation of Advance: past the header only.
Advance_header(len) ==
    /\ bytes_read' = bytes_read - len
    /\ req_buf' = req_buf + HdrLen

\* Mutation of Advance: the bytes are not counted off.
Advance_uncounted(len) ==
    /\ req_buf' = req_buf + len
    /\ UNCHANGED bytes_read

Advance(len) ==
    /\ bytes_read' = bytes_read - len
    /\ req_buf' = req_buf + len

\* handle is given the client's requests, each complete, in the order sent.
\* server.c: "req should contain all bytes necessary for parsing a request".
InOrder == \A i \in 1..Len(handled) : handled[i] = i

\* A request is handed to handle.  It is answered, with a response or an error,
\* whatever its length, and add_send takes a submission entry, without which
\* the process ends; or it is refused.
Handle ==
    /\ phase = "parse"
    /\ HeaderThere
    /\ \E len \in deser_header :
           /\ ~too_long(len) /\ bytes_read >= len
           /\ handled' = IF ~InOrder THEN handled
                         ELSE Append(handled,
                                IF \E i \in FramesAt(req_buf, len) : Lens[i] = len
                                THEN CHOOSE i \in FramesAt(req_buf, len) : Lens[i] = len
                                ELSE 0)
           /\ zero' = (zero \/ len = 0)
           /\ \/ sqes < SqRoom /\ sqes' = sqes + 1 /\ Advance(len) /\ UNCHANGED phase
              \/ sqes = SqRoom /\ phase' = "exited" /\ UNCHANGED <<sqes, bytes_read, req_buf>>
              \/ phase' = "closed" /\ UNCHANGED <<sqes, bytes_read, req_buf>>
    /\ UNCHANGED <<buf, off, received, whole>>

\* A turn of handle_recv's loop.
Turn == NoHeader \/ TooLong \/ Incomplete \/ Handle

Next == (\E n \in 1..Cap : Receive(n)) \/ EndOfStream \/ Turn

Spec == Init /\ [][Next]_vars

\* handle_recv runs to its end without waiting for anybody.
FairSpec == Spec /\ WF_vars(Turn)
-----------------------------------------------------------------------------
\* The receive that is submitted has room in the buffer: an empty one would
\* complete with 0 and be taken for the end of the connection.  What is being
\* parsed lies in the buffer.
WindowOpen ==
    /\ phase = "recv" => off < Cap
    /\ phase = "parse" => req_buf + bytes_read <= Cap

\* Requests are handled in order as long as every receive ends with the end of
\* a frame and the frames carry their own lengths, several frames in one
\* receive included.
InOrderWhole == whole => InOrder

\* Under the same condition, every request that has arrived in full was handled
\* when the next receive is submitted.
NoneWaiting ==
    whole /\ phase = "recv" =>
        Len(handled) >= Cardinality({i \in 1..Frames : Start[i + 1] <= received})

\* "We assume ring will have enough room for the resulting sqes", the comment
\* above handle says.
RoomAssumed == phase # "exited"

\* So it has, though nothing checks a length field from below, as long as no
\* request of length 0 was met: every other one takes a byte of the buffer.
RoomUnlessZero == ~zero => RoomAssumed

\* handle_recv's loop ends, whatever the lengths are, with another receive or
\* the end of the connection; only a length of 0 leaves the loop where it was.
ParseEnds == phase = "parse" ~> phase \in {"recv", "closed"} \/ zero
=============================================================================
