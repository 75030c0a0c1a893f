-------------------------- MODULE RecvBufferProofs --------------------------
(***************************************************************************)
(* handle_recv of server.c for a buffer of any size and a stream of any    *)
(* number of frames, whatever their length fields say.                     *)
(***************************************************************************)
EXTENDS RecvBuffer, FiniteSetTheorems, TLAPS

\* The values of the variables.
RecvTypes ==
    /\ phase \in {"recv", "parse", "closed", "exited"}
    /\ off \in Nat /\ received \in Nat /\ bytes_read \in Nat /\ req_buf \in Nat
    /\ handled \in Seq(Nat)
    /\ sqes \in Nat
    /\ whole \in BOOLEAN

\* The invariant behind WindowOpen: the offsets are natural numbers.
WindowInv == RecvTypes /\ WindowOpen

\* Where the client's requests are, as long as every receive has ended with
\* the end of a frame and the lengths are right: those before the next one were handled, and the bytes
\* to be parsed are those of the stream from there to what was received.
FrameInv ==
    whole =>
        /\ InOrder
        /\ Len(handled) <= Frames
        /\ WellFormed(received)
        /\ phase = "recv" => off = 0 /\ received = Start[Len(handled) + 1]
        /\ phase = "parse" =>
              /\ received = Start[Len(handled) + 1] + bytes_read
              /\ received \in Boundary
              /\ \A k \in 0..(bytes_read - 1) :
                     buf[req_buf + k] = Start[Len(handled) + 1] + 1 + k

\* The invariant behind RoomUnlessZero: what was not yet parsed bounds the
\* entries that may still be taken, and no request starts in the last bytes,
\* where no header fits.
RoomInv ==
    ~zero =>
        /\ RoomAssumed
        /\ phase = "parse" => sqes + bytes_read <= Cap /\ sqes + HdrLen <= Cap + 1

-----------------------------------------------------------------------------
\* The stream: starts are natural numbers a header or more apart.
LEMMA Stream ==
    /\ Cap \in Nat /\ HdrLen \in Nat /\ HdrLen >= 1 /\ HdrLen <= Cap
    /\ Frames \in Nat /\ Frames + 1 = Len(Start)
    /\ Start[1] = 0
    /\ \A i \in 1..(Frames + 1) : Start[i] \in Nat
    /\ \A i, j \in 1..(Frames + 1) : i < j => Start[i] + HdrLen <= Start[j]
    /\ \A i \in 1..Frames : /\ i + 1 \in 1..(Frames + 1) /\ i \in 1..(Frames + 1)
                            /\ Lens[i] = Start[i + 1] - Start[i]
                            /\ Lens[i] \in Nat /\ Lens[i] >= HdrLen
                            /\ Field[i] \in Nat
    /\ SqRoom \in Nat /\ SqRoom >= Cap - HdrLen + 2
<1>1. /\ Cap \in Nat /\ HdrLen \in 1..Cap
      /\ SqRoom \in Nat /\ SqRoom >= Cap - HdrLen + 2
      /\ Start \in Seq(Nat) /\ Start # <<>> /\ Start[1] = 0
      /\ \A i, j \in 1..Len(Start) : i < j => Start[i] + HdrLen <= Start[j]
      /\ Field \in Seq(Nat) /\ Len(Field) = Len(Start) - 1
  BY RecvBufferAssumption
<1>2. Len(Start) \in Nat /\ Len(Start) >= 1
  BY <1>1
<1>3. Frames \in Nat /\ Frames + 1 = Len(Start)
  BY <1>2 DEF Frames
<1>4. \A i \in 1..(Frames + 1) : Start[i] \in Nat
  BY <1>1, <1>3
<1>5. ASSUME NEW i \in 1..Frames
      PROVE  /\ i + 1 \in 1..(Frames + 1) /\ i \in 1..(Frames + 1)
             /\ Lens[i] = Start[i + 1] - Start[i]
             /\ Lens[i] \in Nat /\ Lens[i] >= HdrLen
             /\ Field[i] \in Nat
  <2>1. i + 1 \in 1..(Frames + 1) /\ i \in 1..(Frames + 1) /\ i < i + 1
    BY <1>3
  <2>2. Start[i] + HdrLen <= Start[i + 1]
    BY <1>1, <1>3, <2>1
  <2>3. Lens[i] = Start[i + 1] - Start[i]
    BY DEF Lens
  <2>4. Len(Field) = Frames
    BY <1>1, <1>2 DEF Frames
  <2>5. Field[i] \in Nat
    BY <1>1, <2>4
  <2>6. Start[i] \in Nat /\ Start[i + 1] \in Nat /\ HdrLen \in Nat
    BY <1>1, <1>4, <2>1
  <2>7. Lens[i] \in Nat /\ Lens[i] >= HdrLen
    BY <2>2, <2>3, <2>6
  <2> QED BY <2>1, <2>3, <2>5, <2>7
<1>6. \A i, j \in 1..(Frames + 1) : i < j => Start[i] + HdrLen <= Start[j]
  BY <1>1, <1>3
<1>7. HdrLen \in Nat /\ HdrLen >= 1 /\ HdrLen <= Cap
  BY <1>1
<1> QED BY <1>1, <1>3, <1>4, <1>5, <1>6, <1>7, Zenon

\* Starts are ordered as their numbers are, and no two are the same.
LEMMA StartOrder ==
    \A i, j \in 1..(Frames + 1) : (i <= j <=> Start[i] <= Start[j]) /\ (Start[i] = Start[j] => i = j)
<1> SUFFICES ASSUME NEW i \in 1..(Frames + 1), NEW j \in 1..(Frames + 1)
             PROVE  (i <= j <=> Start[i] <= Start[j]) /\ (Start[i] = Start[j] => i = j)
  OBVIOUS
<1>1. /\ HdrLen \in Nat /\ HdrLen >= 1 /\ Start[i] \in Nat /\ Start[j] \in Nat
      /\ i < j => Start[i] + HdrLen <= Start[j]
      /\ j < i => Start[j] + HdrLen <= Start[i]
      /\ i \in Int /\ j \in Int
  BY Stream
<1> QED BY <1>1

\* deser_header always finds a length that is a natural number.
LEMMA HeaderNat == \A len \in deser_header : len \in Nat
<1>1. \A i \in FramesAt(req_buf, HdrLen) : i \in 1..Frames
  BY DEF FramesAt
<1>2. \A i \in 1..Frames : Field[i] \in Nat
  BY Stream
<1>3. \A len \in 0..(Cap + 1) : len \in Nat
  BY Stream
<1> QED BY <1>1, <1>2, <1>3, Zenon DEF deser_header
-----------------------------------------------------------------------------
(* WindowOpen.                                                             *)

LEMMA WindowNext == WindowInv /\ [Next]_vars => WindowInv'
<1> SUFFICES ASSUME WindowInv, [Next]_vars PROVE WindowInv'
  OBVIOUS
<1>0. /\ Cap \in Nat /\ HdrLen \in Nat /\ HdrLen <= Cap
  BY Stream
<1>1. ASSUME NEW n \in 1..Cap, Receive(n) PROVE WindowInv'
  <2>1. n \in Nat /\ n <= Cap - off /\ off \in Nat /\ received \in Nat
    BY <1>0, <1>1 DEF Receive, WindowInv, RecvTypes
  <2>2. /\ phase' = "parse" /\ bytes_read' = n /\ req_buf' = 0 /\ received' = received + n
        /\ UNCHANGED <<off, handled, zero>> /\ whole' \in BOOLEAN /\ sqes' = 0
    BY <1>1 DEF Receive
  <2> QED BY <1>0, <2>1, <2>2 DEF WindowInv, RecvTypes, WindowOpen
<1>2. CASE NoHeader
  <2>1. bytes_read < Cap
    BY <1>0, <1>2 DEF NoHeader, HeaderThere, WindowInv, RecvTypes
  <2> QED BY <1>2, <2>1 DEF NoHeader, resume_recv, WindowInv, RecvTypes, WindowOpen
<1>3. CASE TooLong \/ EndOfStream
  BY <1>3 DEF TooLong, EndOfStream, disconnect, WindowInv, RecvTypes, WindowOpen
<1>4. CASE Incomplete
  <2>1. PICK len \in deser_header : ~too_long(len) /\ bytes_read < len
    BY <1>4 DEF Incomplete
  <2>2. len \in Nat /\ len <= Cap
    BY <1>0, <2>1, HeaderNat DEF too_long
  <2>3. bytes_read < Cap
    BY <1>0, <2>1, <2>2 DEF WindowInv, RecvTypes
  <2> QED BY <1>4, <2>3 DEF Incomplete, resume_recv, WindowInv, RecvTypes, WindowOpen
<1>5. CASE Handle
  <2>1. PICK len \in deser_header :
           /\ bytes_read >= len
           /\ handled' = IF ~InOrder THEN handled
                         ELSE Append(handled,
                                IF \E i \in FramesAt(req_buf, len) : Lens[i] = len
                                THEN CHOOSE i \in FramesAt(req_buf, len) : Lens[i] = len
                                ELSE 0)
           /\ \/ sqes < SqRoom /\ sqes' = sqes + 1 /\ Advance(len) /\ UNCHANGED phase
              \/ phase' \in {"exited", "closed"} /\ UNCHANGED <<sqes, bytes_read, req_buf>>
    BY <1>5 DEF Handle
  <2>s. UNCHANGED <<buf, off, received, whole>>
    BY <1>5 DEF Handle
  <2>2. len \in Nat
    BY HeaderNat
  <2>3. handled' \in Seq(Nat)
    <3>1. \A i \in FramesAt(req_buf, len) : i \in Nat
      BY Stream DEF FramesAt
    <3>2. (IF \E i \in FramesAt(req_buf, len) : Lens[i] = len
           THEN CHOOSE i \in FramesAt(req_buf, len) : Lens[i] = len
           ELSE 0) \in Nat
      BY <3>1
    <3>3. handled \in Seq(Nat)
      BY DEF WindowInv, RecvTypes
    <3> QED BY <2>1, <3>2, <3>3
  <2>4. CASE sqes' = sqes + 1 /\ Advance(len) /\ UNCHANGED phase
    <3>1. bytes_read' = bytes_read - len /\ req_buf' = req_buf + len
      BY <2>4 DEF Advance
    <3>2. bytes_read' \in Nat /\ req_buf' \in Nat /\ req_buf' + bytes_read' = req_buf + bytes_read
      BY <2>1, <2>2, <3>1 DEF WindowInv, RecvTypes
    <3>3. sqes' \in Nat /\ phase' = phase
      BY <2>4 DEF WindowInv, RecvTypes
    <3> QED BY <2>s, <2>3, <3>2, <3>3 DEF WindowInv, RecvTypes, WindowOpen
  <2>5. CASE phase' \in {"exited", "closed"} /\ UNCHANGED <<sqes, bytes_read, req_buf>>
    BY <2>1, <2>s, <2>3, <2>5 DEF WindowInv, RecvTypes, WindowOpen
  <2> QED BY <2>1, <2>4, <2>5
<1>6. CASE UNCHANGED vars
  BY <1>6 DEF vars, WindowInv, RecvTypes, WindowOpen
<1> QED BY <1>1, <1>2, <1>3, <1>4, <1>5, <1>6 DEF Next, Turn

LEMMA WindowInit == Init => WindowInv
BY Stream DEF Init, WindowInv, RecvTypes, WindowOpen

\* Every receive that handle_recv submits has room in the buffer, and what it
\* parses lies in the buffer, for every buffer, every stream and every way the
\* stream is cut into receives.
THEOREM RecvWindowOpen == Spec => []WindowOpen
<1>1. WindowInv => WindowOpen
  BY DEF WindowInv
<1> QED BY <1>1, WindowInit, WindowNext, PTL DEF Spec
-----------------------------------------------------------------------------
(* RoomUnlessZero.                                                         *)

LEMMA RoomNext == WindowInv /\ RoomInv /\ [Next]_vars => RoomInv'
<1> SUFFICES ASSUME WindowInv, RoomInv, [Next]_vars, ~zero' PROVE RoomInv'
  BY DEF RoomInv
<1>0. /\ Cap \in Nat /\ HdrLen \in Nat /\ HdrLen >= 1 /\ HdrLen <= Cap
      /\ SqRoom \in Nat /\ SqRoom >= Cap - HdrLen + 2
      /\ off \in Nat /\ bytes_read \in Nat /\ sqes \in Nat
  BY Stream DEF WindowInv, RecvTypes
<1>1. ASSUME NEW n \in 1..Cap, Receive(n) PROVE RoomInv'
  <2>1. phase' = "parse" /\ sqes' = 0 /\ bytes_read' = n
    BY <1>1 DEF Receive
  <2> QED BY <1>0, <2>1 DEF RoomInv, RoomAssumed
<1>2. CASE NoHeader \/ Incomplete
  <2>1. phase = "parse" /\ ~zero /\ resume_recv
    BY <1>2 DEF NoHeader, Incomplete, resume_recv
  <2>2. sqes < SqRoom
    BY <1>0, <2>1 DEF RoomInv
  <2>3. phase' = "recv"
    BY <1>0, <2>1, <2>2 DEF resume_recv
  <2> QED BY <2>3 DEF RoomInv, RoomAssumed
<1>3. CASE TooLong \/ EndOfStream
  <2>1. phase' = "closed"
    BY <1>3 DEF TooLong, EndOfStream, disconnect
  <2> QED BY <2>1 DEF RoomInv, RoomAssumed
<1>4. CASE Handle
  <2>1. PICK len \in deser_header :
           /\ bytes_read >= len
           /\ zero' = (zero \/ len = 0)
           /\ \/ sqes < SqRoom /\ sqes' = sqes + 1 /\ Advance(len) /\ UNCHANGED phase
              \/ sqes = SqRoom /\ phase' = "exited"
              \/ phase' = "closed"
    BY <1>4 DEF Handle
  <2>2. phase = "parse" /\ bytes_read >= HdrLen
    BY <1>4 DEF Handle, HeaderThere
  <2>3. len \in Nat /\ len # 0 /\ ~zero
    BY <2>1, HeaderNat
  <2>4. sqes + bytes_read <= Cap
    BY <2>2, <2>3 DEF RoomInv
  <2>5. sqes < SqRoom
    BY <1>0, <2>2, <2>4
  <2>6. CASE sqes' = sqes + 1 /\ Advance(len) /\ UNCHANGED phase
    <3>1. sqes' = sqes + 1 /\ bytes_read' = bytes_read - len /\ phase' = "parse"
      BY <2>2, <2>6 DEF Advance
    <3>2. sqes' + bytes_read' <= Cap /\ sqes' + HdrLen <= Cap + 1
      BY <1>0, <2>1, <2>2, <2>3, <2>4, <3>1
    <3> QED BY <3>1, <3>2 DEF RoomInv, RoomAssumed
  <2>7. CASE phase' = "closed"
    BY <2>7 DEF RoomInv, RoomAssumed
  <2> QED BY <1>0, <2>1, <2>5, <2>6, <2>7
<1>5. CASE UNCHANGED vars
  BY <1>5 DEF vars, RoomInv, RoomAssumed
<1> QED BY <1>1, <1>2, <1>3, <1>4, <1>5 DEF Next, Turn

LEMMA RoomInit == Init => RoomInv
BY DEF Init, RoomInv, RoomAssumed

\* The submission queue has room for all that handle_recv makes of one receive,
\* whatever the length fields are and however the stream is cut, as long as
\* none of them is 0: the loop checks no other bound from below.
THEOREM RecvRoomUnlessZero == Spec => []RoomUnlessZero
<1>1. Init => WindowInv /\ RoomInv
  BY WindowInit, RoomInit
<1>2. (WindowInv /\ RoomInv) /\ [Next]_vars => (WindowInv /\ RoomInv)'
  BY WindowNext, RoomNext
<1>3. RoomInv => RoomUnlessZero
  BY DEF RoomInv, RoomUnlessZero
<1> QED BY <1>1, <1>2, <1>3, PTL DEF Spec
-----------------------------------------------------------------------------
(* InOrderWhole and NoneWaiting.  The frame at hand is the first that was  *)
(* not handled, and if a header of it is there then all of it is.          *)

\* What handle_recv finds when a header is there.
LEMMA FrameThere ==
    ASSUME WindowInv, FrameInv, whole, phase = "parse", HeaderThere
    PROVE  LET f == Len(handled) + 1
           IN  /\ f \in 1..Frames
               /\ Lens[f] \in Nat /\ Lens[f] >= HdrLen /\ Lens[f] <= bytes_read
               /\ Start[f + 1] = Start[f] + Lens[f]
               /\ deser_header = {Lens[f]}
               /\ InOrder
               /\ FramesAt(req_buf, Lens[f]) = {f}
<1>0. PICK f : f = Len(handled) + 1
  OBVIOUS
<1>1. /\ f \in Nat /\ f >= 1 /\ f <= Frames + 1 /\ bytes_read \in Nat /\ req_buf \in Nat
      /\ req_buf + bytes_read <= Cap
      /\ received = Start[f] + bytes_read /\ received \in Boundary
      /\ \A k \in 0..(bytes_read - 1) : buf[req_buf + k] = Start[f] + 1 + k
      /\ bytes_read >= HdrLen /\ Frames \in Nat
      /\ WellFormed(received) /\ InOrder
  <2>1. handled \in Seq(Nat) /\ Len(handled) <= Frames
    BY DEF WindowInv, RecvTypes, FrameInv
  <2>2. /\ received = Start[f] + bytes_read /\ received \in Boundary
        /\ \A k \in 0..(bytes_read - 1) : buf[req_buf + k] = Start[f] + 1 + k
        /\ WellFormed(received) /\ InOrder
    BY <1>0 DEF FrameInv
  <2>3. f \in Nat /\ f >= 1 /\ f <= Frames + 1 /\ Frames \in Nat
    BY <1>0, <2>1, Stream
  <2> QED BY <2>2, <2>3 DEF WindowInv, WindowOpen, RecvTypes, HeaderThere
<1>2. PICK j \in 1..(Frames + 1) : received = Start[j]
  BY <1>1 DEF Boundary
<1>3. /\ f \in 1..(Frames + 1) /\ Start[f] \in Nat /\ Start[j] \in Nat
      /\ HdrLen \in Nat /\ HdrLen >= 1
  BY <1>1, <1>2, Stream
<1>4. f < j
  <2>1. ~(Start[j] <= Start[f])
    BY <1>1, <1>2, <1>3
  <2>2. ~(j <= f)
    BY <1>2, <1>3, <2>1, StartOrder
  <2> QED BY <1>1, <1>2, <2>2
<1>5. f \in 1..Frames /\ f + 1 \in 1..(Frames + 1)
  BY <1>1, <1>2, <1>4
<1>6. Start[f + 1] <= Start[j]
  <2>1. f + 1 <= j
    BY <1>1, <1>2, <1>4
  <2> QED BY <1>2, <1>5, <2>1, StartOrder
<1>7. /\ Lens[f] = Start[f + 1] - Start[f] /\ Lens[f] \in Nat /\ Lens[f] >= HdrLen
      /\ Start[f + 1] \in Nat
  BY <1>5, Stream
<1>8. Lens[f] <= bytes_read
  BY <1>1, <1>2, <1>3, <1>6, <1>7
<1>9. ASSUME NEW len \in Nat, len >= 1, len <= bytes_read PROVE FramesAt(req_buf, len) = {f}
  <2>1. \A k \in 0..(len - 1) : req_buf + k < Cap /\ buf[req_buf + k] = Start[f] + 1 + k
    <3> SUFFICES ASSUME NEW k \in 0..(len - 1)
                 PROVE  req_buf + k < Cap /\ buf[req_buf + k] = Start[f] + 1 + k
      OBVIOUS
    <3>1. k \in Nat /\ k < bytes_read /\ k \in 0..(bytes_read - 1) /\ Cap \in Nat
      BY <1>1, <1>9, Stream
    <3> QED BY <1>1, <3>1
  <2>2. f \in FramesAt(req_buf, len)
    BY <1>5, <2>1 DEF FramesAt
  <2>3. ASSUME NEW i \in FramesAt(req_buf, len) PROVE i = f
    <3>1. 0 \in 0..(len - 1)
      BY <1>9
    <3>2. i \in 1..Frames /\ buf[req_buf + 0] = Start[i] + 1 + 0
      BY <3>1, <2>3 DEF FramesAt
    <3>3. buf[req_buf + 0] = Start[f] + 1 + 0
      BY <2>1, <3>1
    <3>4. i \in 1..(Frames + 1) /\ Start[i] \in Nat
      BY <3>2, Stream
    <3>5. Start[i] = Start[f]
      BY <1>3, <3>2, <3>3, <3>4
    <3> QED BY <1>3, <3>4, <3>5, StartOrder
  <2> QED BY <2>2, <2>3
<1>10. FramesAt(req_buf, HdrLen) = {f}
  BY <1>1, <1>3, <1>9
<1>11. deser_header = {Lens[f]}
  <2>1. Field[f] = Lens[f]
    BY <1>1, <1>2, <1>5, <1>6 DEF WellFormed
  <2> QED BY <1>10, <2>1 DEF deser_header
<1>12. FramesAt(req_buf, Lens[f]) = {f}
  <2>1. Lens[f] >= 1
    BY <1>3, <1>7
  <2> QED BY <1>7, <1>8, <1>9, <2>1
<1>13. Start[f + 1] = Start[f] + Lens[f]
  BY <1>3, <1>7
<1> QED BY <1>0, <1>1, <1>5, <1>7, <1>8, <1>11, <1>12, <1>13

\* What handle_recv finds when none is there: nothing.
LEMMA FrameMissing ==
    ASSUME WindowInv, FrameInv, whole, phase = "parse", ~HeaderThere
    PROVE  bytes_read = 0
<1>0. PICK f : f = Len(handled) + 1
  OBVIOUS
<1>1. /\ f \in 1..(Frames + 1) /\ bytes_read \in Nat
      /\ received = Start[f] + bytes_read /\ received \in Boundary
  <2>1. handled \in Seq(Nat) /\ Len(handled) <= Frames
    BY DEF WindowInv, RecvTypes, FrameInv
  <2>2. f \in 1..(Frames + 1)
    BY <1>0, <2>1, Stream
  <2> QED BY <1>0, <2>2 DEF FrameInv, WindowInv, RecvTypes
<1>2. PICK j \in 1..(Frames + 1) : received = Start[j]
  BY <1>1 DEF Boundary
<1>3. /\ Start[f] \in Nat /\ Start[j] \in Nat /\ HdrLen \in Nat /\ f \in Int /\ j \in Int
      /\ f < j => Start[f] + HdrLen <= Start[j]
  BY <1>1, <1>2, Stream
<1>4. ~(f < j)
  BY <1>1, <1>2, <1>3 DEF HeaderThere
<1>5. Start[j] <= Start[f]
  <2>1. j <= f
    BY <1>3, <1>4
  <2> QED BY <1>1, <1>2, <2>1, StartOrder
<1> QED BY <1>1, <1>2, <1>3, <1>5

\* Every step keeps the stream and the handled requests together.
LEMMA FrameNext == WindowInv /\ FrameInv /\ [Next]_vars => FrameInv'
<1> SUFFICES ASSUME WindowInv, FrameInv, [Next]_vars, whole' PROVE FrameInv'
  BY DEF FrameInv
<1>0. /\ off \in Nat /\ received \in Nat /\ bytes_read \in Nat /\ req_buf \in Nat
      /\ handled \in Seq(Nat) /\ Len(handled) \in Nat
  BY DEF WindowInv, RecvTypes
<1>1. ASSUME NEW n \in 1..Cap, Receive(n) PROVE FrameInv'
  <2>1. /\ whole /\ phase = "recv" /\ n \in 1..(Cap - off) /\ phase' = "parse"
        /\ received' = received + n /\ received' \in Boundary /\ WellFormed(received')
        /\ bytes_read' = n /\ req_buf' = 0 /\ UNCHANGED <<off, handled>>
        /\ buf' = [i \in 0..(Cap - 1) |->
                  IF i \in off..(off + n - 1) THEN received + 1 + i - off ELSE buf[i]]
    BY <1>1 DEF Receive
  <2>2. off = 0 /\ received = Start[Len(handled) + 1] /\ InOrder /\ Len(handled) <= Frames
    BY <2>1 DEF FrameInv
  <2>3. Cap \in Nat
    BY Stream
  <2>4. \A k \in 0..(n - 1) : buf'[0 + k] = received + 1 + k
    <3> SUFFICES ASSUME NEW k \in 0..(n - 1) PROVE buf'[0 + k] = received + 1 + k
      OBVIOUS
    <3>1. 0 + k \in 0..(Cap - 1) /\ 0 + k \in off..(off + n - 1) /\ k \in Int
      BY <2>1, <2>2, <2>3
    <3>2. buf'[0 + k] = received + 1 + (0 + k) - off
      BY <2>1, <3>1
    <3> QED BY <1>0, <2>2, <3>1, <3>2
  <2>5. InOrder' /\ Boundary' = Boundary /\ WellFormed(received)'
    BY <2>1, <2>2 DEF InOrder, Boundary, WellFormed, Frames, Lens
  <2> QED BY <2>1, <2>2, <2>4, <2>5 DEF FrameInv
<1>2. CASE NoHeader
  <2>1. /\ phase = "parse" /\ ~HeaderThere /\ whole
        /\ phase' = "exited" \/ (phase' = "recv" /\ off' = bytes_read)
        /\ UNCHANGED <<received, handled>>
    BY <1>2 DEF NoHeader, resume_recv
  <2>2. bytes_read = 0
    BY <2>1, FrameMissing
  <2>3. /\ InOrder /\ Len(handled) <= Frames /\ received = Start[Len(handled) + 1] + bytes_read
        /\ WellFormed(received)
    BY <2>1 DEF FrameInv
  <2>4. Start[Len(handled) + 1] \in Nat
    BY <1>0, <2>3, Stream
  <2>5. InOrder' /\ WellFormed(received)'
    BY <2>1, <2>3 DEF InOrder, WellFormed
  <2> QED BY <2>1, <2>2, <2>3, <2>4, <2>5 DEF FrameInv
<1>3. CASE TooLong \/ EndOfStream
  BY <1>3 DEF TooLong, EndOfStream, disconnect, FrameInv, InOrder, WellFormed
<1>4. CASE Incomplete
  <2>1. phase = "parse" /\ HeaderThere /\ whole
    BY <1>4 DEF Incomplete, resume_recv
  <2>2. PICK len \in deser_header : bytes_read < len
    BY <1>4 DEF Incomplete
  <2>3. len <= bytes_read
    BY <2>1, <2>2, FrameThere
  <2>4. len \in Nat
    BY HeaderNat
  <2> QED BY <1>0, <2>2, <2>3, <2>4
<1>5. CASE Handle
  <2>0. PICK f : f = Len(handled) + 1
    OBVIOUS
  <2>1. PICK len \in deser_header :
           /\ bytes_read >= len
           /\ handled' = IF ~InOrder THEN handled
                         ELSE Append(handled,
                                IF \E i \in FramesAt(req_buf, len) : Lens[i] = len
                                THEN CHOOSE i \in FramesAt(req_buf, len) : Lens[i] = len
                                ELSE 0)
           /\ \/ sqes < SqRoom /\ sqes' = sqes + 1 /\ Advance(len) /\ UNCHANGED phase
              \/ phase' \in {"exited", "closed"} /\ UNCHANGED <<sqes, bytes_read, req_buf>>
    BY <1>5 DEF Handle
  <2>s. UNCHANGED <<buf, off, received, whole>>
    BY <1>5 DEF Handle
  <2>2. whole /\ phase = "parse" /\ HeaderThere
    BY <1>5, <2>s DEF Handle
  <2>3. /\ f \in 1..Frames /\ len = Lens[f] /\ len \in Nat /\ len <= bytes_read /\ len >= HdrLen
        /\ Start[f + 1] = Start[f] + len
        /\ FramesAt(req_buf, len) = {f} /\ InOrder
    BY <2>0, <2>1, <2>2, FrameThere
  <2>4. handled' = Append(handled, f)
    <3>1. (CHOOSE i \in {f} : Lens[i] = len) = f
      BY <2>3
    <3> QED BY <2>1, <2>3, <3>1
  <2>5. /\ InOrder /\ received = Start[f] + bytes_read /\ received \in Boundary
        /\ WellFormed(received)
        /\ \A k \in 0..(bytes_read - 1) : buf[req_buf + k] = Start[f] + 1 + k
    BY <2>0, <2>2 DEF FrameInv
  <2>6. Len(handled') = f /\ InOrder'
    <3>1. f \in Nat
      BY <1>0, <2>0
    <3>2. /\ Len(handled') = f /\ handled'[f] = f
          /\ \A i \in 1..Len(handled) : handled'[i] = handled[i]
      BY <1>0, <2>0, <2>4, <3>1
    <3> QED BY <1>0, <2>0, <2>5, <3>2 DEF InOrder
  <2>w. WellFormed(received)'
    BY <2>s, <2>5 DEF WellFormed
  <2>7. CASE phase' \in {"exited", "closed"}
    BY <2>3, <2>6, <2>7, <2>w DEF FrameInv
  <2>8. CASE Advance(len) /\ UNCHANGED phase
    <3>1. /\ bytes_read' = bytes_read - len /\ req_buf' = req_buf + len
          /\ phase' = "parse" /\ UNCHANGED <<buf, received>>
      BY <2>s, <2>2, <2>8 DEF Advance
    <3>2. Start[f] \in Nat /\ Start[f + 1] \in Nat
      BY <2>3, Stream
    <3>3. received = Start[f + 1] + (bytes_read - len)
      BY <1>0, <2>3, <2>5, <3>2
    <3>4. ASSUME NEW k \in 0..(bytes_read - len - 1)
          PROVE  buf[(req_buf + len) + k] = Start[f + 1] + 1 + k
      <4>1. len + k \in 0..(bytes_read - 1) /\ (req_buf + len) + k = req_buf + (len + k) /\ k \in Int
        BY <1>0, <2>3
      <4>2. buf[req_buf + (len + k)] = Start[f] + 1 + (len + k)
        BY <2>5, <4>1
      <4>3. Start[f] + 1 + (len + k) = Start[f + 1] + 1 + k
        BY <2>3, <3>2, <4>1
      <4> QED BY <4>1, <4>2, <4>3
    <3>5. Boundary' = Boundary
      BY DEF Boundary
    <3> QED BY <2>3, <2>5, <2>6, <2>w, <3>1, <3>3, <3>4, <3>5 DEF FrameInv
  <2> QED BY <2>1, <2>7, <2>8
<1>6. CASE UNCHANGED vars
  BY <1>6 DEF vars, FrameInv, InOrder, WellFormed
<1> QED BY <1>1, <1>2, <1>3, <1>4, <1>5, <1>6 DEF Next, Turn

LEMMA FrameInit == Init => FrameInv
<1> SUFFICES ASSUME Init PROVE FrameInv
  OBVIOUS
<1>1. handled = <<>> /\ Len(handled) = 0 /\ off = 0 /\ received = 0 /\ phase = "recv"
  BY DEF Init
<1>2. WellFormed(received)
  <2> SUFFICES ASSUME NEW i \in 1..Frames PROVE ~(Start[i + 1] <= 0)
    BY <1>1 DEF WellFormed
  <2>1. /\ i + 1 \in 1..(Frames + 1) /\ 1 \in 1..(Frames + 1) /\ 1 < i + 1
        /\ HdrLen \in Nat /\ HdrLen >= 1 /\ Start[1] = 0
    BY Stream
  <2>2. Start[i + 1] \in Nat /\ Start[1] + HdrLen <= Start[i + 1]
    BY <2>1, Stream
  <2> QED BY <2>1, <2>2
<1> QED BY <1>1, <1>2, Stream DEF FrameInv, InOrder

\* handle is given every request once, complete and in the order sent, as long
\* as every receive ends with the end of a frame and the lengths are right.
THEOREM RecvInOrderWhole == Spec => []InOrderWhole
<1>1. Init => WindowInv /\ FrameInv
  BY WindowInit, FrameInit
<1>2. (WindowInv /\ FrameInv) /\ [Next]_vars => (WindowInv /\ FrameInv)'
  BY WindowNext, FrameNext
<1>3. FrameInv => InOrderWhole
  BY DEF FrameInv, InOrderWhole
<1> QED BY <1>1, <1>2, <1>3, PTL DEF Spec

\* The frames that have arrived in full are those before the first that was
\* not handled.
LEMMA ArrivedHandled == WindowInv /\ FrameInv => NoneWaiting
<1> SUFFICES ASSUME WindowInv, FrameInv, whole, phase = "recv"
             PROVE  Len(handled) >= Cardinality({i \in 1..Frames : Start[i + 1] <= received})
  BY DEF NoneWaiting
<1> PICK h : h = Len(handled)
  OBVIOUS
<1>1. h \in Nat /\ h <= Frames /\ received = Start[h + 1] /\ Frames \in Nat
  BY Stream DEF WindowInv, RecvTypes, FrameInv
<1>2. {i \in 1..Frames : Start[i + 1] <= received} = 1..h
  <2>1. h + 1 \in 1..(Frames + 1)
    BY <1>1
  <2>2. ASSUME NEW i \in 1..Frames PROVE Start[i + 1] <= received <=> i \in 1..h
    <3>1. i + 1 \in 1..(Frames + 1)
      BY <1>1
    <3>2. i + 1 <= h + 1 <=> Start[i + 1] <= Start[h + 1]
      BY <2>1, <3>1, StartOrder
    <3> QED BY <1>1, <3>2
  <2>3. \A i \in 1..h : i \in 1..Frames
    BY <1>1
  <2> QED BY <2>2, <2>3
<1>3. Cardinality(1..h) = h
  <2>1. 1 \in Int /\ h \in Int
    BY <1>1
  <2>2. Cardinality(1..h) = IF 1 > h THEN 0 ELSE h - 1 + 1
    BY <2>1, FS_Interval
  <2> QED BY <1>1, <2>2
<1>4. Cardinality({i \in 1..Frames : Start[i + 1] <= received}) = h
  BY <1>2, <1>3, Zenon
<1> QED BY <1>1, <1>4

\* No complete request waits in the buffer while handle_recv waits for more,
\* under the same condition.
THEOREM RecvNoneWaiting == Spec => []NoneWaiting
<1>1. Init => WindowInv /\ FrameInv
  BY WindowInit, FrameInit
<1>2. (WindowInv /\ FrameInv) /\ [Next]_vars => (WindowInv /\ FrameInv)'
  BY WindowNext, FrameNext
<1> QED BY <1>1, <1>2, ArrivedHandled, PTL DEF Spec
=============================================================================
