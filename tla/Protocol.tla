------------------------------ MODULE Protocol ------------------------------
(***************************************************************************)
(* protocol.c and the byte-order functions of utils.c: messages as the     *)
(* sequences of bytes that go over the wire.  A uint64_t is the eight      *)
(* bytes it has in the memory of a little-endian machine, lowest first; a  *)
(* length is a number.                                                     *)
(***************************************************************************)
EXTENDS Integers, Sequences, SequencesExt

CONSTANTS
    MaxUids,    \* MAX_UIDS_PER_MSG
    SizeT       \* how many values a size_t has

\* Every 16-bit length is a size_t.
ASSUME ProtocolAssumption ==
    MaxUids \in 0..255 /\ SizeT \in Nat /\ SizeT > 65536

MSGT_SERVER_ERROR == 0
MSGT_SET_USERNAME == 1
MSGT_SET_USERNAME_RESPONSE == 2
MSGT_CREATE_GROUP == 3

HdrLen == 11
ErrorLen == HdrLen + 1
GroupLen == HdrLen + 1

\* The two bytes of a length in network order; what does not fit a uint16_t
\* is cut off.
htons(n) == <<(n \div 256) % 256, n % 256>>

ntohs(b) == 256 * b[1] + b[2]

htonl(w) == Reverse(w)

\* Mutation of htonll: the halves stay where they are.
htonll_halves(v) == htonl(SubSeq(v, 1, 4)) \o htonl(SubSeq(v, 5, 8))

\* The high half goes to the low one and the other way round.
htonll(v) == htonl(SubSeq(v, 5, 8)) \o htonl(SubSeq(v, 1, 4))

ntohll(v) == htonl(SubSeq(v, 5, 8)) \o htonl(SubSeq(v, 1, 4))

Header(len, msgt, seqid) == htons(len) \o <<msgt>> \o htonll(seqid)

deser_header(buf) ==
    [len |-> ntohs(SubSeq(buf, 1, 2)), msgt |-> buf[3],
     seqid |-> ntohll(SubSeq(buf, 4, HdrLen))]

ser_server_error(seqid, code) == Header(ErrorLen, MSGT_SERVER_ERROR, seqid) \o <<code>>

deser_server_error(buf_len, buf) ==
    IF buf_len # ErrorLen THEN [ret |-> -1] ELSE [ret |-> 0, code |-> buf[HdrLen + 1]]

\* uname_len: below a bare header the difference wraps around.
deser_set_username(buf_len) == (buf_len + SizeT - HdrLen) % SizeT

\* What is written if the message fits the caller's buffer and the count is at
\* most MaxUids (ser_create_group): assertions end the client's process else.
ser_set_username(seqid, uname) ==
    Header(HdrLen + Len(uname), MSGT_SET_USERNAME, seqid) \o uname

ser_set_username_response(seqid) == Header(HdrLen, MSGT_SET_USERNAME_RESPONSE, seqid)

\* The count must be one the uids array has room for, and the one the length
\* of the message tells.
deser_create_group(buf_len, buf) ==
    IF buf_len < GroupLen \/ buf[GroupLen] > MaxUids
           \/ 8 * buf[GroupLen] # buf_len - GroupLen
    THEN [ret |-> -1]
    ELSE [ret |-> 0,
          uids |-> [i \in 1..buf[GroupLen] |->
              ntohll(SubSeq(buf, GroupLen + 8 * i - 7, GroupLen + 8 * i))]]

\* See ser_set_username for the assertions.
ser_create_group(seqid, uids) ==
    Header(GroupLen + 8 * Len(uids), MSGT_CREATE_GROUP, seqid)
        \o <<Len(uids)>>
        \o [j \in 1..(8 * Len(uids)) |-> htonll(uids[1 + ((j - 1) \div 8)])[1 + ((j - 1) % 8)]]
=============================================================================
