# caht: a verification project

TLA+ models of the chat server in this repository, checked with TLC on small
instances and proved about with TLAPS for every value of the constants.

## 1. The system

`main.c` opens a listening socket and an io_uring with 4096 submission
entries, creates the containers below and enters `server_start`, which never
returns. The process has one thread. Everything concurrent in it comes from
the ring: the kernel accepts connections, receives, sends and fails while the
loop handles earlier completions, and the loop prepares submissions that the
kernel sees only at the end of the round.

| part | source | state | operations |
|---|---|---|---|
| event loop, handlers | `server.c`, `op.c` | the ring, `next_client_id`, the `Operation`s in flight | wait / peek / submit; `handle_accept`, `handle_recv`, `handle`, `handle_send`, the failure paths |
| receive framing | `handle_recv`, `deser_header` | the 2 KB buffer of a client's receive | cut into requests, keep what is left |
| operation pool | `op_pool.c` | `ops`, the stack of free `pool_id`s | new entry, get, return, deinit |
| buffer slabs | `slab.c` | the stack of free buffers, a counter in each buffer | acquire with n references, release, deinit |
| client map | `client_map.c` | buckets of linked `ClientInfo`s, an array of free nodes | new entry, get, delete, deinit |
| client id set | `cid_set.c` | open-addressing slots, an iterator | insert, grow, exists, iterate in batches |
| groups | `groups.c` | buckets of linked groups, each with a client id set | create, insert, get |
| wire protocol | `protocol.c`, `utils.c` | none | `ser_*`, `deser_*`, `htonll`, `ntohll` |
| start-up, utilities | `main.c`, `utils.c` | none | socket set-up; `must_*` end the process on failure |
| load client | `client.c` | a ring of its own, the counters of a run | connect, rounds of sends and receives, peek |
| test client | `test_protocol.c` | none | a script |

How they interact: a completion carries a `pool_id`; the loop looks the
`Operation` up in the pool and its client up in the map by `client_id`. An
`Operation` names a buffer of one of the two slabs and a descriptor *number*.
A client has one `Operation` that accepts and then receives for it, and one
for every response that is under way. The first failure of any of them closes
the socket and removes the client; the others find it gone and are only
freed. Several responses of one client may be in the kernel at once, each a
send of its own. `groups.c` and `cid_set.c` are tested but not linked into the
server. `client.c` is a program of its own for an earlier protocol; it shares
`utils.c` and the way it uses a ring.

What is hard: an `Operation` or buffer recycled while the ring still refers to
it; a descriptor closed in one handler and reused by the kernel before a
submission that names it is submitted; the queue of submissions running full
inside a handler; short writes resumed with a recycled `Operation`, or behind
another response; a frame that arrives in two receives; lengths and counts
that contradict each other; free lists at their capacity; clearing a node
that is still linked; an iterator read while its set is changed; completions
of one run that the next one meets. `PROJECT.json` lists each with its line under
`hazards`.

## 2. The modules

    RefPool  <-- refined by --  OpPool     ClientTable <-- refined by -- ClientMap
       ^                        Slab
       |  (pool, slab64, slab2k)
    Server        RecvBuffer    Protocol <- Session    CidSet <- Groups    LoadClient

    SeqLemmas <- PoolProofs, ClientMapProofs, ServerProofs, GroupsProofs, SessionProofs
    RecvBufferProofs, LoadClientProofs

**RefPool** is what an allocator promises: an item is handed out only when
nobody holds it, for n holders, and is available again when the last holder
gave it back.

**Slab**, **OpPool** translate `slab.c` and `op_pool.c`. Only the entries
below `len` of a growable array are ever read, so the array is a sequence; the
capacity is a variable of its own because growth and the store are separate
statements. `held` and `lent` record what callers have; the counter in the
buffer (`ref`) is kept apart from it, so a wrong counter shows. A failed
allocation ends the process (`must_malloc`) and is not a step. `OpPool` keeps
of an `Operation` whether its `client_fd` and `buf_ref` honour the contract in
`op_pool.h`: callers fill them in (`use_entry`) and clear them (`clear_entry`),
and the assertions of `op_pool_return` are a guard, behind which the process is
gone. `op_pool_get` is its assertion. `slab_deinit` and `op_pool_deinit` are last steps: the arrays are
freed, which `cap = 0` (`ops_cap = 0`) records, and nothing is called after
them. The slab frees what is in its array and leaves the buffers that are
held to their holders; the pool frees every Operation.

**ClientMap** keeps the heap: `node[n]` has the fields of a `ClientInfo`, the
buckets point to nodes, and the recycled node of `client_map_new_entry` is
*not* cleared, as in the code. `client_map_delete` on an empty bucket is left
out: the code dereferences NULL there, and the server deletes only ids it has
just found. **ClientTable** is the table of stable pointers the server relies
on (the kernel writes the peer's address through one). `client_map_deinit` counts
how often each node is freed by the two loops.

**CidSet** has linear probing, growth by rehashing slot by slot and reading in
batches as operators on a set `[ids, len]`. `HASH_MULT` is represented by its
16 low bits: a capacity of 2^k looks at k of them. **Groups** is `groups.c` on
top of it: the lists of groups, `groups_insert`, `groups_get`, and one
iterator, which points into the slots of its group and goes on while ids are
inserted there and elsewhere. Two things end what the model follows, both
undefined in C: a bucket `groups_create` has left uninitialised (any bucket
may start `Wild`; following it sets `lost`), and an iterator whose slots were
freed by growth. `groups_insert` returns false on every path, against
`groups.h:25-28`; nobody reads it, so the model has no result for it. `Empty`
as an id, at which the process exits, is not offered.

**Server** is the loop, every handler and the kernel. Its containers are the
abstract ones: `pool`, `slab64` and `slab2k` are instances of RefPool, and
`clients` is a function. One action is one handler call, with one exception:
`handle_recv` is split into an action per request (`handle`) and a last one
(`resume_recv`), so that the submission queue may run full and kernel steps
may happen between two requests. `pc` is the place in `server_start`: `wait`,
`one` (handling the completion that was waited for), `many` (the peeked
batch), `submit`, or one of three ends of the process. An action that ends the
process leaves memory as it was: nobody looks at it again.
The kernel's actions (`submit_sqe`, `Kernel*`) are external: accept takes the
lowest free descriptor, a descriptor is resolved when the entry is submitted,
send takes any number of the bytes that remain, everything may fail.
`peer[o]` and `sent[o]` are history: the connection an Operation is meant for
and the bytes the kernel took.
A request is kept as what `handle` makes of it: a username, a refused
username, or anything else, which drops the client (`MSGT_CREATE_GROUP` falls
through to the default case).

**RecvBuffer** looks inside `handle_recv`. A byte is known by its place in
the client's stream, so the buffer shows which bytes are really parsed. The
frames are given as the places where they start (`Start`), a header or more
apart, and the length each carries in its header (`Field`), which is the
client's to choose and may be any number, 0 included. Where no frame starts,
`deser_header` yields any length. `sqes` counts the submission entries one call
takes, a response for each request and the next receive at the end, out of
`SqRoom`; without one the process exits. `whole` and `zero` are history: every
receive so far has ended with the end of a frame and the lengths received were
right; a request of length 0 was met. The record of what `handle` was given
ends with the first that is not the client's next one.

`Turn` is one turn of the loop, and handle_recv is fair to itself: it waits
for nobody.

**Protocol** has every `ser_*` and `deser_*` function as an operator on
sequences of bytes, with lengths cut to 16 bits, `uname_len` wrapped around as
a `size_t` and 64-bit values as the eight bytes they have in memory on a
little-endian machine, so that `htonll` is what it does to them. The assertions
of `ser_set_username` and `ser_create_group` on the caller's buffer and on the
count end the client's process; the operators give the bytes where they hold.
**Session** is one client's conversation on top of it: the client encodes
usernames at and beyond both limits, groups with the right and a wrong count,
and bare headers with a length below their own; `handle` decodes and answers;
the answers are Operations in the kernel that are written in pieces and
resumed, in any order, to one stream of bytes (`wire`), which the properties
cut into messages the way a client does. Requests arrive whole; after a length
below the header the parser is out of step with the client, whose requests the
model stops there. No request is longer than the receive buffer: `handle_recv`
drops the client of a longer one before `handle` sees it, and
`SessionAssumption` says so of the usernames and lists that are offered. The
message types `protocol.c` only describes have no code.

**LoadClient** is `client.c`: `connect_server`, the rounds of `run_client` and
the loop of `main`, on one ring for all runs. A send that succeeds posts no
completion (`IOSQE_CQE_SKIP_SUCCESS`), so only those that will fail are kept.
A completion left by an earlier run points into freed buffers, and that of a
connect to nothing; what its type reads as is open. `left` is history: how many
such operations there were when the run began. The parsing of arguments is left out.

**MC\*** give constants to TLC. The allocator of Server offers the lowest free
item there (`Offer`): Operations and buffers are interchangeable, so the
order in which they are chosen changes nothing. Proofs leave `Offer` open.
**MCMemory** puts the pool, a slab and the map side by side; they share nothing,
so each works while the others are as they were created.

## 3. Runs

| run | question | result |
|---|---|---|
| `memory` | of what the server recycles (Operations, buffers, nodes of clients), is anything free and held, lost, stale or stored past a capacity? do `slab.c` and `op_pool.c` implement RefPool and `client_map.c` ClientTable? | holds |
| `groups` | probing ends, growth loses nothing, groups in one bucket do not hide each other, iteration returns every member once | holds |
| `recv` | parsing stays in the buffer, the next receive has room; while receives end with a frame and lengths are right, every request is handled once and in order; without a length of 0 the loop ends and the submission queue has room | holds |
| `recv_split` | receives that end anywhere: requests are handed on as sent | **violated** |
| `recv_zero` | "We assume ring will have enough room", with a length field of 0 | **violated** |
| `server_reuse` | ownership of Operations, buffers, sockets and offsets with descriptor reuse and a queue that may run full; no socket is closed twice | holds |
| `server_two_clients` | two clients at once, a queue of exactly `RoundMax` entries: never full; prepared submissions are submitted, responses end | holds |
| `server_failure` | "If an operation fails, server disconnects the client and frees the op" | **violated** |
| `server_connection` | a response goes to the client that asked | **violated** |
| `session` | the name is the last good one asked for; decoding is the inverse of encoding, in network order; the stream is whole answers; the bytes of each are written once | holds |
| `load_client` | every run submits each message once; no completion is counted twice, whatever earlier runs have left; the program ends | holds |
| `load_client_connect` | "Connected to server": the connect has completed when the run begins | **violated** |

The five violations, with the line each contradicts, are in `PROJECT.json`
under `findings`:

1. `recv_split`: the bytes left from one receive are not counted with the
   next, and the `memmove` length is the room instead of the rest.
2. `server_failure`: a failed accept closes descriptor -1 and ends the process.
   `ClosedOnce` says that no close fails for another reason.
3. `server_connection`: a send is bound to a descriptor number when it is
   prepared and resolved when the batch is submitted; a drop and an accept in
   between redirect it.
4. `recv_zero`: `handle_recv` compares no length with the header's. A length of
   0 is answered and leaves the loop at the same request, which is answered
   again until there is no submission entry and the process exits.
5. `load_client_connect`: `connect_server` takes the first completion there is
   for its own. A run that stops after its last round of sends (`client.c:119`)
   usually leaves receives behind, and one of these is then what the next
   connect is judged by.

What a property is stated *under* is as much a result as what it says:

* `RingHasRoom` needs `RoundMax = (CQE_BATCH_SIZE + 1) * (requests per receive
  + 1)` entries. For the shortest usernames (14 bytes, 146 in 2 KB) that is
  33 * 147 = 4851, for bare headers (11 bytes) 33 * 187 = 6171, and `QUEUE_SIZE`
  is 4096: for such clients "We assume ring will have enough room"
  (`server.c:329-330`) is not given. Lengths below a header, which
  `handle_recv` accepts, give more, and a length of 0 has no bound: that is
  finding 4. Server bounds the requests of a receive by `MaxReqs`.
* `WholeAnswers` excludes that a client pipelines requests *and* writes are
  short: the rest of a response is then sent behind the next one, and the
  client cannot take the stream apart. `BytesOnce` holds always.
* `InOrderWhole` and `NoneWaiting` need receives that end with a frame and
  frames that carry their own length.
* `ParseEnds` and `RoomUnlessZero` hold for every other length, below a header
  too: a request of at least one byte makes what is left shorter.
* `IteratesOnce` holds until the set grows.

`protocol.c:46` gives `6 <= len <= 18` for SET_USERNAME, from before the seqid
was in the header; the code accepts 14 to 26, as the limits on the username
require, and `LastGoodName` is stated on these.

Because of 3, `ClientSockets` speaks of what the *server* closes and stores,
which is right, and not of what a submission is bound to.

**Bounds.** `memory` has five Operations, five buffers with up to two references
and four nodes; three of its four ids share a bucket. Two connections on one descriptor force reuse of the number; two
on two descriptors force interleaving of live clients. Two requests in one
receive with a batch of two reach every order of response, drop and later
completion; five Operations and three buffers per slab suffice for two
clients with two responses (a handler that finds none free is not enabled, in
place of a `malloc` that has failed). Responses of one and two bytes give
complete writes, short writes and writes of nothing. `MaxRequests` bounds what peers send in all, `MaxOps`, `Buf`
and `Node` what is allocated. Initial
capacities of 1 or 2 make every array grow at least twice. The sets of
`groups` start with 4 slots instead of 8: three members fill them, so a group
of four (`MaxMembers`) has grown once, with ids that collide at both sizes;
three group ids share two buckets, and batches are of one and two ids.
`session` allows two requests (`MaxAsked`) and two short writes (`MaxShort`),
of any length: enough for a response that is cut twice and for two that are
mixed. `MaxUids` is 2 there, with lists of 0, 2 and 3 ids, and `SizeT` stands
for 2^64 and is only assumed to exceed every length.
`load_client` sends 0, 4 or 7 messages in rounds of three, reads up to two
completions per round and makes two runs, so a run has no, two or three rounds
and begins with receives of the one before open or unread; `MaxFailing` bounds
the failed sends that are open or unread.
`server_reuse` has a queue of two entries, too small for some rounds, so the
process ends for lack of room in `handle_accept`, `resume_recv` and
`handle_send` there; that `handle` itself finds none takes more requests than
the run allows, and is left to the proofs.
The framing runs use a buffer of 5 bytes and a header of 2: what matters
is frames shorter than, equal to and longer than the buffer, bare headers, and
a length below a header. `SqRoom` is 5, the least that `RecvBufferAssumption`
allows, and the run meets it exactly.
They do not check for deadlock, nor does `session`: the client's stream ends.

**Fairness.** `server_two_clients`: the loop's thread runs whenever it is not
blocked in `io_uring_wait_cqe`: weak fairness of `Handler \/ Loop`. A send that
is submitted again and again takes bytes again and again, because its peer
reads or the connection breaks: strong fairness of a send that takes bytes. An
operation on a closed descriptor fails: weak fairness. Nothing is assumed of
peers connecting, sending requests or closing. `recv`: weak fairness of a turn
of the loop, which waits for nobody. `load_client`: weak fairness of the
client's thread and of the kernel answering a connect, which it does at the
latest with a timeout; receives and failed sends need never complete. No
symmetry is used in these runs.

## 4. Proofs

Assumptions are those named in the modules and evaluated by TLC in the runs
(`SlabAssumption`, `OpPoolAssumption`, `ClientMapAssumption`, `ServerAssumption`,
`RecvBufferAssumption`, `ProtocolAssumption`, `SessionAssumption`,
`LoadClientAssumption`, `CidSetAssumption`, `GroupsAssumption`): capacities
start above 0, that of an id set at 4 or more, the markers NoOp, NoBuf,
NoConn lie outside their sets, responses fit a small buffer, a receive
delivers at most `MaxReqs` requests, an allocator offers only free items, the
bytes of a frame are at least those of a header (its length field is open), the
submission queue has an entry for every byte of the buffer that may be a
request (2048 - 11 + 2 = 2039 of 4096, if the queue is empty when `handle_recv`
starts), a request is no longer than the buffer it was
received in, a round of the load client sends more than it reads back, nodes
and groups are finitely many, and the numbers of buckets and of slots are
powers of two (the proofs use only that they are above 0, and the bound 4,
which are stated beside it).

*The allocators* (`PoolProofs`, which extends both, hence the prefixes of the
names in Slab and OpPool).

* `SlabInvariant` (`SlabInv`), `OpPoolInvariant` (`IInv`): `FreeOrHeld` alone is not inductive; it
  needs that the counter in a buffer equals the references that are out, that
  only allocated buffers are held and, for the pool, that at most one caller
  has an Operation and that free ones honour the contract. Each step pushes or
  pops one entry of a sequence without repetition, and `SeqLemmas` says what
  that does to its range. After deinit the arrays are empty and the capacity
  is 0, which the invariant allows only then.
* `SlabImplements`, `OpPoolPromise`: every step is a RefPool step or a stutter
  under `refs <- held` (`lent`), from the invariant.
* `OpPoolContract`: an Operation that leaves the pool is clean, as an action
  property.

*The client map*, for any nodes, ids and number of buckets.

* The invariant `MapInv` exhibits the linked lists of the heap as sequences:
  there is one for each bucket, without repetition, whose nodes are linked in
  its order (`Linked`), belong into the bucket and differ in their ids
  (`Filed`), and every node is in one list, in the free array or with malloc
  (`Kept`). `client_map_new_entry` appends to one sequence and
  `client_map_delete` takes one entry out of one.
* That `Nth`, which follows the links, walks along the sequence is an induction
  over the list. It is carried out with a least counterexample: `LeastNat`
  is the well-foundedness of the naturals without an operator parameter,
  `OneWalk` says that two functions that follow the same links agree. From
  there on `client_map_get` is a lookup in a sequence (`GetIs`).
* `MapNodesAccounted`, `MapFreedOnce`, `MapListsSound`, `MapNoStaleUsername`
  follow from `MapInv`. The last needs its part about nodes that are in no
  list: they hold no username, because `client_map_delete` clears them.
* `MapTable`: from `MapInv`, `client_map_get` finds the node in use whose
  `client_id` is the id (`GetsHolder`), a formula without lists; a step then
  changes that for one id, which is a ClientTable step, or for none.

*The groups and their id sets*, for any ids, multiplier and numbers of buckets
and slots.

* Of one set, `Sound` says that every id is where its probe leads (`Probed`:
  the slots that the probe passes are taken by other ids) and that `len`
  counts both the ids and the slots taken. A probe then ends where its id is or
  in a gap; `cid_set_insert` fills the gap, which ends no other probe too soon
  (`AddsProbed`). `cid_set_grow` is a loop over the old slots: that it exists
  and keeps `Sound` for the ids read so far is shown with a least slot at
  which it would not (`RehashExists`, `GrowSound`). Growth comes before the
  set is full because the capacity is 4 or more.
* `GroupsInv` is `TableInv` (the lists of groups as sequences, as in the client
  map; one group per id; its set is `Sound` for the clients that were inserted)
  and `IterInv`: while the set has the slots the iterator began with, the ids
  returned lie before its index and those still owed behind it (`Placed`).
  That insertion leaves every id in its slot is what keeps this true.
* `GroupsGapLeft`, `GroupsHoldsMembers`, `GroupsIteratesOnce` follow from it.

*The event loop*, for any number of clients, Operations, buffers, descriptors
and completions.

* `ServerTypeOK`: one lemma per helper and handler.
* `ServerOneHolder`: OneHolder is inductive with TypeOK. Both queues are read
  as sequences of pool_ids (`Ids`), `Apart` says that the submission queue,
  the kernel, the completion queue, the parser and the pool partition the
  Operations, and there is one lemma for each way an Operation changes hands.
* `ServerRingHasRoom`: the invariant `RoomInv` is a budget. While the first
  completion is handled, the entries prepared, plus `MaxReqs + 1` for each
  completion to come, plus one for each request yet to be parsed and one for
  the next receive, do not exceed `MaxReqs + 1`; while the batch is handled
  they do not exceed `RoundMax`; when the loop waits the queue is empty.
* `ServerBufferOwned`: `BufInv` adds that `buf_cap` of an Operation that is out
  is one of the two capacities, so that `free_op`, which compares it with the
  small one, gives the buffer back to the slab it came from; OneHolder keeps a
  handler from freeing an Operation somebody else still holds.
* `ServerSendOffset`, `ServerResponseComplete`: `SendInv` bounds the offset and
  the bytes the kernel took by the length of the response, and says that the
  Operation the parser hands back to the ring is a receive; `FreedComplete`
  says of one step that the Operation it frees has sent everything or lost its
  client.
* `ServerClientSockets`, `ServerOneReader`, `ServerNoOrphanSocket`,
  `ServerClosedOnce`: none of the four is inductive alone. They are parts of
  one invariant, `ClientInv`, which adds: there is one accept, and its client
  has no descriptor yet; two clients have two descriptors, and none has that
  of an accept that is still to be handled; every id is below
  `next_client_id`, so an Operation that is left over never meets a later
  client of the same id.

*The receive buffer*, for any capacity, header, stream of frames and length
fields.

* `RecvWindowOpen`: `WindowInv` bounds `req_buf`, `bytes_read` and `off` in
  each phase.
* `RecvRoomUnlessZero`: `RoomInv` says that, while no length was 0, the entries
  taken and the bytes still to be parsed are together no more than the buffer
  holds.
* `RecvInOrderWhole`, `RecvNoneWaiting`: `FrameInv` says, while `whole` holds,
  that the frames received carry their own lengths (`WellFormed`), that the
  buffer has the stream's bytes from the start of the next frame and that what
  was received ends with a frame; the number of frames that have arrived is
  then the number handled when nothing is left to parse.

*The load client*, for any number of messages, runs and sizes of a round.

* `LoadAllSentOnce`: `SentInv` says that what was submitted is the messages
  before `num_sent`, in order. A run ends with `num_ack` at its goal, and
  because a peek takes at most `CqeBatch < SendBatch` completions, the answers
  counted stay a round behind what was sent: no run ends early, not even on
  the completions of another.
* `LoadCountedOnce`: `CountInv` says that the answers counted, the operations
  open and the completions unread are together no more than the receives asked
  for and what earlier runs had left. A completion moves an operation from the
  kernel to the queue, and counting takes it out of the queue; a send completes
  only to fail, which is not counted.

*A conversation*, for any usernames and lists of ids, any limit `MaxUids` up
to 255 and any `size_t` above 16 bits.

* `SessionRoundTrip`: lemmas about `htons`, `htonll` and the layout of a
  header, then one for each kind of frame: reading it gives back what was
  written. `AskedInv` says that the k-th request is one the client can make.
* `SessionLastGoodName`: `HandleName` says that `handle` stores the body of an
  acceptable request, whole, and else leaves the name alone, a length below
  the header included, where `uname_len` wraps around to one that is too long.
  `NameInv` names the last acceptable request, or says there is none.
* `SessionBytesOnce`: `StreamInv` says of each Operation that the bytes of its
  response in the stream are as many as it has processed, plus the result of a
  write that is completed and not yet handled; byte i of the stream is then
  the next one of its response, however many others lie between.
* `SessionWholeAnswers`: `CutInv` says that while no write was short a response
  is not begun or all written, that while the client waits one is unfinished
  at most, and that either makes the stream a row of whole responses, each of
  them once, followed by the beginning of one more (`Cut`). `ReplyInv` says
  that each response is the one its request should have. On such a stream
  `Begin`, the client's recursive search for headers, is written down
  explicitly (`Begins`) and shown to be the only function with its equation, by
  a least place where two would differ; `Messages` is then the set of whole
  responses (`CutMessages`), and their seqids tell them apart.

`MapInv`, `BufInv`, `SendInv`, `ClientInv`, `WindowInv`, `FrameInv`, `RoomInv` (of
RecvBuffer), `SentInv`, `CountInv`, `NameInv` and `StreamInv` were checked with
TLC on the instances of the runs before they were proved; `GroupsInv` and `CutInv` assert sequences and functions
that TLC cannot enumerate, so that TLC has checked only what follows from them.

Only model-checked: liveness (`ParseEnds`, `ResponseFinishes`, `Terminates`
and the rest), which is out of the prover's reach. Every invariant of a
passing run is a theorem. Only proved: `FreedOnce`, that `client_map_deinit`
frees every node once; `main` never comes to that call.

## 5. Not modelled

`main.c` is a straight line of set-up around `server_start`, which returns
only by ending the process, so its deinit calls are never reached; the deinit
functions themselves are modelled as last steps of their components.
`test_protocol.c` is a script of reads and writes. Logging and the peer's
address are data nobody decides on. The prime functions, `must_shutdown` and
`acquire_send_buf` are not called.

## 6. Plan

1. done: allocators, client map, event loop, framing, client id set; proofs of
   the allocators, of OneHolder and of RingHasRoom.
2. done: Groups, Protocol and Session, LoadClient, the `*_deinit` operations,
   liveness of the parser, of two clients and of the load client.
3. done: proofs of the ownership of buffers and sockets in the event loop, of
   the send offsets, of the receive buffer, of the load client, of the round
   trip, the name and the stream of a conversation, and of the client map with
   its refinement.
4. done: proofs of the groups and their id sets, with probing, growth and the
   iterator, and of the whole answers a client reads.
