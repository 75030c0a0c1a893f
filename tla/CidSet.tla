------------------------------- MODULE CidSet -------------------------------
(***************************************************************************)
(* cid_set.c: the members of a group, a hash set of client ids with open   *)
(* addressing and linear probing, and the iterator that reads it in        *)
(* batches, as operators on a set [ids, len].  ids are the slots           *)
(* 0 .. cap - 1.                                                           *)
(***************************************************************************)
EXTENDS Naturals, Sequences, FiniteSets, FiniteSetsExt

CONSTANTS
    InitCap,    \* INIT_CAP
    HashMult,   \* HASH_MULT; a capacity of 2^k looks at its k low bits only
    Empty       \* EMPTY_VAL

\* Below 4 slots the load factor would let the last slot be taken.
ASSUME CidSetAssumption ==
    /\ InitCap \in {2^k : k \in 2..16} /\ InitCap \in Nat /\ InitCap >= 4
    /\ HashMult \in Nat

Cap(slots) == Cardinality(DOMAIN slots)
Blank(c) == [i \in 0..(c - 1) |-> Empty]
Filled(slots) == {i \in DOMAIN slots : slots[i] # Empty}

hash(id, c) == (id * HashMult) % c

cid_set_init == [ids |-> Blank(InitCap), len |-> 0]

\* The number of steps a probe for id takes in slots: to the first slot that
\* is empty or holds id.
Probe(slots, id) ==
    Min({k \in DOMAIN slots :
            slots[(hash(id, Cap(slots)) + k) % Cap(slots)] \in {Empty, id}})

Slot(slots, id) == (hash(id, Cap(slots)) + Probe(slots, id)) % Cap(slots)

cid_set_exists(set, id) == set.ids[Slot(set.ids, id)] = id

insert(set, id) ==
    IF cid_set_exists(set, id) THEN set
    ELSE [ids |-> [set.ids EXCEPT ![Slot(set.ids, id)] = id], len |-> set.len + 1]

\* The ids are inserted again, slot by slot, into an array of twice the
\* size, and counted anew.
cid_set_grow(set) ==
    LET rehashed[i \in 0..Cap(set.ids)] ==
            IF i = 0 THEN [ids |-> Blank(2 * Cap(set.ids)), len |-> 0]
            ELSE IF set.ids[i - 1] = Empty THEN rehashed[i - 1]
            ELSE insert(rehashed[i - 1], set.ids[i - 1])
    IN  rehashed[Cap(set.ids)]

\* Mutation of TooFull: the set grows only when every slot is taken.
TooFull_late(set) == set.len > Cap(set.ids)

\* len >= cap * LOAD_FACTOR
TooFull(set) == 4 * set.len >= 3 * Cap(set.ids)

\* The set grows first, even for an id it has already.
cid_set_insert(set, id) ==
    insert(IF TooFull(set) THEN cid_set_grow(set) ELSE set, id)

\* The slots from idx on that a batch of n ids is read from.
Batch(slots, idx, n) ==
    {i \in Filled(slots) :
        i >= idx /\ Cardinality({j \in Filled(slots) : idx <= j /\ j <= i}) <= n}

\* Mutation of NextIdx: a full batch does not step past its last id.
NextIdx_stays(slots, idx, n) ==
    IF Cardinality(Batch(slots, idx, n)) = n
    THEN Max(Batch(slots, idx, n)) ELSE Cap(slots)

\* The loop stops right after the id that fills the batch, or at the end.
NextIdx(slots, idx, n) ==
    IF Cardinality(Batch(slots, idx, n)) = n
    THEN Max(Batch(slots, idx, n)) + 1 ELSE Cap(slots)

\* The caller's array after the loop: the ids in the order of their slots.
BatchIds(slots, idx, n) ==
    LET from == Batch(slots, idx, n)
    IN  [k \in 1..Cardinality(from) |->
            slots[CHOOSE i \in from : Cardinality({j \in from : j <= i}) = k]]
=============================================================================
