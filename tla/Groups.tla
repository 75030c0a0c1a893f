------------------------------- MODULE Groups -------------------------------
(***************************************************************************)
(* groups.c on top of cid_set.c: a hash table of singly linked groups,     *)
(* each with the set of its members, and one iterator that a caller reads  *)
(* in batches while ids are inserted.  The iterator keeps a pointer to the *)
(* slots of a set; the array is replaced when the set grows, so its        *)
(* capacity tells one array of a group from the next.                      *)
(***************************************************************************)
EXTENDS CidSet, Functions

CONSTANTS
    Grp,         \* the nodes malloc can ever return (bounds the model)
    NULL,
    Wild,        \* a bucket pointer that is whatever malloc left there
    Gid,         \* group ids
    Cid,         \* client ids
    NumGroups,   \* the number of buckets
    MaxBatch,    \* the largest batch a caller asks for
    MaxMembers   \* bound of the model: memberships in all

ASSUME GroupsAssumption ==
    /\ NULL \notin Grp /\ Wild \notin Grp /\ NULL # Wild
    /\ IsFiniteSet(Grp)
    /\ Gid \subseteq Nat
    /\ Cid \subseteq Nat /\ Empty \notin Cid
    /\ NumGroups \in {2^k : k \in 0..30} /\ NumGroups \in Nat \ {0}
    /\ MaxBatch \in Nat \ {0}

VARIABLES
    buckets,    \* the first group of each list
    grp,        \* the groups: gid, next and client_ids
    iter,       \* the iterator: its group, idx and len; group NULL at first
    lost,       \* a wild pointer was followed
    members,    \* what was inserted so far
    at_start,   \* the members of the group when the iteration began
    got         \* the ids the iteration has returned

vars == <<buckets, grp, iter, lost, members, at_start, got>>

malloced == DOMAIN grp

Bucket(gid) == gid % NumGroups

\* The groups of the list that starts at g, as the loops of groups_insert and
\* groups_get meet them; Cardinality(Grp) + 1 of them if it never ends.
List(g) ==
    LET nth[k \in 0..Cardinality(Grp)] ==
            IF k = 0 THEN g
            ELSE IF nth[k - 1] = NULL THEN NULL ELSE grp[nth[k - 1]].next
    IN  {nth[k] : k \in 0..Cardinality(Grp)} \ {NULL}

\* The group of that id, if there is one.
Find(gid) == {g \in List(buckets[Bucket(gid)]) : grp[g].gid = gid}

\* groups_create does not initialise the buckets: memory fresh from the
\* system is zero, recycled memory is not.
groups_create ==
    /\ buckets \in [0..(NumGroups - 1) -> {NULL, Wild}]
    /\ grp = << >>

\* Following a wild pointer is undefined; the model ends there.
follow_wild(gid) ==
    /\ ~lost
    /\ buckets[Bucket(gid)] = Wild
    /\ lost' = TRUE
    /\ UNCHANGED <<buckets, grp, iter, members, at_start, got>>

Reaches(gid) == ~lost /\ buckets[Bucket(gid)] # Wild

\* Mutation of new_group: the list it is put in front of is dropped.
new_group_alone(gid, cid) ==
    \E g \in Grp \ malloced :
        /\ grp' = [h \in malloced \cup {g} |->
               IF h = g THEN [gid |-> gid, next |-> NULL,
                              client_ids |-> cid_set_insert(cid_set_init, cid)]
               ELSE grp[h]]
        /\ buckets' = [buckets EXCEPT ![Bucket(gid)] = g]

\* A new group becomes the head of its list.
new_group(gid, cid) ==
    \E g \in Grp \ malloced :
        /\ grp' = [h \in malloced \cup {g} |->
               IF h = g THEN [gid |-> gid, next |-> buckets[Bucket(gid)],
                              client_ids |-> cid_set_insert(cid_set_init, cid)]
               ELSE grp[h]]
        /\ buckets' = [buckets EXCEPT ![Bucket(gid)] = g]

\* Without memory for a new group nothing changes.
groups_insert(gid, cid) ==
    /\ Reaches(gid)
    /\ \/ /\ Find(gid) = {}
          /\ UNCHANGED vars
       \/ /\ \/ Find(gid) = {} /\ new_group(gid, cid)
             \/ \E g \in Find(gid) :
                    /\ grp' = [grp EXCEPT ![g].client_ids = cid_set_insert(@, cid)]
                    /\ UNCHANGED buckets
          /\ members' = [members EXCEPT ![gid] = @ \cup {cid}]
          /\ UNCHANGED <<iter, lost, at_start, got>>

\* cid_set_iter
iter_of(g) == [grp |-> g, idx |-> 0, len |-> Cap(grp[g].client_ids.ids)]

\* The iterator is set if the group exists, and left alone if not.
groups_get(gid) ==
    /\ Reaches(gid)
    /\ \/ /\ Find(gid) = {}
          /\ UNCHANGED vars
       \/ \E g \in Find(gid) :
              /\ iter' = iter_of(g)
              /\ at_start' = members[gid]
              /\ got' = <<>>
              /\ UNCHANGED <<buckets, grp, lost, members>>

\* The slots the iterator points to have not been freed by growth.
IterLive == iter.grp # NULL /\ iter.len = Cap(grp[iter.grp].client_ids.ids)

\* After the set has grown the iterator reads an array that was freed, which
\* the model does not follow.
cid_iter_next_batch(n) ==
    /\ ~lost
    /\ IterLive
    /\ LET slots == grp[iter.grp].client_ids.ids
       IN  /\ iter' = [iter EXCEPT !.idx = NextIdx(slots, iter.idx, n)]
           /\ got' = got \o BatchIds(slots, iter.idx, n)
    /\ UNCHANGED <<buckets, grp, lost, members, at_start>>

Init ==
    /\ groups_create
    /\ iter = [grp |-> NULL, idx |-> 0, len |-> 0]
    /\ lost = FALSE
    /\ members = [gid \in Gid |-> {}]
    /\ at_start = {}
    /\ got = <<>>

\* The bound: another membership may be added.
Within(gid, cid) ==
    \/ cid \in members[gid]
    \/ Cardinality({m \in Gid \X Cid : m[2] \in members[m[1]]}) < MaxMembers

Next ==
    \/ \E gid \in Gid :
           \/ follow_wild(gid)
           \/ groups_get(gid)
           \/ \E cid \in Cid : Within(gid, cid) /\ groups_insert(gid, cid)
    \/ \E n \in 1..MaxBatch : cid_iter_next_batch(n)
    \/ lost /\ UNCHANGED vars

Spec == Init /\ [][Next]_vars
-----------------------------------------------------------------------------
Live(gid) == buckets[Bucket(gid)] # Wild

\* Every probe ends: each set keeps an empty slot, and len counts the slots
\* that are taken, through insertions of known ids and growth.
GapLeft ==
    \A g \in malloced :
        LET set == grp[g].client_ids
        IN  set.len = Cardinality(Filled(set.ids)) /\ set.len < Cap(set.ids)

\* A lookup finds a group once something was inserted into it, only one, and
\* in it exactly the clients that were: no group is cut off by another in its
\* bucket, no id hidden behind a gap, lost when the set grows or put into
\* another group.
HoldsMembers ==
    \A gid \in {x \in Gid : Live(x)} :
        /\ Cardinality(Find(gid)) = (IF members[gid] = {} THEN 0 ELSE 1)
        /\ \A g \in Find(gid) :
               /\ \A cid \in Cid :
                      cid_set_exists(grp[g].client_ids, cid) <=> cid \in members[gid]
               /\ grp[g].client_ids.len = Cardinality(members[gid])

\* As long as its set does not grow, which frees the slots it reads, an
\* iteration returns no id twice, whatever batches it is read in and whatever
\* is inserted meanwhile, only members of its group, and once it has come to
\* the end, every member there was when it began.
IteratesOnce ==
    /\ \A i, j \in 1..Len(got) : got[i] = got[j] => i = j
    /\ iter.grp # NULL => Range(got) \subseteq members[grp[iter.grp].gid]
    /\ IterLive /\ iter.idx = iter.len => at_start \subseteq Range(got)
=============================================================================
