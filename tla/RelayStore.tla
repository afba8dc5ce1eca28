----------------------------- MODULE RelayStore -----------------------------
(***************************************************************************)
(* The event index as one call on it sees it (src/src/store/index.rs): the *)
(* data of an event, which events replace each other, the sets the queries *)
(* read and the merge of the shards of by_oldest.  EventIndex.tla is about *)
(* the steps inside these calls; here a set is read, and an event enters   *)
(* or leaves the index, in one step.                                       *)
(*                                                                         *)
(* A definition whose name ends in Bug is a faulty variant of the one      *)
(* after it: no specification uses it.                                     *)
(***************************************************************************)
EXTENDS Integers, Sequences, FiniteSets, Functions

CONSTANTS
    Events,       \* the events, each named by its id; ids are ordered
    None,         \* an absent field, a value that does not parse
    Author,       \* Author[e]: e.pubkey
    Kind,         \* Kind[e]
    CreatedAt,    \* CreatedAt[e]
    Tags,         \* Tags[e]: the tags of e, a sequence of [name, value]
    Bytes,        \* Bytes[v]: the 32 bytes that the text v is the hex of, or None
    Coordinates,  \* Coordinates[v]: what parse_coordinate makes of v, or None
    Shard,        \* Shard[e]: the shard of by_oldest that e is in
    Shards        \* how many shards there are

ASSUME StoreAssumption ==
    /\ IsFiniteSet(Events) /\ Events \subseteq Nat /\ None \notin Events
    /\ Kind \in [Events -> Nat] /\ CreatedAt \in [Events -> Nat]
    /\ \A e \in Events : \A i \in DOMAIN Tags[e] :
         Tags[e][i].value \in DOMAIN Bytes \cap DOMAIN Coordinates
    /\ \A v \in DOMAIN Coordinates : Coordinates[v] # None => Coordinates[v].d # None
    /\ Shards \in Nat \ {0} /\ Shard \in [Events -> 1 .. Shards]

VARIABLES
    stored,       \* the events in by_id, and in every set they belong to
    tombs         \* the tombstoned ids

store == <<stored, tombs>>

-----------------------------------------------------------------------------
(* The data of an event. *)

IsEphemeral(e) == Kind[e] >= 20000 /\ Kind[e] < 30000
IsAddressable(e) == Kind[e] >= 30000 /\ Kind[e] < 40000
IsReplaceable(e) == (Kind[e] >= 10000 /\ Kind[e] < 20000) \/ IsAddressable(e)
IsDeletionRequest(e) == Kind[e] = 5

HasTag(e, name, values) ==
    \E i \in DOMAIN Tags[e] : Tags[e][i].name = name /\ Tags[e][i].value \in values

\* e_tags and p_tags: the values of the tags of that name that parse.
ParsedTags(e, name) ==
    {Bytes[Tags[e][i].value] : i \in {j \in DOMAIN Tags[e] : Tags[e][j].name = name}} \ {None}

\* d_tag: the first tag named d; "" is a value like any other.
DTag(e) ==
    LET named == {i \in DOMAIN Tags[e] : Tags[e][i].name = "d"}
    IN  IF IsAddressable(e) /\ named # {}
          THEN Tags[e][CHOOSE i \in named : \A j \in named : i <= j].value ELSE None

\* ReplacementKey: an addressable event without a d tag is a plain replaceable one.
ReplacementKey(e) ==
    IF IsReplaceable(e) THEN [pubkey |-> Author[e], kind |-> Kind[e], d |-> DTag(e)] ELSE None

Versions(S, e) ==
    {f \in S \ {e} : IsReplaceable(e) /\ IsReplaceable(f)
                      /\ ReplacementKey(f) = ReplacementKey(e)}

\* EventRef::cmp, the order of every index set: newest first, ties by id.
Before(e, f) == CreatedAt[e] > CreatedAt[f] \/ (CreatedAt[e] = CreatedAt[f] /\ e < f)

\* S in the order of the pairs in lt: the i-th has i - 1 elements before it.
Sorted(S, lt) ==
    [i \in 1 .. Cardinality(S) |->
        CHOOSE e \in S : Cardinality({f \in S : <<f, e>> \in lt}) = i - 1]

NewestFirst(S) == Sorted(S, {p \in S \X S : Before(p[1], p[2])})

\* The values of s at the indices I, in the order they have in s.
At(s, I) ==
    LET at == Sorted(I, {p \in I \X I : p[1] < p[2]})
    IN  [k \in 1 .. Cardinality(I) |-> s[at[k]]]

-----------------------------------------------------------------------------
(* Inserting. *)

\* EventIndex::insert finds the id, or a version that wins; EventStore::insert
\* answers Duplicate to both.
IsDuplicate(S, e) == e \in S \/ \E f \in Versions(S, e) : Before(f, e)

AfterInsertBug(S, e) == S \cup {e}

\* The versions that e replaces go.
AfterInsert(S, e) == (S \ Versions(S, e)) \cup {e}

-----------------------------------------------------------------------------
(* Reading. *)

\* The events of S that an index has under a key.
IndexSet(S, index, key) ==
    CASE index = "id" -> S \cap {key}
      [] index \in {"e", "p"} -> {e \in S : key \in ParsedTags(e, index)}
      [] index = "tag" -> {e \in S : HasTag(e, key[1], {key[2]})}
      [] index = "author" -> {e \in S : Author[e] = key}
      [] index = "kind" -> {e \in S : Kind[e] = key}
      [] index = "shard" -> {e \in S : Shard[e] = key}

Reverse(s) == [i \in 1 .. Len(s) |-> s[(Len(s) - i) + 1]]

Take(s, n) == SubSeq(s, 1, IF n < Len(s) THEN n ELSE Len(s))

\* peek of BinaryHeap<Reverse<EventRef>>: the greatest Reverse is the least
\* EventRef, and that is the newest.
PeekBug(kept) == CHOOSE e \in kept : \A f \in kept \ {e} : Before(f, e)
Peek(kept) == CHOOSE e \in kept : \A f \in kept \ {e} : Before(e, f)

Beats(side, e, top) ==
    IF side = "newest" THEN CreatedAt[e] > CreatedAt[top] ELSE CreatedAt[e] < CreatedAt[top]

\* One event against a heap of at most n.  The loop over a shard breaks at the first
\* event that does not beat the top of the full heap.
Offer(heap, e, n, side) ==
    IF heap.done THEN heap
    ELSE IF Cardinality(heap.kept) < n THEN [heap EXCEPT !.kept = @ \cup {e}]
    ELSE IF Beats(side, e, Peek(heap.kept))
      THEN [heap EXCEPT !.kept = (@ \ {Peek(@)}) \cup {e}]
    ELSE [heap EXCEPT !.done = TRUE]

\* One shard, in the order given.
Merge(kept, order, n, side) ==
    LET heap[i \in 0 .. Len(order)] ==
            IF i = 0 THEN [kept |-> kept, done |-> FALSE]
            ELSE Offer(heap[i - 1], order[i], n, side)
    IN  heap[Len(order)].kept

\* get_newest and get_oldest, one shard.
MergeNewest(kept, S, shard, n) ==
    IF n = 0 THEN {} ELSE Merge(kept, NewestFirst(IndexSet(S, "shard", shard)), n, "newest")

MergeOldest(kept, S, shard, n) ==
    Merge(kept, Reverse(NewestFirst(IndexSet(S, "shard", shard))), n, "oldest")

=============================================================================
