-------------------------------- MODULE Query --------------------------------
(***************************************************************************)
(* How a REQ is answered from the store (query_filter in                   *)
(* src/src/subscription.rs).  The filter picks one index and the keys to   *)
(* look up in it; each lookup locks one set and copies it, up to the limit *)
(* of the filter; the other conditions are applied to what was collected.  *)
(* Between two lookups the store may change.                               *)
(*                                                                         *)
(* The module says nothing about how the store changes: Requests.tla adds  *)
(* the tasks that do it.                                                   *)
(***************************************************************************)
EXTENDS RelayStore

CONSTANTS
    Filters,      \* the filters clients send
    MaxLimit      \* RelayConfig::max_limit

IsSeq(list) == list \in Seq(Range(list))

ASSUME QueryAssumption ==
    /\ MaxLimit \in Nat
    /\ \A f \in Filters :
         /\ DOMAIN f = {"ids", "kinds", "authors", "tags", "since", "until", "limit"}
         /\ f.limit # None => f.limit \in Nat
         /\ \A list \in {f.ids, f.kinds, f.authors} : list # None => IsSeq(list)
         /\ IsFiniteSet(DOMAIN f.tags)
         /\ \A l \in DOMAIN f.tags : f.tags[l] \in Seq(DOMAIN Bytes)

VARIABLES
    qpc,          \* the query task: "idle", "read" or "done"
    filter,       \* the filter it runs, as prepare_filters left it
    plan,         \* the lookups it still has to do
    found,        \* candidates; for shards the heap, newest first
    answer,       \* the events it returns
    throughout,   \* history: the events stored all the time since it started
    seen          \* history: the events stored at some time since it started

query == <<qpc, filter, plan, found, answer>>

-----------------------------------------------------------------------------
(* Filters.  A field is None if the client did not give it; tags is a function *)
(* from the letters it gave to the values; the other lists are sequences.      *)

\* The condition is given and its list is not empty.
Given(list) == list # None /\ list # <<>>
UsesTag(f, letter) == letter \in DOMAIN f.tags /\ f.tags[letter] # <<>>
GenericLetters(f) == DOMAIN f.tags \ {"e", "p"}
HasGenericTags(f) == \E l \in GenericLetters(f) : UsesTag(f, l)

\* prepare_filters.  (The hex values it parses ahead are parsed in Plans.)
Prepare(f) ==
    [f EXCEPT !.limit = IF f.limit # None /\ f.limit < MaxLimit THEN f.limit ELSE MaxLimit]

InTime(f, e) ==
    /\ f.since # None => CreatedAt[e] >= f.since
    /\ f.until # None => CreatedAt[e] <= f.until

\* Filter::matches_event, the test for live events.
MatchesEvent(f, e) ==
    /\ InTime(f, e)
    /\ f.kinds # None => Kind[e] \in Range(f.kinds)
    /\ f.ids # None => e \in Range(f.ids)
    /\ f.authors # None => Author[e] \in Range(f.authors)
    /\ \A l \in DOMAIN f.tags : HasTag(e, l, Range(f.tags[l]))

-----------------------------------------------------------------------------
(* The query plan and the conditions that are left after it. *)

LookupsBug(index, keys) ==
    [i \in DOMAIN Take(keys, 1) |-> [index |-> index, key |-> keys[i]]]
Lookups(index, keys) == [i \in DOMAIN keys |-> [index |-> index, key |-> keys[i]]]

\* Values of #e and #p that are not 32 bytes of hex are not looked up.
Parsed(values) ==
    LET hex == At(values, {i \in DOMAIN values : Bytes[values[i]] # None})
    IN  [i \in DOMAIN hex |-> Bytes[hex[i]]]

\* The lookups of a filter.  Of several other letters the hash map gives any one,
\* one without values included.
Plans(f) ==
    IF Given(f.ids) THEN {Lookups("id", f.ids)}
    ELSE IF UsesTag(f, "e") THEN {Lookups("e", Parsed(f.tags["e"]))}
    ELSE IF UsesTag(f, "p") THEN {Lookups("p", Parsed(f.tags["p"]))}
    ELSE IF HasGenericTags(f)
      THEN {Lookups("tag", [i \in DOMAIN f.tags[l] |-> <<l, f.tags[l][i]>>]) :
              l \in GenericLetters(f)}
    ELSE IF Given(f.authors) THEN {Lookups("author", f.authors)}
    ELSE IF Given(f.kinds) THEN {Lookups("kind", f.kinds)}
    ELSE {Lookups("shard", [i \in 1 .. Shards |-> i])}

\* The letters whose condition is not tested again.
Skipped(f, l) ==
    \/ Given(f.ids)
    \/ l \in {"e", "p"} /\ UsesTag(f, l)
    \/ l \notin {"e", "p"} /\ HasGenericTags(f)

ConditionsBug(f, e) ==
    /\ f.kinds # None => Kind[e] \in Range(f.kinds)
    /\ f.authors # None => Author[e] \in Range(f.authors)
    /\ \A l \in DOMAIN f.tags : Skipped(f, l) \/ HasTag(e, l, Range(f.tags[l]))

\* The AND filter over the candidates.
Conditions(f, e) ==
    /\ InTime(f, e)
    /\ f.kinds # None => Kind[e] \in Range(f.kinds)
    /\ f.authors # None => Author[e] \in Range(f.authors)
    /\ \A l \in DOMAIN f.tags : Skipped(f, l) \/ HasTag(e, l, Range(f.tags[l]))

\* One set, newest first, up to the limit; query_by_pubkey_since stops at the first
\* event that is too old.
FetchBug(S, f, look) ==
    Take(Reverse(NewestFirst(IndexSet(S, look.index, look.key))), f.limit)
Fetch(S, f, look) ==
    LET set == IndexSet(S, look.index, look.key)
        young == IF look.index = "author" /\ f.since # None
                   THEN {e \in set : CreatedAt[e] >= f.since} ELSE set
    IN  Take(NewestFirst(young), f.limit)

ResultBug(f, candidates) == Take(SelectSeq(candidates, LAMBDA e : Conditions(f, e)), f.limit)

\* The conditions, each event once, and the limit again.
Result(f, candidates) ==
    LET first == {i \in DOMAIN candidates :
                    /\ Conditions(f, candidates[i])
                    /\ \A j \in 1 .. i - 1 : candidates[j] # candidates[i]}
    IN  Take(At(candidates, first), f.limit)

-----------------------------------------------------------------------------

QueryInit ==
    /\ qpc = "idle" /\ filter = None /\ plan = <<>> /\ found = <<>> /\ answer = <<>>
    /\ throughout = {} /\ seen = {}

\* The query task starts.
Request(f) ==
    /\ qpc = "idle"
    /\ qpc' = "read"
    /\ filter' = Prepare(f)
    /\ plan' \in Plans(Prepare(f))
    /\ found' = <<>> /\ answer' = <<>>
    /\ throughout' = stored /\ seen' = stored

\* One lookup; with the last one the answer is put together.  The heap of
\* get_newest is emptied newest first and then reversed.
Read ==
    LET look == Head(plan)
        last == Tail(plan) = <<>>
        more == IF look.index = "shard"
                  THEN NewestFirst(MergeNewest(Range(found), stored, look.key, filter.limit))
                  ELSE found \o Fetch(stored, filter, look)
    IN  /\ qpc = "read" /\ plan # <<>>
        /\ plan' = Tail(plan)
        /\ found' = IF last THEN <<>> ELSE more
        /\ answer' = IF ~last THEN <<>>
                     ELSE Result(filter, IF look.index = "shard" THEN Reverse(more) ELSE more)
        /\ qpc' = IF last THEN "done" ELSE "read"
        /\ UNCHANGED <<filter, throughout, seen>>

\* No key at all: nothing is collected.
ReadNothing ==
    /\ qpc = "read" /\ plan = <<>>
    /\ qpc' = "done"
    /\ UNCHANGED <<filter, plan, found, answer, throughout, seen>>

QueryStep == (\E f \in Filters : Request(f)) \/ Read \/ ReadNothing

\* The history of a query while the store changes.
Observe ==
    /\ throughout' = IF qpc = "read" THEN throughout \cap stored' ELSE throughout
    /\ seen' = IF qpc = "read" THEN seen \cup stored' ELSE seen

=============================================================================
