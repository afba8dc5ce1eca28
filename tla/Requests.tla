------------------------------ MODULE Requests ------------------------------
(***************************************************************************)
(* EVENT and REQ messages together: the tasks of Deletion.tla change the   *)
(* store while the query of Query.tla reads it.                            *)
(***************************************************************************)
EXTENDS Query, Deletion

VARIABLE
    gone          \* history: the events that were out for good when the query started

vars == <<store, deletion, query, throughout, seen, gone>>

\* The deleted events: tombstoned, not stored, and no insert of them is past the check.
Out == {e \in tombs \ stored : \A t \in Tasks : pc[t] = "store" => ev[t] # e}

Init == DeletionInit /\ QueryInit /\ gone = {}

Next ==
    \/ DeletionStep /\ Observe /\ UNCHANGED <<query, gone>>
    \/ /\ QueryStep
       /\ gone' = IF qpc = "read" THEN gone ELSE Out
       /\ UNCHANGED <<store, deletion>>

Spec == Init /\ [][Next]_vars

TypeOK ==
    /\ stored \subseteq Events /\ tombs \subseteq Events
    /\ \A e \in stored : Versions(stored, e) = {}
    /\ pc \in [Tasks -> {"idle", "contains", "tombstoned", "walk", "version", "delete",
                         "bury", "insert", "store", "publish"}]
    /\ \A t \in Tasks : ev[t] = None <=> pc[t] = "idle"
    /\ \A t \in Tasks : target[t] # None <=> pc[t] \in {"version", "delete", "bury"}
    /\ published \subseteq Events
    /\ scan \in 0 .. Shards - 1 /\ batch \subseteq Events /\ settled \subseteq stored
    /\ qpc \in {"idle", "read", "done"}
    /\ found \in Seq(Events) /\ answer \in Seq(Events)
    /\ throughout \subseteq seen /\ seen \subseteq Events

-----------------------------------------------------------------------------
(* Correctness of the deletions. *)

\* A deletion only ever takes an event that its request names: one of the author's
\* own, by id, or a version of a coordinate that is not newer than the request
\* (deletion.rs:9-14), however the store changes between lookup and removal.
OnlyNamedDeleted ==
    [][\A e \in tombs' \ tombs :
         \E t \in Tasks : pc[t] = "bury" /\ IsDeletionRequest(ev[t]) /\ Names(ev[t], e)]_vars

\* When a request has gone through its references, no event it names is left that
\* was stored when it started and all the time since (deletion.rs:11-14).
DeletionComplete ==
    \A t \in Tasks : pc[t] = "walk" /\ ids[t] = {} /\ coords[t] = {} => due[t] = {}

\* Once no message about it is being handled, a stored event was published to the
\* subscribers, whichever of several copies of it was stored (relay.rs:649-657,
\* 713-716).
StoredIsPublished ==
    \A e \in stored : (\A t \in Tasks : ev[t] # e) => e \in published

\* Eviction takes the oldest: of the events that were stored all the while get_oldest
\* went from shard to shard, none that it left out is older than one that it picked
\* (index.rs:643-644: "returns oldest first", "Scans all shards").
EvictsOldest ==
    scan = 0 => \A e \in batch, f \in settled \ batch : CreatedAt[e] <= CreatedAt[f]

-----------------------------------------------------------------------------
(* Correctness of the answers. *)

\* Every value of #e and #p in the filter is 32 bytes of hex.
HexTags(f) ==
    \A l \in DOMAIN f.tags \cap {"e", "p"} : \A v \in Range(f.tags[l]) : Bytes[v] # None

\* An event that was stored all the time, and that the live test would deliver, is
\* in the answer, unless the limit was too low to hold every stored event: one
\* filter means the same for stored and for live events (matches_event and
\* query_filter, subscription.rs).
AnswerComplete ==
    qpc = "done" /\ filter.limit >= Cardinality(Events) /\ HexTags(filter) =>
        \A e \in throughout : MatchesEvent(filter, e) => e \in Range(answer)

\* Every event in the answer passes the live test (subscription.rs:426 "Apply AND
\* filters ... and non-primary tag filters", 438 "Skip the primary tag index we
\* already queried").
AnswerMatches == qpc = "done" => \A e \in Range(answer) : MatchesEvent(filter, e)

\* The filters for which the query tests, or looks up, every condition: no tags
\* beside ids, not both e and p, one other letter at most, no empty list of ids,
\* and lower-case hex.
Plain(f) ==
    /\ f.ids # <<>>
    /\ Given(f.ids) => DOMAIN f.tags = {}
    /\ ~(UsesTag(f, "e") /\ UsesTag(f, "p"))
    /\ HasGenericTags(f) => /\ Cardinality(GenericLetters(f)) = 1
                            /\ ~UsesTag(f, "e") /\ ~UsesTag(f, "p")
    /\ \A l \in DOMAIN f.tags \cap {"e", "p"} : \A v, w \in DOMAIN Bytes :
         v \in Range(f.tags[l]) /\ Bytes[v] = Bytes[w] /\ Bytes[v] # None => v = w

\* AnswerMatches for those filters.
PlainAnswerMatches == qpc = "done" /\ Plain(filter) => AnswerMatches

\* An answer has no event twice, keeps the limit, and holds only events that were
\* stored at some moment of the query (subscription.rs:458-465).
AnswerBounded ==
    qpc = "done" =>
        /\ IsInjective(answer)
        /\ Len(answer) <= filter.limit
        /\ Range(answer) \subseteq seen

NoCondition ==
    [ids |-> None, kinds |-> None, authors |-> None, tags |-> [l \in {} |-> <<>>],
     since |-> None, until |-> None, limit |-> None]

\* The filters with one condition, of one value; a lower time bound may come with an
\* author.
OneCondition(f) ==
    /\ Plain(f) /\ f.ids = None /\ f.until = None
    /\ \/ Given(f.authors) /\ Len(f.authors) = 1 /\ f.kinds = None /\ DOMAIN f.tags = {}
       \/ /\ f.since = None /\ f.authors = None
          /\ \/ Given(f.kinds) /\ Len(f.kinds) = 1 /\ DOMAIN f.tags = {}
             \/ f.kinds = None /\ \E l \in DOMAIN f.tags : DOMAIN f.tags = {l} /\ Len(f.tags[l]) = 1

\* Such a filter gets the newest matching events, newest first, as many as its limit
\* allows (index.rs:754, 775 "returns events sorted by created_at DESC"), of a store
\* that did not change meanwhile.
AnswerNewest ==
    qpc = "done" /\ throughout = seen /\ OneCondition(filter) /\ HexTags(filter) =>
        answer = Take(NewestFirst({e \in seen : MatchesEvent(filter, e)}), filter.limit)

\* A filter without conditions gets the newest events of a store that did not change
\* meanwhile (index.rs:679 "Get the newest `count` events across all data").
BareAnswerNewest ==
    qpc = "done" /\ throughout = seen /\ filter = [NoCondition EXCEPT !.limit = filter.limit] =>
        Range(answer) = Range(Take(NewestFirst(seen), filter.limit))

\* An event that was out when the query started is not in the answer, even if it is
\* published again meanwhile (deletion.rs:21-24).  An insert that had passed the
\* tombstone check before the deletion may still bring the event back: see
\* DeletedStaysDeleted in EventIndex.tla.
DeletedNotAnswered == qpc = "done" => Range(answer) \cap gone = {}

=============================================================================
