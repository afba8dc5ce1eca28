------------------------------ MODULE Deletion ------------------------------
(***************************************************************************)
(* What becomes of an EVENT message (process_event_message in              *)
(* src/src/relay.rs): an ordinary event is stored and published; a         *)
(* deletion request (kind 5, NIP-09, src/src/deletion.rs) first removes    *)
(* the events its author names, by id or by coordinate, and is then stored *)
(* and published itself.  Several tasks do this at the same time, and the  *)
(* eviction task removes the oldest events.  insert is two steps: the      *)
(* tombstone check, then the store; so is delete_by_id: the removal, then  *)
(* the tombstone.  get_oldest reads one shard after the other.             *)
(*                                                                         *)
(* The log records of the removals are in Persistence.tla; the cap on      *)
(* tombstones is in EventIndex.tla and is not reached here.                *)
(***************************************************************************)
EXTENDS RelayStore

CONSTANTS
    Tasks,        \* the tasks that handle EVENT messages
    Restored,     \* the sets of events that a restart may leave in the store
    MaxMessages,  \* bound: EVENT messages
    EvictBatch,   \* how many events the eviction task takes at a time
    MaxEvictions  \* bound: runs of the eviction task

ASSUME DeletionAssumption ==
    /\ \A S \in Restored : S \subseteq Events /\ \A e \in S : Versions(S, e) = {}
    /\ EvictBatch \in Nat \ {0} /\ MaxMessages \in Nat /\ MaxEvictions \in Nat

VARIABLES
    pc,           \* the step each task takes next
    ev,           \* the event of its message
    ids,          \* the ids its deletion request still has to look at
    coords,       \* ... and the coordinates
    target,       \* the event it is about to delete
    published,    \* the events that went to the fanout
    scan,         \* how many shards get_oldest has read, 0 when it is not running
    batch,        \* the events it has picked, and then the ones still to be removed
    due,          \* history: the events that the request names and that were
                  \* stored all the time since it was taken up
    settled,      \* history: the events stored all the time since get_oldest began
    messages, evictions   \* the bounded counters

tasks == <<pc, ev, ids, coords, target, due>>
evictor == <<scan, batch, settled>>
bounds == <<messages, evictions>>
deletion == <<tasks, published, evictor, bounds>>

-----------------------------------------------------------------------------
(* Deletion requests. *)

\* deletion_request: the ids of the e tags and the coordinates of the a tags that
\* parse.
RequestedIds(r) == ParsedTags(r, "e")
RequestedCoordinates(r) ==
    {Coordinates[Tags[r][i].value] : i \in {j \in DOMAIN Tags[r] : Tags[r][j].name = "a"}} \ {None}

CoordinateKeyBug(c) == [pubkey |-> c.pubkey, kind |-> c.kind, d |-> None]

\* coordinate_targets: the key that a coordinate is looked up under.
CoordinateKey(c) ==
    [pubkey |-> c.pubkey, kind |-> c.kind, d |-> IF c.d = "" THEN None ELSE c.d]

Own(r, author) == author = Author[r]

NotNewerBug(e, r) == TRUE
NotNewer(e, r) == CreatedAt[e] <= CreatedAt[r]

\* What a coordinate means (deletion.rs:12-14): every version of that address up
\* to the time of the request.  An address without d tag has the empty identifier.
Addresses(c, e) ==
    /\ IsReplaceable(e)
    /\ Author[e] = c.pubkey /\ Kind[e] = c.kind
    /\ (IF DTag(e) = None THEN "" ELSE DTag(e)) = c.d

Names(r, e) ==
    /\ Author[e] = Author[r]
    /\ \/ e \in RequestedIds(r)
       \/ /\ CreatedAt[e] <= CreatedAt[r]
          /\ \E c \in RequestedCoordinates(r) : Addresses(c, e)

-----------------------------------------------------------------------------

DeletionInit ==
    /\ stored \in Restored /\ tombs = {}
    /\ pc = [t \in Tasks |-> "idle"]
    /\ ev = [t \in Tasks |-> None]
    /\ ids = [t \in Tasks |-> {}]
    /\ coords = [t \in Tasks |-> {}]
    /\ target = [t \in Tasks |-> None]
    /\ published = stored
    /\ due = [t \in Tasks |-> {}]
    /\ scan = 0 /\ batch = {} /\ settled = {}
    /\ messages = 0 /\ evictions = 0

Goto(t, step) == pc' = [pc EXCEPT ![t] = step]

\* The OK reply, and the end of the task.
Reply(t) == Goto(t, "idle") /\ ev' = [ev EXCEPT ![t] = None]

\* The store holds S from here on, and the histories follow.
StoreBecomes(S) ==
    /\ stored' = S
    /\ due' = [t \in Tasks |-> due[t] \cap S]
    /\ settled' = settled \cap S

Receive(t, e) ==
    /\ pc[t] = "idle" /\ messages < MaxMessages
    /\ messages' = messages + 1
    /\ ev' = [ev EXCEPT ![t] = e]
    /\ Goto(t, IF IsDeletionRequest(e) THEN "contains" ELSE "insert")
    /\ UNCHANGED <<store, ids, coords, target, due, published, evictor, evictions>>

\* apply_deletion_request: a request that is stored already is answered at once ...
Contains_(t) ==
    /\ pc[t] = "contains"
    /\ IF ev[t] \in stored THEN Reply(t)
       ELSE Goto(t, "tombstoned") /\ UNCHANGED ev
    /\ UNCHANGED <<store, ids, coords, target, due, published, evictor, bounds>>

\* ... and so is one that was deleted.  Otherwise the walk over its references starts.
Tombstoned(t) ==
    /\ pc[t] = "tombstoned"
    /\ IF ev[t] \in tombs
         THEN Reply(t) /\ UNCHANGED <<ids, coords, due>>
         ELSE /\ Goto(t, "walk")
              /\ ids' = [ids EXCEPT ![t] = RequestedIds(ev[t])]
              /\ coords' = [coords EXCEPT ![t] = RequestedCoordinates(ev[t])]
              /\ due' = [due EXCEPT ![t] = {e \in stored : Names(ev[t], e)}]
              /\ UNCHANGED ev
    /\ UNCHANGED <<store, target, published, evictor, bounds>>

\* apply_deletion, an id: only an event that is held, and is the author's own.
LookupId(t, id) ==
    /\ pc[t] = "walk"
    /\ id \in ids[t]
    /\ ids' = [ids EXCEPT ![t] = @ \ {id}]
    /\ IF id \in stored /\ Own(ev[t], Author[id])
         THEN target' = [target EXCEPT ![t] = id] /\ Goto(t, "delete")
         ELSE UNCHANGED <<pc, target>>
    /\ UNCHANGED <<store, ev, coords, due, published, evictor, bounds>>

\* apply_deletion, a coordinate: the version that by_replaceable names ...
LookupCoordinate(t, c) ==
    LET current == {e \in stored : IsReplaceable(e) /\ ReplacementKey(e) = CoordinateKey(c)}
    IN  /\ pc[t] = "walk" /\ ids[t] = {} /\ c \in coords[t]
        /\ coords' = [coords EXCEPT ![t] = @ \ {c}]
        /\ IF Own(ev[t], c.pubkey) /\ current # {}
             THEN target' = [target EXCEPT ![t] = CHOOSE e \in current : TRUE] /\ Goto(t, "version")
             ELSE UNCHANGED <<pc, target>>
        /\ UNCHANGED <<store, ev, ids, due, published, evictor, bounds>>

\* ... if it is still stored, and not newer than the request.
CheckVersion(t) ==
    /\ pc[t] = "version"
    /\ IF target[t] \in stored /\ NotNewer(target[t], ev[t])
         THEN Goto(t, "delete") /\ UNCHANGED target
         ELSE Goto(t, "walk") /\ target' = [target EXCEPT ![t] = None]
    /\ UNCHANGED <<store, ev, ids, coords, due, published, evictor, bounds>>

\* record_deletion and delete_by_id: the event leaves the index ...
DeleteById(t) ==
    /\ pc[t] = "delete"
    /\ StoreBecomes(stored \ {target[t]})
    /\ Goto(t, "bury")
    /\ UNCHANGED <<tombs, ev, ids, coords, target, published, scan, batch, bounds>>

\* ... and its tombstone is set.
Bury(t) ==
    /\ pc[t] = "bury"
    /\ tombs' = tombs \cup {target[t]}
    /\ target' = [target EXCEPT ![t] = None]
    /\ Goto(t, "walk")
    /\ UNCHANGED <<stored, ev, ids, coords, due, published, evictor, bounds>>

IsDeletedBug(e) == FALSE
IsDeleted(e) == e \in tombs

\* EventStore::insert, of an event or of a request whose references are done with: an
\* ephemeral event is not stored, a deleted one is refused.
CheckInsert(t) ==
    /\ \/ pc[t] = "insert"
       \/ pc[t] = "walk" /\ ids[t] = {} /\ coords[t] = {}
    /\ due' = [due EXCEPT ![t] = {}]
    /\ \/ IsEphemeral(ev[t]) /\ Goto(t, "publish") /\ UNCHANGED ev
       \/ ~IsEphemeral(ev[t]) /\ IsDeleted(ev[t]) /\ Reply(t)
       \/ ~IsEphemeral(ev[t]) /\ ~IsDeleted(ev[t]) /\ Goto(t, "store") /\ UNCHANGED ev
    /\ UNCHANGED <<store, ids, coords, target, published, evictor, bounds>>

StoreEventBug(t) ==
    /\ pc[t] = "store"
    /\ \/ IsDuplicate(stored, ev[t]) /\ StoreBecomes(stored)
       \/ ~IsDuplicate(stored, ev[t]) /\ StoreBecomes(AfterInsert(stored, ev[t]))
    /\ IF IsDuplicate(stored, ev[t]) \/ IsDeletionRequest(ev[t])
         THEN Reply(t)
         ELSE Goto(t, "publish") /\ UNCHANGED ev
    /\ UNCHANGED <<tombs, ids, coords, target, published, scan, batch, bounds>>

\* Past the tombstone check: the event is stored, or is a duplicate, which is published
\* again if it is a request.
StoreEvent(t) ==
    /\ pc[t] = "store"
    /\ \/ IsDuplicate(stored, ev[t]) /\ StoreBecomes(stored)
       \/ ~IsDuplicate(stored, ev[t]) /\ StoreBecomes(AfterInsert(stored, ev[t]))
    /\ IF IsDuplicate(stored, ev[t]) /\ ~IsDeletionRequest(ev[t])
         THEN Reply(t)
         ELSE Goto(t, "publish") /\ UNCHANGED ev
    /\ UNCHANGED <<tombs, ids, coords, target, published, scan, batch, bounds>>

Publish(t) ==
    /\ pc[t] = "publish"
    /\ published' = published \cup {ev[t]}
    /\ Reply(t)
    /\ UNCHANGED <<store, ids, coords, target, due, evictor, bounds>>

-----------------------------------------------------------------------------
(* The eviction task, maybe_evict. *)

\* get_oldest, one shard under its read lock.
ReadShard ==
    /\ scan # 0 \/ batch = {}
    /\ \/ scan # 0 /\ UNCHANGED <<settled, evictions>>
       \/ /\ scan = 0 /\ evictions < MaxEvictions
          /\ evictions' = evictions + 1
          /\ settled' = stored
    /\ batch' = MergeOldest(batch, stored, scan + 1, EvictBatch)
    /\ scan' = IF scan + 1 = Shards THEN 0 ELSE scan + 1
    /\ UNCHANGED <<store, tasks, published, messages>>

\* The next event of the batch is removed.  (MemoryBudget.tla has the check after
\* each chunk of it.)
EvictNext ==
    LET e == CHOOSE o \in batch : \A f \in batch \ {o} : Before(f, o)
    IN  /\ scan = 0 /\ batch # {}
        /\ batch' = batch \ {e}
        /\ stored' = stored \ {e}
        /\ due' = [t \in Tasks |-> due[t] \cap stored']
        /\ settled' = IF batch' = {} THEN {} ELSE settled \cap stored'
        /\ UNCHANGED <<tombs, pc, ev, ids, coords, target, published, scan, bounds>>

DeletionStep ==
    \/ \E t \in Tasks :
         \/ \E e \in Events : Receive(t, e)
         \/ Contains_(t) \/ Tombstoned(t)
         \/ \E id \in ids[t] : LookupId(t, id)
         \/ \E c \in coords[t] : LookupCoordinate(t, c)
         \/ CheckVersion(t) \/ DeleteById(t) \/ Bury(t)
         \/ CheckInsert(t) \/ StoreEvent(t) \/ Publish(t)
    \/ ReadShard \/ EvictNext

=============================================================================
