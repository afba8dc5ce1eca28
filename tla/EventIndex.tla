----------------------------- MODULE EventIndex -----------------------------
(***************************************************************************)
(* The in-memory event index of the relay (src/src/store/index.rs).        *)
(*                                                                         *)
(* Many connection tasks call insert and delete_by_id, and the eviction    *)
(* task calls remove, on one shared EventIndex.  The index has no lock of  *)
(* its own: every map, set and counter in it is locked, or atomic, on its  *)
(* own.  A call is therefore a sequence of atomic steps, one per access to *)
(* a shared structure, and the steps of different calls interleave.  Each  *)
(* thread below runs one call at a time; pc names the step it takes next.  *)
(***************************************************************************)
EXTENDS Integers, Sequences, FiniteSets, FiniteSetsExt

CONSTANTS
    Threads,          \* the tasks that call into the index
    Events,           \* the events, each named by its id; ids are ordered
    Keys,             \* the replacement keys (pubkey, kind[, d-tag])
    None,             \* no event, no key, no call
    KeyOf,            \* KeyOf[e]: e's replacement key; None for a regular event
    CreatedAt,        \* CreatedAt[e]: the timestamp of e
    Size,             \* Size[e]: the bytes of e's raw JSON
    NumIndexes,       \* how many secondary sets an event is filed in
    MaxTombstones,    \* MAX_TOMBSTONES
    Evicting,         \* whether the eviction task runs
    Deletable,        \* the events some author asks to delete (NIP-09)
    Republished,      \* the events that are published again while they are stored
                      \* or while a call on them runs; others only once they are gone
    MaxDrift          \* bound: no insert starts at this many lost counts

ASSUME ConstantsAssumption ==
    /\ IsFiniteSet(Threads) /\ IsFiniteSet(Events)
    /\ Events \subseteq Nat
    /\ None \notin Events /\ None \notin Keys
    /\ KeyOf \in [Events -> Keys \cup {None}]
    /\ CreatedAt \in [Events -> Nat]
    /\ Size \in [Events -> Nat]
    /\ NumIndexes \in Nat \ {0}
    /\ MaxTombstones \in Nat \ {0}
    /\ Evicting \in BOOLEAN
    /\ Deletable \subseteq Events /\ Republished \subseteq Events
    /\ MaxDrift \in Nat

VARIABLES
    by_id,            \* the primary map, as the set of ids it holds
    secondary,        \* by_pubkey, by_kind, the tag maps, by_oldest: sets of events
    by_replaceable,   \* the current id of each replacement key, or None
    tomb_ids,         \* Tombstones.ids
    tomb_order,       \* Tombstones.order, oldest first
    tomb_count,       \* Tombstones.count
    event_count,      \* the counter; a negative value is a wrapped usize
    memory_bytes,     \* the counter; a negative value is a wrapped usize
    pc,               \* the step each thread takes next
    op,               \* the call it runs: insert, evict or delete
    ev,               \* the event the call is about
    victim,           \* the id internal_remove works on
    idx,              \* the secondary set it visits next
    offered,          \* history: the versions that insert was called with
    drift,            \* history: decrements that no increment answers
    drift_bytes       \* history: the same for memory_bytes

indexes == <<by_id, secondary, by_replaceable>>
tombstones == <<tomb_ids, tomb_order, tomb_count>>
counters == <<event_count, memory_bytes>>
locals == <<pc, op, ev, victim, idx>>
history == <<offered, drift, drift_bytes>>
vars == <<indexes, tombstones, counters, locals, history>>

Indexes == 1 .. NumIndexes
ByOldest == NumIndexes   \* every walk over the sets ends with by_oldest

Labels == {"idle", "claim", "rm_id", "rm_count", "rm_key", "rm_set", "store",
           "verify", "undo", "count", "add_set", "final", "winner", "un_id",
           "un_count", "un_set", "tomb_ids", "tomb_order"}

TypeOK ==
    /\ by_id \subseteq Events
    /\ secondary \in [Indexes -> SUBSET Events]
    /\ by_replaceable \in [Keys -> Events \cup {None}]
    /\ tomb_ids \subseteq Events
    /\ tomb_order \in Seq(Events)
    /\ tomb_count \in Nat
    /\ event_count \in Int /\ memory_bytes \in Int
    /\ pc \in [Threads -> Labels]
    /\ op \in [Threads -> {None, "insert", "evict", "delete"}]
    /\ ev \in [Threads -> Events \cup {None}]
    /\ victim \in [Threads -> Events \cup {None}]
    /\ idx \in [Threads -> Indexes]
    /\ offered \subseteq Events
    /\ drift \in Nat /\ drift_bytes \in Nat

Init ==
    /\ by_id = {}
    /\ secondary = [i \in Indexes |-> {}]
    /\ by_replaceable = [k \in Keys |-> None]
    /\ tomb_ids = {} /\ tomb_order = <<>> /\ tomb_count = 0
    /\ event_count = 0 /\ memory_bytes = 0
    /\ pc = [t \in Threads |-> "idle"]
    /\ op = [t \in Threads |-> None]
    /\ ev = [t \in Threads |-> None]
    /\ victim = [t \in Threads |-> None]
    /\ idx = [t \in Threads |-> 1]
    /\ offered = {} /\ drift = 0 /\ drift_bytes = 0

-----------------------------------------------------------------------------
(* Decisions.  A definition whose name ends in Bug is a faulty variant of the *)
(* one after it: Spec does not use it, and each shows that a property below   *)
(* notices the fault.                                                         *)

IsReplaceable(e) == KeyOf[e] # None

\* The order of incoming_wins: newer first, ties to the lower id.
Wins(e, old) ==
    \/ CreatedAt[e] > CreatedAt[old]
    \/ CreatedAt[e] = CreatedAt[old] /\ e < old

\* Tombstones::contains.  A count of 0 answers without looking at the ids.
IsTombstonedBug(e) == tomb_count > 1 /\ e \in tomb_ids
IsTombstoned(e) == tomb_count # 0 /\ e \in tomb_ids

\* insert keeps its by_replaceable entry locked until internal_remove returns.
HoldsEntry(t, k) ==
    /\ op[t] = "insert"
    /\ pc[t] \in {"rm_id", "rm_count", "rm_key", "rm_set"}
    /\ KeyOf[ev[t]] = k

EntryFree(k) == \A t \in Threads : ~HoldsEntry(t, k)

IsStillWinnerBug(e) == TRUE
IsStillWinner(e) == by_replaceable[KeyOf[e]] = e

\* The walks over the secondary sets all visit the same ones in the same order.
IsLastSetBug(i) == i > NumIndexes
IsLastSet(i) == i = NumIndexes

\* Where insert goes after it claimed the entry that held old.
AfterClaimBug(old) == "store"
AfterClaim(old) == IF old = None THEN "store" ELSE "rm_id"

\* Where the final check of insert goes.
AfterFinalBug(e) == "idle"
AfterFinal(e) ==
    IF e \notin by_id THEN "un_set" ELSE IF IsReplaceable(e) THEN "winner" ELSE "idle"

\* cleanup_event touches the counters only if it removed the id itself.
AfterCleanupIdBug(e) == "un_set"
AfterCleanupId(e) == IF e \in by_id THEN "un_count" ELSE "un_set"

\* Only delete_by_id passes skip_replaceable = false.
SkipReplaceableBug(t) == FALSE
SkipReplaceable(t) == op[t] # "delete"

\* internal_remove accounts for the event it removed.
RemovedSizeBug(t) == Size[ev[t]]
RemovedSize(t) == Size[victim[t]]

\* The ids Tombstones::insert forgets: the oldest beyond the cap.
ForgottenBug(order) == {}
Forgotten(order) == {order[j] : j \in 1 .. Len(order) - MaxTombstones}

-----------------------------------------------------------------------------
(* Control flow. *)

Goto(t, l) == pc' = [pc EXCEPT ![t] = l]

\* The call starts.
Call(t, o, e, v) ==
    /\ op' = [op EXCEPT ![t] = o]
    /\ ev' = [ev EXCEPT ![t] = e]
    /\ victim' = [victim EXCEPT ![t] = v]
    /\ UNCHANGED idx

\* The call returns to its caller.
Return(t) ==
    /\ Goto(t, "idle")
    /\ op' = [op EXCEPT ![t] = None]
    /\ ev' = [ev EXCEPT ![t] = None]
    /\ victim' = [victim EXCEPT ![t] = None]
    /\ idx' = [idx EXCEPT ![t] = 1]

\* internal_remove returns: to insert, to the evictor, or to delete_by_id.
AfterRemove(t) ==
    \/ op[t] = "evict" /\ Return(t)
    \/ /\ op[t] # "evict"
       /\ Goto(t, IF op[t] = "insert" THEN "store" ELSE "tomb_ids")
       /\ victim' = [victim EXCEPT ![t] = None]
       /\ idx' = [idx EXCEPT ![t] = 1]
       /\ UNCHANGED <<op, ev>>

\* One more secondary set is done; the walk over them continues or is over.
NextSet(t) ==
    /\ ~IsLastSet(idx[t])
    /\ idx' = [idx EXCEPT ![t] = @ + 1]
    /\ UNCHANGED <<pc, op, ev, victim>>

-----------------------------------------------------------------------------
(* Calls.  Each starts with the first shared access of the function. *)

\* EventIndex::insert, from its entry to the tombstone check.
Insert(t, e) ==
    /\ pc[t] = "idle"
    /\ drift < MaxDrift
    /\ e \in Republished \/ (e \notin by_id /\ \A u \in Threads : e # ev[u] /\ e # victim[u])
    /\ offered' = IF IsReplaceable(e) THEN offered \cup {e} ELSE offered
    /\ \/ IsTombstoned(e) /\ UNCHANGED locals   \* InsertOutcome::Deleted
       \/ /\ ~IsTombstoned(e)
          /\ Call(t, "insert", e, None)
          /\ Goto(t, IF IsReplaceable(e) THEN "claim" ELSE "store")
    /\ UNCHANGED <<indexes, tombstones, counters, drift, drift_bytes>>

\* maybe_evict: e was in the batch that get_oldest read from by_oldest.  Each
\* element of the batch is a call of its own, its removal as late as it may be.
Evict(t, e) ==
    /\ Evicting
    /\ pc[t] = "idle"
    /\ e \in secondary[ByOldest]
    /\ Call(t, "evict", e, e)
    /\ Goto(t, "rm_id")
    /\ UNCHANGED <<indexes, tombstones, counters, history>>

\* apply_deletion: e was found in by_id, and delete_by_id(e) is called.
Delete(t, e) ==
    /\ pc[t] = "idle"
    /\ e \in Deletable \cap by_id
    /\ Call(t, "delete", e, e)
    /\ Goto(t, "rm_id")
    /\ UNCHANGED <<indexes, tombstones, counters, history>>

-----------------------------------------------------------------------------
(* insert, up to the primary map. *)

\* The by_replaceable entry of the key: claim it, or lose to a newer event.
Claim(t) ==
    LET e == ev[t]
        k == KeyOf[e]
        old == by_replaceable[k]
    IN  /\ pc[t] = "claim"
        /\ EntryFree(k)
        /\ \/ /\ old \in by_id /\ ~Wins(e, old)
              /\ Return(t)                       \* LostRace
              /\ UNCHANGED by_replaceable
           \/ /\ old \in by_id => Wins(e, old)     \* a missing old id is taken over
              /\ by_replaceable' = [by_replaceable EXCEPT ![k] = e]
              /\ victim' = [victim EXCEPT ![t] = old]
              /\ Goto(t, AfterClaim(old))
              /\ UNCHANGED <<op, ev, idx>>
        /\ UNCHANGED <<by_id, secondary, tombstones, counters, history>>

\* by_id.insert: an id already there is a Duplicate.
Store(t) ==
    LET e == ev[t]
    IN  /\ pc[t] = "store"
        /\ by_id' = by_id \cup {e}
        /\ \/ e \in by_id /\ Return(t)
           \/ /\ e \notin by_id
              /\ Goto(t, IF IsReplaceable(e) THEN "verify" ELSE "count")
              /\ UNCHANGED <<op, ev, victim, idx>>
        /\ UNCHANGED <<secondary, by_replaceable, tombstones, counters, history>>

\* Early verification of a replaceable event.
Verify(t) ==
    /\ pc[t] = "verify"
    /\ EntryFree(KeyOf[ev[t]])
    /\ Goto(t, IF IsStillWinner(ev[t]) THEN "count" ELSE "undo")
    /\ UNCHANGED <<indexes, tombstones, counters, op, ev, victim, idx, history>>

\* The loser takes its id out again, without a look at what remove returns.
Undo(t) ==
    LET e == ev[t]
    IN  /\ pc[t] = "undo"
        /\ by_id' = by_id \ {e}
        /\ drift' = IF e \in by_id THEN drift ELSE drift + 1
        /\ drift_bytes' = IF e \in by_id THEN drift_bytes ELSE drift_bytes + Size[e]
        /\ Return(t)                             \* LostRace
        /\ UNCHANGED <<secondary, by_replaceable, tombstones, counters, offered>>

-----------------------------------------------------------------------------
(* insert, from the counters on.  The two counters are touched one right after *)
(* the other with no other shared access between: one step stands for both.    *)

CountUp(t) ==
    /\ pc[t] = "count"
    /\ event_count' = event_count + 1
    /\ memory_bytes' = memory_bytes + Size[ev[t]]
    /\ Goto(t, "add_set")
    /\ UNCHANGED <<indexes, tombstones, op, ev, victim, idx, history>>

AddSet(t) ==
    /\ pc[t] = "add_set"
    /\ secondary' = [secondary EXCEPT ![idx[t]] = @ \cup {ev[t]}]
    /\ \/ NextSet(t)
       \/ /\ IsLastSet(idx[t])
          /\ idx' = [idx EXCEPT ![t] = 1]
          /\ Goto(t, "final")
          /\ UNCHANGED <<op, ev, victim>>
    /\ UNCHANGED <<by_id, by_replaceable, tombstones, counters, history>>

\* Final consistency check: was the event removed while it was being filed?
FinalCheck(t) ==
    LET e == ev[t]
    IN  /\ pc[t] = "final"
        /\ \/ AfterFinal(e) = "idle" /\ Return(t)                  \* Inserted
           \/ /\ AfterFinal(e) # "idle"
              /\ Goto(t, AfterFinal(e)) /\ UNCHANGED <<op, ev, victim, idx>>
        /\ UNCHANGED <<indexes, tombstones, counters, history>>

\* The same check of a replaceable event against by_replaceable.
WinnerCheck(t) ==
    LET e == ev[t]
    IN  /\ pc[t] = "winner"
        /\ EntryFree(KeyOf[e])
        /\ \/ IsStillWinner(e) /\ Return(t)                      \* Inserted
           \/ /\ ~IsStillWinner(e)
              /\ Goto(t, "un_id") /\ UNCHANGED <<op, ev, victim, idx>>
        /\ UNCHANGED <<indexes, tombstones, counters, history>>

\* cleanup_event: the counters go down only if the id was still there.
CleanupId(t) ==
    /\ pc[t] = "un_id"
    /\ by_id' = by_id \ {ev[t]}
    /\ Goto(t, AfterCleanupId(ev[t]))
    /\ UNCHANGED <<secondary, by_replaceable, tombstones, counters, op, ev,
                   victim, idx, history>>

CleanupCount(t) ==
    /\ pc[t] = "un_count"
    /\ event_count' = event_count - 1
    /\ memory_bytes' = memory_bytes - Size[ev[t]]
    /\ Goto(t, "un_set")
    /\ UNCHANGED <<indexes, tombstones, op, ev, victim, idx, history>>

\* cleanup_secondary_indexes; then LostRace or Duplicate is returned.
CleanupSet(t) ==
    /\ pc[t] = "un_set"
    /\ secondary' = [secondary EXCEPT ![idx[t]] = @ \ {ev[t]}]
    /\ NextSet(t) \/ (IsLastSet(idx[t]) /\ Return(t))
    /\ UNCHANGED <<by_id, by_replaceable, tombstones, counters, history>>

-----------------------------------------------------------------------------
(* internal_remove, for insert (old version), remove and delete_by_id. *)

RemoveId(t) ==
    /\ pc[t] = "rm_id"
    /\ by_id' = by_id \ {victim[t]}
    /\ \/ victim[t] \notin by_id /\ AfterRemove(t)
       \/ /\ victim[t] \in by_id
          /\ Goto(t, "rm_count")
          /\ UNCHANGED <<op, ev, victim, idx>>
    /\ UNCHANGED <<secondary, by_replaceable, tombstones, counters, history>>

RemoveCount(t) ==
    /\ pc[t] = "rm_count"
    /\ event_count' = event_count - 1
    /\ memory_bytes' = memory_bytes - RemovedSize(t)
    /\ Goto(t, IF ~SkipReplaceable(t) /\ IsReplaceable(victim[t]) THEN "rm_key" ELSE "rm_set")
    /\ UNCHANGED <<indexes, tombstones, op, ev, victim, idx, history>>

\* by_replaceable.remove(&key), whatever id the entry holds by now.
RemoveKey(t) ==
    LET k == KeyOf[victim[t]]
    IN  /\ pc[t] = "rm_key"
        /\ EntryFree(k)
        /\ by_replaceable' = [by_replaceable EXCEPT ![k] = None]
        /\ Goto(t, "rm_set")
        /\ UNCHANGED <<by_id, secondary, tombstones, counters, op, ev, victim, idx, history>>

RemoveSet(t) ==
    /\ pc[t] = "rm_set"
    /\ secondary' = [secondary EXCEPT ![idx[t]] = @ \ {victim[t]}]
    /\ NextSet(t) \/ (IsLastSet(idx[t]) /\ AfterRemove(t))
    /\ UNCHANGED <<by_id, by_replaceable, tombstones, counters, history>>

-----------------------------------------------------------------------------
(* Tombstones::insert, the end of delete_by_id. *)

TombstoneId(t) ==
    /\ pc[t] = "tomb_ids"
    /\ tomb_ids' = tomb_ids \cup {ev[t]}
    /\ \/ ev[t] \in tomb_ids /\ Return(t)
       \/ /\ ev[t] \notin tomb_ids
          /\ Goto(t, "tomb_order")
          /\ UNCHANGED <<op, ev, victim, idx>>
    /\ UNCHANGED <<indexes, tomb_order, tomb_count, counters, history>>

\* Under the order lock: push, drop the oldest beyond the cap, store the count.
TombstoneOrder(t) ==
    LET all == Append(tomb_order, ev[t])
        cut == IF Len(all) > MaxTombstones THEN Len(all) - MaxTombstones ELSE 0
    IN  /\ pc[t] = "tomb_order"
        /\ tomb_order' = SubSeq(all, cut + 1, Len(all))
        /\ tomb_ids' = tomb_ids \ Forgotten(all)
        /\ tomb_count' = Cardinality(tomb_ids')
        /\ Return(t)
        /\ UNCHANGED <<indexes, counters, history>>

-----------------------------------------------------------------------------

Step(t) ==
    \/ Claim(t) \/ Store(t) \/ Verify(t) \/ Undo(t)
    \/ CountUp(t) \/ AddSet(t) \/ FinalCheck(t) \/ WinnerCheck(t)
    \/ CleanupId(t) \/ CleanupCount(t) \/ CleanupSet(t)
    \/ RemoveId(t) \/ RemoveCount(t) \/ RemoveKey(t) \/ RemoveSet(t)
    \/ TombstoneId(t) \/ TombstoneOrder(t)

Next ==
    \E t \in Threads :
        \/ Step(t)
        \/ \E e \in Events : Insert(t, e) \/ Evict(t, e) \/ Delete(t, e)

Spec == Init /\ [][Next]_vars

-----------------------------------------------------------------------------
(* Correctness. *)

\* The step t takes next is one that waits for the by_replaceable entry of a key.
EntryWaitedFor(t) ==
    CASE pc[t] \in {"claim", "verify", "winner"} -> KeyOf[ev[t]]
      [] pc[t] = "rm_key" -> KeyOf[victim[t]]
      [] OTHER -> None

\* As long as calls are in flight one of them can take its next step: the entry
\* lock that insert keeps while it removes the old version never closes a cycle
\* (index.rs:492: skip_replaceable is "used during insert to avoid deadlock").
NoDeadlock ==
    (\E t \in Threads : pc[t] # "idle") =>
        \E t \in Threads : pc[t] # "idle" /\ EntryFree(EntryWaitedFor(t))

Quiescent == \A t \in Threads : pc[t] = "idle"

\* Calls between by_id.insert and their fetch_add, and between a by_id.remove
\* that found the event and its fetch_sub.
Uncounted == {t \in Threads : pc[t] \in {"verify", "undo", "count"}}
Undiscounted == {t \in Threads : pc[t] \in {"rm_count", "un_count"}}

\* The event the fetch_sub of thread t is for.
Subtrahend(t) == IF pc[t] = "rm_count" THEN victim[t] ELSE ev[t]

\* event_count never runs ahead of the store: it counts the stored events at most, up to
\* the calls caught between touching by_id and touching the counter (deadlock_test.rs:
\* 588-589 is about inserts that make it "over-count").
CountNotOver ==
    event_count + Cardinality(Uncounted) <= Cardinality(by_id) + Cardinality(Undiscounted)

\* What t's call still has to add to memory_bytes for what it did to by_id.
OwedBytes(t) ==
    IF t \in Uncounted THEN Size[ev[t]] ELSE IF t \in Undiscounted THEN -Size[Subtrahend(t)] ELSE 0

\* The same for memory_bytes: eviction, which steers by it, never removes events for
\* bytes that are not there.
MemoryNotOver ==
    memory_bytes + SumFunction([t \in Threads |-> OwedBytes(t)]) <= SumFunctionOnSet(Size, by_id)

\* With no call in flight the counters are those of the stored events (deadlock_test.rs:
\* 1012 "Verify no counter drift", 1155 "memory_bytes ... doesn't match sum of
\* raw.len()").
CountersAtRest ==
    Quiescent => event_count = Cardinality(by_id) /\ memory_bytes = SumFunctionOnSet(Size, by_id)

\* t's insert will still look whether e is the current version, or t is about
\* to take e out.
OwnsStale(t, e) ==
    \/ /\ op[t] = "insert" /\ ev[t] = e
       /\ pc[t] \in {"verify", "undo", "count", "add_set", "final", "winner", "un_id"}
    \/ victim[t] = e /\ pc[t] = "rm_id"

\* A stored version that by_replaceable no longer names always has a call in
\* flight that removes it or will check it: the two verifications of insert
\* (index.rs:300-308, 383-398) leave no stale version behind.
StaleVersionHasOwner ==
    \A e \in by_id :
        IsReplaceable(e) /\ by_replaceable[KeyOf[e]] # e => \E t \in Threads : OwnsStale(t, e)

\* With no call in flight there is at most one version per replacement key
\* (event.rs:164-165: "Only the latest version should be kept").
OneVersionAtRest ==
    Quiescent => \A e, f \in by_id : IsReplaceable(e) /\ KeyOf[e] = KeyOf[f] => e = f

\* With no call in flight, of all versions of a key ever published, the stored
\* one is the latest (index.rs:260-261: "keep the LATEST version ...; a
\* late-arriving older event must NOT delete a newer stored one").
LatestKeptAtRest ==
    Quiescent => \A e \in offered :
        IsReplaceable(e) => \E f \in by_id : KeyOf[f] = KeyOf[e] /\ ~Wins(e, f)

\* With no call in flight an event that was not inserted again beside a call on it is in
\* every secondary set if it is stored and in none if it is not: it is not unreachable
\* by queries or by eviction, and not orphaned (the final check and cleanup of insert,
\* index.rs:383-398, against internal_remove, index.rs:566-641).
IndexesMatchAtRest ==
    Quiescent => \A e \in Events \ Republished, i \in Indexes : e \in secondary[i] <=> e \in by_id

\* With no call in flight no event is both stored and tombstoned (index.rs:252-253:
\* "an event that was removed by a deletion request must not be resurrected").
DeletedStaysDeleted == Quiescent => by_id \cap tomb_ids = {}

\* The events whose deletion is over: recorded, not stored, and no insert of them has
\* passed the tombstone check and not yet stored.
DeletedForGood ==
    {e \in {tomb_order[i] : i \in DOMAIN tomb_order} \ by_id :
        \A t \in Threads : op[t] = "insert" /\ ev[t] = e =>
            pc[t] \notin {"claim", "rm_id", "rm_count", "rm_key", "rm_set", "store"}}

\* Such an event stays out, whoever publishes it again, as long as its tombstone is
\* kept (index.rs:252-253, deletion.rs:21-24).
DeletedStaysOut ==
    [][\A e \in DeletedForGood :
         e \in {tomb_order[i] : i \in DOMAIN tomb_order}' => e \in DeletedForGood']_vars

\* The bounded tombstone set: the queue holds every recorded id exactly once, so
\* that the cap bounds the ids too (index.rs:67-79).
TombstonesBounded ==
    /\ Len(tomb_order) <= MaxTombstones
    /\ \A i, j \in DOMAIN tomb_order : tomb_order[i] = tomb_order[j] => i = j
    /\ tomb_ids = {tomb_order[i] : i \in DOMAIN tomb_order}
                    \cup {ev[t] : t \in {u \in Threads : pc[u] = "tomb_order"}}

=============================================================================
