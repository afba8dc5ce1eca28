----------------------------- MODULE Persistence -----------------------------
(***************************************************************************)
(* How the store survives a restart (src/src/store/mod.rs and wal.rs).     *)
(*                                                                         *)
(* Connection tasks insert and delete events: first in memory, then in the *)
(* write-ahead log wal.log (a deletion the other way round).  A background *)
(* task fsyncs the log (group commit), another folds it into a snapshot    *)
(* events.jsonl (checkpoint).  A restart replays the snapshot, the rotated *)
(* segment wal.log.old and the log, in that order.                         *)
(*                                                                         *)
(* The index is abstract here: each call on it is one step on the set of   *)
(* live events.  EventIndex.tla is about the steps inside those calls.     *)
(***************************************************************************)
EXTENDS Integers, Sequences, FiniteSets

CONSTANTS
    Threads,          \* the tasks that publish and delete events
    Events,           \* the events, each named by its id; ids are ordered
    Keys,             \* the replacement keys
    None,             \* no event, no key
    KeyOf,            \* KeyOf[e]: e's replacement key; None for a regular event
    CreatedAt,        \* CreatedAt[e]: the timestamp of e
    Deletable,        \* the events some author asks to delete (NIP-09)
    Evictable,        \* the events the eviction task may remove
    Checkpointing,    \* whether checkpoints run beside the connection tasks
    TornWrites,       \* whether a power loss may leave half a record behind
    CrashInLoad,      \* whether the process may die again while it loads
    IOErrors,         \* whether writing a snapshot may fail
    LoadThreshold,    \* load evicts above this many events; 0: never
    LoadTarget,       \* ... down to this many
    MaxCalls,         \* bound: publish and delete calls that change the store
    MaxCheckpoints,   \* bound: background checkpoints
    MaxCrashes        \* bound: crashes and power losses

ASSUME ConstantsAssumption ==
    /\ Events \subseteq Nat
    /\ None \notin Events /\ None \notin Keys
    /\ KeyOf \in [Events -> Keys \cup {None}]
    /\ CreatedAt \in [Events -> Nat]
    /\ Deletable \subseteq Events /\ Evictable \subseteq Events
    /\ {Checkpointing, TornWrites, CrashInLoad, IOErrors} \subseteq BOOLEAN
    /\ LoadThreshold \in Nat /\ LoadTarget \in Nat /\ LoadTarget <= LoadThreshold
    /\ MaxCalls \in Nat /\ MaxCheckpoints \in Nat /\ MaxCrashes \in Nat

VARIABLES
    live,         \* memory: the events in the index
    tombs,        \* memory: the tombstoned ids
    snapshot,     \* disk: events.jsonl, one event per line
    wal_old,      \* disk: wal.log.old; <<>> if there is no such file
    wal,          \* disk: wal.log
    synced,       \* how many records of wal.log a power loss cannot take
    dirty,        \* WriteAheadLog.dirty
    phase,        \* "down", "loaded" (memory restored), or "up" (serving)
    pc,           \* the step each thread takes next
    op,           \* the call it runs: insert or delete
    ev,           \* the event its call is about
    recs,         \* the log records its call still has to append
    syncer,       \* the group-commit task: "idle" or "sync"
    ckpt,         \* the step checkpoint() takes next
    unvisited,    \* the ids iter_all has not come to yet
    temp,         \* what write_snapshot has collected
    acked,        \* history: events answered as stored, not evicted, deleted or
                  \* replaced since
    durable,      \* history: the part of acked that some fsync covered
    raced,        \* history: the events that were in Racing when the log was rotated
    restored,     \* history: what load_from_disk would make of the files
    calls, checkpoints, crashes   \* the bounded counters

memory == <<live, tombs>>
log == <<wal, synced>>
disk == <<snapshot, wal_old, log, restored>>
tasks == <<pc, op, ev, recs>>
checkpointer == <<ckpt, unvisited, temp>>
history == <<acked, durable, raced>>
bounds == <<calls, checkpoints, crashes>>
vars == <<memory, disk, dirty, phase, tasks, syncer, checkpointer, history, bounds>>

Ops == {"Insert", "Delete", "Tombstone", "Torn"}
Record == [op : Ops, id : Events]

TypeOK ==
    /\ live \subseteq Events /\ tombs \subseteq Events
    /\ snapshot \in Seq(Events)
    /\ wal_old \in Seq(Record) /\ wal \in Seq(Record)
    /\ synced \in 0 .. Len(wal)
    /\ dirty \in BOOLEAN
    /\ phase \in {"down", "loaded", "up"}
    /\ pc \in [Threads -> {"idle", "append", "mark", "remove"}]
    /\ op \in [Threads -> {None, "insert", "delete"}]
    /\ ev \in [Threads -> Events \cup {None}]
    /\ recs \in [Threads -> Seq(Record)]
    /\ syncer \in {"idle", "sync"}
    /\ ckpt \in {"idle", "rotate", "scan", "remove"}
    /\ unvisited \subseteq Events /\ temp \in Seq(Events)
    /\ acked \subseteq Events /\ durable \subseteq acked /\ raced \subseteq Events
    /\ restored \in [live : SUBSET Events, tombs : SUBSET Events, evicted : SUBSET Events]
    /\ calls \in 0 .. MaxCalls /\ checkpoints \in 0 .. MaxCheckpoints
    /\ crashes \in 0 .. MaxCrashes

-----------------------------------------------------------------------------
(* The index as one call sees it, and the replay of the disk into it.  A      *)
(* definition whose name ends in Bug is a faulty variant of the one after it: *)
(* Spec does not use it.                                                      *)

\* The order of incoming_wins and of by_oldest: newer first, ties to the lower id.
Wins(e, old) ==
    \/ CreatedAt[e] > CreatedAt[old]
    \/ CreatedAt[e] = CreatedAt[old] /\ e < old

\* The stored versions of e's replacement key, other than e.
Versions(S, e) == {f \in Events \ {e} : f \in S /\ KeyOf[e] # None /\ KeyOf[f] = KeyOf[e]}

AcceptsBug(S, T, e) == e \notin S \cup T

\* EventIndex::insert stores e: it is new, and newer than the stored version.
Accepts(S, T, e) == e \notin S \cup T /\ \A f \in Versions(S, e) : Wins(e, f)

\* What get_oldest and remove leave of S when n events may stay.
Newest(S, n) == {e \in S : Cardinality({f \in S : Wins(f, e)}) < n}

\* ingest: insert, then evict the oldest events if there are too many.
Ingest(m, e) ==
    LET S == IF Accepts(m.live, m.tombs, e)
               THEN (m.live \ Versions(m.live, e)) \cup {e} ELSE m.live
        kept == IF LoadThreshold > 0 /\ Cardinality(S) > LoadThreshold
                  THEN Newest(S, LoadTarget) ELSE S
    IN  [m EXCEPT !.live = kept, !.evicted = @ \cup (S \ kept)]

\* replay_op.  Only a Tombstone record arms the tombstone again.
ReplayOpBug(m, r) ==
    IF r.op = "Insert" THEN Ingest(m, r.id) ELSE [m EXCEPT !.live = @ \ {r.id}]
ReplayOp(m, r) ==
    CASE r.op = "Insert" -> Ingest(m, r.id)
      [] r.op = "Delete" -> [m EXCEPT !.live = @ \ {r.id}]
      [] r.op = "Tombstone" -> [m EXCEPT !.live = @ \ {r.id}, !.tombs = @ \cup {r.id}]

HasTorn(s) == \E i \in DOMAIN s : s[i].op = "Torn"

ReadableBug(s) == IF HasTorn(s) THEN <<>> ELSE s

\* replay_path: half a record ends the replay of its segment.  (What follows it in
\* the file is read out of step, and is taken to make no sense.)
Readable(s) ==
    IF HasTorn(s)
      THEN SubSeq(s, 1, CHOOSE n \in 0 .. Len(s) - 1 :
                          s[n + 1].op = "Torn" /\ \A i \in 1 .. n : s[i].op # "Torn")
      ELSE s

Rec(o, e) == [op |-> o, id |-> e]

\* The lines of a snapshot are ingested like the Insert records of a log.
Insertions(lines) == [i \in DOMAIN lines |-> Rec("Insert", lines[i])]

Nothing == [live |-> {}, tombs |-> {}, evicted |-> {}]

\* What the records s make of an empty index, one after the other.  (The set makes
\* TLC compute each intermediate value once.)
Replay(s) ==
    LET after[n \in 0 .. Len(s)] ==
            IF n = 0 THEN Nothing
            ELSE CHOOSE m \in {ReplayOp(k, s[n]) : k \in {after[n - 1]}} : TRUE
    IN  after[Len(s)]

RestoreBug(lines, old, new) == Replay(Insertions(lines) \o Readable(new))

\* What load_from_disk restores: the lines of the snapshot, then both segments.
Restore(lines, old, new) == Replay(Insertions(lines) \o Readable(old) \o Readable(new))

-----------------------------------------------------------------------------

Init ==
    /\ live = {} /\ tombs = {}
    /\ snapshot = <<>> /\ wal_old = <<>> /\ wal = <<>> /\ synced = 0
    /\ dirty = FALSE /\ phase = "down"
    /\ pc = [t \in Threads |-> "idle"]
    /\ op = [t \in Threads |-> None]
    /\ ev = [t \in Threads |-> None]
    /\ recs = [t \in Threads |-> <<>>]
    /\ syncer = "idle" /\ ckpt = "idle" /\ unvisited = {} /\ temp = <<>>
    /\ acked = {} /\ durable = {} /\ raced = {} /\ restored = Nothing
    /\ calls = 0 /\ checkpoints = 0 /\ crashes = 0

\* A step that changes the files changes what a replay of them gives.
FilesChange == restored' = Restore(snapshot', wal_old', wal')

\* e and the versions it supersedes: what its eviction or deletion takes away.
UpTo(e) == {f \in Events : f = e \/ (f \in Versions(Events, e) /\ Wins(e, f))}

Forget(S) ==
    /\ acked' = acked \ S /\ durable' = durable \ S
    /\ UNCHANGED raced

-----------------------------------------------------------------------------
(* Publishing and deleting.  Each call: memory and log, in the code's order. *)

Idle(t) == phase = "up" /\ pc[t] = "idle" /\ calls < MaxCalls

Start(t, o, e, rs) ==
    /\ pc' = [pc EXCEPT ![t] = "append"]
    /\ op' = [op EXCEPT ![t] = o]
    /\ ev' = [ev EXCEPT ![t] = e]
    /\ recs' = [recs EXCEPT ![t] = rs]

\* The events that running calls are about.
InFlight ==
    (UNION {{ev[t]} \cup {recs[t][i].id : i \in DOMAIN recs[t]} : t \in Threads}) \ {None}

\* The ones among them that are being deleted, or that are deleted while the call that
\* inserted them has still its record to write.
Racing == {e \in InFlight : e \in tombs \/ \E t \in Threads : op[t] = "delete" /\ ev[t] = e}

Finish(t) ==
    /\ pc' = [pc EXCEPT ![t] = "idle"]
    /\ op' = [op EXCEPT ![t] = None]
    /\ ev' = [ev EXCEPT ![t] = None]
    /\ recs' = [recs EXCEPT ![t] = <<>>]

\* The records of an insert: the event, then the version it replaced if any.
InsertRecords(e, replaced) ==
    IF replaced = {} THEN <<Rec("Insert", e)>>
    ELSE <<Rec("Insert", e), Rec("Delete", CHOOSE f \in replaced : TRUE)>>

\* EventStore::insert up to the index; Duplicate, LostRace and Deleted end it.
Publish(t, e) ==
    LET replaced == Versions(live, e)
    IN  /\ Idle(t)
        /\ \/ /\ ~Accepts(live, tombs, e)
              /\ UNCHANGED <<live, tasks, history, calls>>
           \/ /\ Accepts(live, tombs, e)
              /\ calls' = calls + 1
              /\ live' = (live \ replaced) \cup {e}
              /\ Start(t, "insert", e, InsertRecords(e, replaced))
              /\ acked' = acked \ replaced /\ durable' = durable \ replaced
              /\ UNCHANGED raced
        /\ UNCHANGED <<tombs, disk, dirty, phase, syncer, checkpointer, checkpoints,
                       crashes>>

\* apply_deletion: the event is in the index, so its deletion is recorded first.
Delete(t, e) ==
    /\ Idle(t)
    /\ e \in Deletable \cap live
    /\ calls' = calls + 1
    /\ Start(t, "delete", e, <<Rec("Tombstone", e)>>)
    /\ UNCHANGED <<memory, disk, dirty, phase, syncer, checkpointer, history,
                   checkpoints, crashes>>

\* append, under the lock of the file: write the record and flush it to the OS.
WriteRecord(t) ==
    LET r == Head(recs[t])
    IN  /\ pc[t] = "append"
        /\ wal' = Append(wal, r)
        /\ recs' = [recs EXCEPT ![t] = Tail(@)]
        /\ pc' = [pc EXCEPT ![t] = "mark"]
        /\ IF r.op = "Tombstone" THEN Forget(UpTo(r.id)) ELSE UNCHANGED history
        /\ UNCHANGED <<memory, snapshot, wal_old, synced, dirty, phase, op, ev, syncer,
                       checkpointer, bounds>>
        /\ FilesChange

\* append, after the lock: set the dirty flag.  The call goes on to its next
\* record, to the removal from memory, or to its answer.  (The answer counts in
\* acked if the event is still the one this call stored.)
MarkDirty(t) ==
    LET e == ev[t]
        stored == e \in live /\ \A u \in Threads \ {t} : ev[u] # e
    IN  /\ pc[t] = "mark"
        /\ dirty' = TRUE
        /\ \/ /\ recs[t] # <<>>
              /\ pc' = [pc EXCEPT ![t] = "append"]
              /\ UNCHANGED <<op, ev, recs, acked>>
           \/ /\ recs[t] = <<>> /\ op[t] = "delete"
              /\ pc' = [pc EXCEPT ![t] = "remove"]
              /\ UNCHANGED <<op, ev, recs, acked>>
           \/ /\ recs[t] = <<>> /\ op[t] = "insert"      \* InsertResult::Stored
              /\ acked' = IF stored THEN acked \cup {e} ELSE acked
              /\ Finish(t)
        /\ UNCHANGED <<memory, disk, phase, syncer, checkpointer, durable, raced, bounds>>

\* delete_by_id, once the deletion is recorded.
DeleteById(t) ==
    /\ pc[t] = "remove"
    /\ live' = live \ {ev[t]}
    /\ tombs' = tombs \cup {ev[t]}
    /\ Finish(t)
    /\ UNCHANGED <<disk, dirty, phase, syncer, checkpointer, history, bounds>>

\* maybe_evict: an eviction leaves no record.
Evict(e) ==
    /\ phase = "up"
    /\ e \in Evictable \cap live
    /\ live' = live \ {e}
    /\ Forget(UpTo(e))
    /\ UNCHANGED <<tombs, disk, dirty, phase, tasks, syncer, checkpointer, bounds>>

-----------------------------------------------------------------------------
(* Group commit: the dirty flag is cleared before the fsync. *)

ClearFlag == dirty' = FALSE /\ UNCHANGED <<log, history>>

Fsync ==
    /\ synced' = Len(wal)
    /\ durable' = acked
    /\ UNCHANGED <<wal, dirty, acked, raced>>

GroupCommitBug ==
    /\ \/ phase = "up" /\ syncer = "idle" /\ dirty /\ syncer' = "sync" /\ Fsync
       \/ syncer = "sync" /\ syncer' = "idle" /\ ClearFlag
    /\ UNCHANGED <<memory, snapshot, wal_old, restored, phase, tasks, checkpointer,
                   bounds>>

GroupCommit ==
    /\ \/ phase = "up" /\ syncer = "idle" /\ dirty /\ syncer' = "sync" /\ ClearFlag
       \/ syncer = "sync" /\ syncer' = "idle" /\ Fsync
    /\ UNCHANGED <<memory, snapshot, wal_old, restored, phase, tasks, checkpointer,
                   bounds>>

-----------------------------------------------------------------------------
(* Checkpoint, beside the connection tasks or at the end of load_from_disk. *)

\* Nothing of a fresh segment is on disk.
FreshSyncedBug == synced
FreshSynced == 0

\* rotate: fsync wal.log, rename it over wal.log.old, start an empty one.  In the
\* background: maybe_checkpoint found the log grown beyond its threshold.
Rotate ==
    /\ \/ ckpt = "rotate" /\ UNCHANGED checkpoints
       \/ /\ Checkpointing
          /\ phase = "up" /\ ckpt = "idle"
          /\ checkpoints < MaxCheckpoints /\ checkpoints' = checkpoints + 1
    /\ wal_old' = wal
    /\ wal' = <<>> /\ synced' = FreshSynced
    /\ dirty' = FALSE
    /\ durable' = acked /\ raced' = raced \cup Racing
    /\ ckpt' = "scan"
    /\ unvisited' = Events /\ temp' = <<>>
    /\ UNCHANGED <<memory, snapshot, phase, tasks, syncer, acked, calls, crashes>>
    /\ FilesChange

\* write_snapshot: iter_all locks one shard of by_id after the other.
Visit(e) ==
    /\ ckpt = "scan"
    /\ e \in unvisited
    /\ unvisited' = unvisited \ {e}
    /\ temp' = IF e \in live THEN Append(temp, e) ELSE temp
    /\ UNCHANGED <<memory, disk, dirty, phase, tasks, syncer, ckpt, history, bounds>>

\* write_snapshot: fsync the temporary file and rename it into place.
RenameSnapshot ==
    /\ ckpt = "scan" /\ unvisited = {}
    /\ snapshot' = temp
    /\ ckpt' = "remove"
    /\ UNCHANGED <<memory, wal_old, log, dirty, phase, tasks, syncer, unvisited, temp,
                   history, bounds>>
    /\ FilesChange

\* The caller of checkpoint goes on; load_from_disk was the last step of startup.
CheckpointOver ==
    /\ ckpt' = "idle" /\ unvisited' = {} /\ temp' = <<>>
    /\ phase' = "up"

\* The snapshot could not be written: wal.log.old stays where it is.
SnapshotFails ==
    /\ IOErrors
    /\ ckpt = "scan"
    /\ CheckpointOver
    /\ UNCHANGED <<memory, disk, dirty, tasks, syncer, history, bounds>>

RemoveOld ==
    /\ ckpt = "remove"
    /\ wal_old' = <<>>
    /\ CheckpointOver
    /\ UNCHANGED <<memory, snapshot, log, dirty, tasks, syncer, history, bounds>>
    /\ FilesChange

-----------------------------------------------------------------------------
(* Dying and coming back. *)

\* The process is gone, and with it everything that is not on disk.
Die ==
    /\ phase = "up" \/ (CrashInLoad /\ phase = "loaded")
    /\ crashes < MaxCrashes
    /\ crashes' = crashes + 1
    /\ phase' = "down"
    /\ live' = {} /\ tombs' = {} /\ dirty' = FALSE
    /\ pc' = [t \in Threads |-> "idle"]
    /\ op' = [t \in Threads |-> None]
    /\ ev' = [t \in Threads |-> None]
    /\ recs' = [t \in Threads |-> <<>>]
    /\ syncer' = "idle" /\ ckpt' = "idle" /\ unvisited' = {} /\ temp' = <<>>
    /\ raced' = {}
    /\ UNCHANGED <<snapshot, wal_old, calls, checkpoints>>

\* What was flushed to the OS survives the process.
Crash == Die /\ UNCHANGED <<log, restored, acked, durable>>

\* A power loss may also take what no fsync has covered, the last record in part.
PowerLoss ==
    /\ Die
    /\ \E n \in synced .. Len(wal) :
         \/ wal' = SubSeq(wal, 1, n) /\ synced' = n
         \/ /\ TornWrites /\ n < Len(wal)
            /\ wal' = Append(SubSeq(wal, 1, n), [wal[n + 1] EXCEPT !.op = "Torn"])
            /\ synced' = n + 1
    /\ acked' = durable
    /\ UNCHANGED durable
    /\ FilesChange

\* load_from_disk, up to the end of the replay.  Nobody else runs yet.
Load ==
    LET m == Restore(snapshot, wal_old, wal)
    IN  /\ phase = "down"
        /\ phase' = "loaded"
        /\ live' = m.live /\ tombs' = m.tombs
        /\ Forget(UNION {UpTo(e) : e \in m.evicted})
        /\ UNCHANGED <<disk, dirty, tasks, syncer, checkpointer, bounds>>

\* load_from_disk, from there: the rotated segment is removed, then a checkpoint
\* follows if anything was read; if nothing was, half a record stays in the log.
DropOld ==
    /\ phase = "loaded" /\ ckpt = "idle"
    /\ wal_old' = <<>>
    /\ IF snapshot \o Readable(wal_old) \o Readable(wal) = <<>>
         THEN phase' = "up" /\ UNCHANGED ckpt
         ELSE ckpt' = "rotate" /\ UNCHANGED phase
    /\ UNCHANGED <<memory, snapshot, log, dirty, tasks, syncer, unvisited, temp,
                   history, bounds>>
    /\ FilesChange

-----------------------------------------------------------------------------

Checkpoint ==
    \/ Rotate \/ RenameSnapshot \/ SnapshotFails \/ RemoveOld
    \/ \E e \in Events : Visit(e)

Next ==
    \/ \E t \in Threads :
         \/ \E e \in Events : Publish(t, e) \/ Delete(t, e)
         \/ WriteRecord(t) \/ MarkDirty(t) \/ DeleteById(t)
    \/ \E e \in Events : Evict(e)
    \/ GroupCommit \/ Checkpoint
    \/ Crash \/ PowerLoss \/ Load \/ DropOld


Spec == Init /\ [][Next]_vars

\* The tasks keep running: a started call is carried through, the group-commit
\* loop wakes up again and again, startup and a started checkpoint come to an end.
Fairness ==
    /\ \A t \in Threads : WF_vars(WriteRecord(t) \/ MarkDirty(t) \/ DeleteById(t))
    /\ WF_vars(GroupCommit)
    /\ WF_vars(Checkpoint) /\ WF_vars(Load \/ DropOld)

FairSpec == Spec /\ Fairness

-----------------------------------------------------------------------------
(* Correctness. *)

\* A restart from memory m gives e back, or a newer version of it, or evicted
\* one of them to stay within its limit.
Covers(m, e) ==
    \E f \in m.live \cup m.evicted : f = e \/ (f \in Versions(Events, e) /\ Wins(f, e))

\* An event that was answered as stored is recovered by a restart, whenever the
\* process died, the moments inside a checkpoint included (mod.rs:704-707: "the
\* previous events.jsonl plus wal.log.old plus wal.log still cover the full
\* state").
AckedRecoverable ==
    phase # "loaded" => \A e \in acked : Covers(restored, e)

\* AckedRecoverable against a power loss, which keeps any part of the log beyond the last
\* fsync, for what a group commit or a rotation has covered (wal.rs:97-102).
DurableRecoverable ==
    phase # "loaded" /\ durable # {} =>
        \A m \in {Restore(snapshot, wal_old, SubSeq(wal, 1, n)) : n \in synced .. Len(wal)} :
            \A e \in durable : Covers(m, e)

\* The events of records behind half a record: no replay reads them.
Hidden ==
    UNION {{s[i].id : i \in {j \in DOMAIN s : HasTorn(SubSeq(s, 1, j - 1))}} : s \in {wal_old, wal}}

\* With records that a power loss tears in half, and a snapshot at startup that may fail,
\* an answered event is still recovered, unless its own record was written behind half a
\* record (wal.rs:213-232 stops there; mod.rs:919 writes no snapshot if nothing was
\* read before it).
OnlyHiddenLost ==
    phase # "loaded" => \A e \in acked \ Hidden : Covers(restored, e)

\* What a deletion request removed does not come back with a restart (mod.rs:381-383:
\* "On restart, replaying this record prevents a deleted event from being
\* resurrected from the snapshot").
DeletedNotRestored ==
    phase = "up" => tombs \cap restored.live = {}

\* A deleted event that does come back was being deleted when a checkpoint rotated the
\* log, or its insert was still being recorded: its Tombstone record is in the segment
\* that the checkpoint drops (mod.rs:425 writes the record before memory changes).
DeletedKeptOut ==
    phase = "up" => tombs \cap restored.live \subseteq raced

\* A record that is not fsynced is always known to somebody: the flag is set, a
\* call is about to set it, or the group commit that cleared it has not synced yet
\* (wal.rs:151-152: "any append racing in after this point will set it again").
UnsyncedIsTracked ==
    phase = "up" /\ synced < Len(wal) /\ ~HasTorn(wal) =>
        dirty \/ syncer = "sync" \/ \E t \in Threads : pc[t] = "mark"

\* The events that a restart would bring back.
\* During startup the files are being replaced, and memory counts.
Saved == IF phase = "loaded" THEN live ELSE restored.live \cup restored.evicted

Promise == INSTANCE StorePromise WITH
    up <- (phase # "down"), saved <- Saved, inflight <- InFlight,
    copied <- {temp[i] : i \in DOMAIN temp}, raced <- tombs \cap raced,
    Older <- [e \in Events |-> UpTo(e) \ {e}]

\* Log, rotation, snapshot and replay implement StorePromise: no step of a checkpoint,
\* no record and no crash in between changes what a restart brings back other than
\* toward memory (mod.rs:694-707).
PromiseKept == Promise!Spec

\* Every record written to the log is fsynced sooner or later, without a further
\* append to push it (mod.rs:174-175: the task "bounds the durability window").
EventuallySynced == synced < Len(wal) ~> synced = Len(wal)

=============================================================================
