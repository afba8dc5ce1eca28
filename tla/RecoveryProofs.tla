-------------------------- MODULE RecoveryProofs --------------------------
(***************************************************************************)
(* Proofs about Persistence: what was answered as stored, and what an      *)
(* fsync covered, is recovered by a restart; and the log, the snapshot and *)
(* the replay implement StorePromise.                                      *)
(***************************************************************************)
EXTENDS PersistenceProofs

-----------------------------------------------------------------------------
(* The inductive invariant. *)

\* The cases in which an answered event can be lost, and that the theorems exclude:
\* half a record in the log hides the ones after it; a crash during startup finds
\* wal.log.old gone and its events in no file; after a snapshot that failed, the next
\* rotation overwrites wal.log.old; and the Delete record of a version that was
\* replaced, and came back when the newer one was evicted or deleted, is replayed.
Undisturbed ==
    /\ ~TornWrites /\ ~CrashInLoad /\ ~IOErrors
    /\ \A e \in Deletable \cup Evictable : KeyOf[e] = None

\* S has e, or a newer version of it.
Has(S, e) == \E h \in S : AtLeast(h, e)
HasNewer(S, e) == \E h \in S : Newer(h, e)

\* The events that the files, and the fsynced part of them, insert; the ones they
\* remove.
OnDisk == Lines(snapshot) \cup Inserted(wal_old) \cup Inserted(wal)
InSynced == Inserted(SubSeq(wal, 1, synced))
OnSynced == Lines(snapshot) \cup Inserted(wal_old) \cup InSynced
Dead == Killed(wal_old) \cup Killed(wal)
NoTorn == ~HasTorn(wal) /\ ~HasTorn(wal_old)

MemInv ==
    phase # "down" => Single(live) /\ acked \subseteq live /\ live \cap tombs = {}

\* What the running calls are about.
CallsUp ==
    phase = "up" =>
      /\ \A t \in Threads : Recording(t) => ev[t] \notin acked
      /\ acked \cap Pending = {}
      /\ \A t \in Threads :
           pc[t] # "idle" /\ op[t] = "insert" /\ KeyOf[ev[t]] # None => Has(live, ev[t])

\* An event in memory is on disk, or is about to be; a checkpoint does not take it away.
Saves ==
    phase = "up" =>
      /\ live \subseteq Pending \cup OnDisk
      /\ ckpt = "scan" =>
           live \subseteq Pending \cup unvisited \cup Lines(temp) \cup Inserted(wal)
      /\ ckpt = "remove" => live \subseteq Pending \cup Lines(snapshot) \cup Inserted(wal)
      /\ ckpt = "idle" => wal_old = <<>>

\* The same of what an fsync covered.
Syncs ==
    phase # "loaded" =>
      /\ durable \subseteq OnSynced
      /\ ckpt = "scan" => durable \subseteq unvisited \cup Lines(temp) \cup InSynced
      /\ ckpt = "remove" => durable \subseteq Lines(snapshot) \cup InSynced

\* Of every version on disk memory has that version or a newer one, and what the log
\* removes has been removed from memory, or is about to be.
Old ==
    phase = "up" =>
      /\ \A f \in OnDisk \cup Lines(temp) : KeyOf[f] # None => Has(live, f)
      /\ \A g \in Dead : KeyOf[g] # None => HasNewer(live, g)
      /\ \A g \in Dead : KeyOf[g] = None =>
           g \in tombs \/ \E t \in Threads : Recording(t) /\ ev[t] = g

\* What a crash leaves behind: every answered event is on disk, and no record and no
\* other version takes it away.
Intact ==
    /\ acked \subseteq OnDisk
    /\ \A e \in acked : \A g \in Dead : ~AtLeast(g, e)
    /\ \A e \in acked : \A f \in OnDisk : f \in Versions(Events, e) => Wins(e, f)

DownInv == phase = "down" => Intact /\ temp = <<>>

\* Startup: what was restored is in the files, until it is in the new snapshot.
LoadInv ==
    phase = "loaded" =>
      /\ ckpt = "idle" => live \subseteq OnDisk /\ temp = <<>>
      /\ ckpt = "scan" => live \subseteq unvisited \cup Lines(temp) /\ Lines(temp) \subseteq live
      /\ ckpt = "remove" => Lines(snapshot) = live

RecInv ==
    /\ CallInv /\ NoTorn /\ MemInv /\ CallsUp /\ Saves /\ Syncs /\ Old /\ DownInv /\ LoadInv

LEMMA InitRecInv == Init => RecInv
<1> SUFFICES ASSUME Init PROVE RecInv
  BY ZenonT(30)
<1>1. phase = "down" /\ acked = {} /\ durable = {} /\ ckpt = "idle" /\ temp = <<>>
  BY ZenonT(30) DEF Init
<1>2. CallInv
  BY ZenonT(30), InitCallInv
<1>3. NoTorn
  BY DEF Init, NoTorn, HasTorn
<1>4. MemInv /\ CallsUp /\ Saves /\ Syncs /\ Old /\ LoadInv
  BY ZenonT(30), <1>1 DEF MemInv, CallsUp, Saves, Syncs, Old, LoadInv
<1>5. DownInv
  BY ZenonT(30), <1>1 DEF DownInv, Intact
<1> QED
  BY ZenonT(30), <1>2, <1>3, <1>4, <1>5 DEF RecInv

\* When memory changes from A to B and keeps a version of everything, or a newer one.
LEMMA HasMoves ==
    ASSUME NEW A \in SUBSET Events, NEW B \in SUBSET Events,
           \A h \in A : KeyOf[h] # None => Has(B, h),
           NEW f \in Events, KeyOf[f] # None
    PROVE  (Has(A, f) => Has(B, f)) /\ (HasNewer(A, f) => HasNewer(B, f))
<1>1. ASSUME NEW h \in A, AtLeast(h, f) PROVE Has(B, f)
  <2>1. KeyOf[h] # None /\ h \in Events
    BY ZenonT(30), <1>1, NewerOrder DEF AtLeast
  <2>2. PICK k \in B : AtLeast(k, h)
    BY ZenonT(30), <2>1 DEF Has
  <2>3. AtLeast(k, f)
    BY ZenonT(30), <1>1, <2>1, <2>2, NewerOrder
  <2> QED
    BY ZenonT(30), <2>3 DEF Has
<1>2. ASSUME NEW h \in A, Newer(h, f) PROVE HasNewer(B, f)
  <2>1. KeyOf[h] # None /\ h \in Events
    BY ZenonT(30), <1>2, NewerOrder
  <2>2. PICK k \in B : AtLeast(k, h)
    BY ZenonT(30), <2>1 DEF Has
  <2>3. Newer(k, f)
    BY ZenonT(30), <1>2, <2>1, <2>2, NewerOrder
  <2> QED
    BY ZenonT(30), <2>3 DEF HasNewer
<1> QED
  BY ZenonT(30), <1>1, <1>2 DEF Has, HasNewer

\* While the store serves, a crash at any moment leaves the files intact.
LEMMA UpIntact == TypeInv /\ RecInv /\ phase = "up" => Intact
<1> SUFFICES ASSUME TypeInv, RecInv, phase = "up" PROVE Intact
  BY ZenonT(30)
<1>1. /\ Single(live) /\ acked \subseteq live /\ live \cap tombs = {} /\ live \subseteq Events
      /\ acked \cap Pending = {} /\ live \subseteq Pending \cup OnDisk
  BY ZenonT(30) DEF RecInv, MemInv, CallsUp, Saves, TypeInv, MemoryType
<1>2. Dead \subseteq Events /\ OnDisk \subseteq Events
  BY ZenonT(30) DEF Dead, OnDisk, Killed, Inserted, Lines
<1>3. acked \subseteq OnDisk
  BY ZenonT(30), <1>1
<1>4. ASSUME NEW e \in acked, NEW g \in Dead, AtLeast(g, e) PROVE FALSE
  <2>1. e \in live /\ e \in Events /\ g \in Events
    BY ZenonT(30), <1>1, <1>2
  <2>2. CASE KeyOf[g] = None
    <3>1. g = e
      BY ZenonT(30), <1>4, <2>1, <2>2, NewerOrder DEF AtLeast
    <3>2. g \in tombs \/ \E t \in Threads : Recording(t) /\ ev[t] = g
      BY ZenonT(30), <2>2 DEF RecInv, Old
    <3> QED
      BY ZenonT(30), <1>1, <2>1, <3>1, <3>2 DEF RecInv, CallsUp
  <2>3. CASE KeyOf[g] # None
    <3>1. PICK h \in live : Newer(h, g)
      BY ZenonT(30), <2>3 DEF RecInv, Old, HasNewer
    <3>2. Newer(h, e) /\ h \in Events
      BY ZenonT(30), <1>1, <1>4, <2>1, <3>1, NewerOrder
    <3>3. h \in Versions(live, e)
      BY ZenonT(30), <2>1, <3>1, <3>2 DEF Newer, Versions
    <3> QED
      BY ZenonT(30), <1>1, <2>1, <3>3 DEF Single
  <2> QED
    BY ZenonT(30), <2>2, <2>3
<1>5. ASSUME NEW e \in acked, NEW f \in OnDisk, f \in Versions(Events, e) PROVE Wins(e, f)
  <2>1. e \in live /\ e \in Events /\ f \in Events
    BY ZenonT(30), <1>1, <1>2
  <2>2. f # e /\ KeyOf[e] # None /\ KeyOf[f] = KeyOf[e]
    BY ZenonT(30), <1>5 DEF Versions
  <2>3. PICK h \in live : AtLeast(h, f)
    BY ZenonT(30), <2>2 DEF RecInv, Old, Has
  <2>4. KeyOf[h] = KeyOf[e] /\ h \in Events
    BY ZenonT(30), <1>1, <2>1, <2>2, <2>3, NewerOrder DEF AtLeast
  <2>5. h = e
    BY ZenonT(30), <1>1, <2>1, <2>2, <2>4 DEF Single, Versions
  <2> QED
    BY ZenonT(30), <2>1, <2>2, <2>3, <2>5, NewerOrder DEF AtLeast
<1> QED
  BY ZenonT(30), <1>3, <1>4, <1>5 DEF Intact

-----------------------------------------------------------------------------
(* The steps.  First the calls by themselves, and the log by itself. *)

LEMMA TornStep == Undisturbed /\ TypeInv /\ CallInv /\ NoTorn /\ [Next]_vars => NoTorn'
<1> SUFFICES ASSUME Undisturbed, TypeInv, CallInv, NoTorn, [Next]_vars PROVE NoTorn'
  BY ZenonT(30)
<1>0. wal \in Seq(Record) /\ wal_old \in Seq(Record) /\ synced \in 0 .. Len(wal)
  BY ZenonT(30) DEF TypeInv, LogInv, LogType, DiskType
<1>1. CASE UNCHANGED <<wal, wal_old>>
  BY ZenonT(30), <1>1 DEF NoTorn, HasTorn
<1>2. ~HasTorn(<<>>)
  BY DEF HasTorn
<1>3. ASSUME NEW t \in Threads, WriteRecord(t) PROVE NoTorn'
  <2> DEFINE r == Head(recs[t])
  <2>1. wal' = Append(wal, r) /\ wal_old' = wal_old /\ pc[t] = "append"
    BY ZenonT(30), <1>3 DEF WriteRecord
  <2>2. r \in Sound
    BY ZenonT(30), <1>3, WriteCalls
  <2>3. r \in Record /\ r.op # "Torn"
    BY ZenonT(30), <2>2 DEF Sound
  <2> HIDE DEF r
  <2>5. /\ DOMAIN Append(wal, r) = 1 .. Len(wal) + 1 /\ DOMAIN wal = 1 .. Len(wal)
        /\ Len(wal) \in Nat
        /\ \A i \in 1 .. Len(wal) : Append(wal, r)[i] = wal[i]
        /\ Append(wal, r)[Len(wal) + 1] = r
    BY <1>0, <2>3
  <2>6. ASSUME NEW i \in DOMAIN Append(wal, r) PROVE Append(wal, r)[i].op # "Torn"
    <3>1. i \in DOMAIN wal \/ i = Len(wal) + 1
      BY <2>5
    <3> QED
      BY ZenonT(30), <2>3, <2>5, <3>1 DEF NoTorn, HasTorn
  <2> QED
    BY ZenonT(30), <2>1, <2>6 DEF NoTorn, HasTorn
<1>4. CASE Rotate
  BY ZenonT(30), <1>2, <1>4 DEF Rotate, NoTorn
<1>5. CASE RemoveOld \/ DropOld
  BY ZenonT(30), <1>2, <1>5 DEF RemoveOld, DropOld, log, NoTorn
<1>6. CASE PowerLoss
  <2>1. PICK n \in synced .. Len(wal) : wal' = SubSeq(wal, 1, n)
    BY ZenonT(30), <1>6 DEF PowerLoss, Undisturbed
  <2>2. n \in 0 .. Len(wal) /\ wal_old' = wal_old
    BY <1>0, <1>6 DEF PowerLoss, Die
  <2> QED
    BY ZenonT(30), <1>0, <2>1, <2>2, PrefixParts DEF NoTorn
<1>7. CASE \E t \in Threads : \/ \E e \in Events : Publish(t, e) \/ Delete(t, e)
                              \/ MarkDirty(t) \/ DeleteById(t)
  BY ZenonT(30), <1>1, <1>7 DEF Publish, Delete, MarkDirty, DeleteById, disk, log
<1>8. CASE (\E e \in Events : Evict(e) \/ Visit(e)) \/ GroupCommit \/ Crash \/ Load
  BY ZenonT(30), <1>1, <1>8 DEF Evict, Visit, GroupCommit, ClearFlag, Fsync, Crash, Die, Load, disk, log
<1>9. CASE RenameSnapshot \/ SnapshotFails \/ UNCHANGED vars
  BY ZenonT(30), <1>1, <1>9 DEF RenameSnapshot, SnapshotFails, vars, disk, log
<1> QED
  BY ZenonT(30), <1>3, <1>4, <1>5, <1>6, <1>7, <1>8, <1>9 DEF Next, Checkpoint

\* The files do not change.
LEMMA DiskSame ==
    UNCHANGED <<snapshot, wal_old, wal, synced>> =>
        /\ OnDisk' = OnDisk /\ InSynced' = InSynced /\ OnSynced' = OnSynced /\ Dead' = Dead
        /\ Lines(snapshot)' = Lines(snapshot) /\ Inserted(wal)' = Inserted(wal)
BY ZenonT(30) DEF OnDisk, InSynced, OnSynced, Dead

\* What the steps below start from: the invariant, and what is known of the next state.
Before == Undisturbed /\ TypeInv /\ TypeInv' /\ RecInv /\ CallInv' /\ NoTorn'

LEMMA PublishRec ==
    ASSUME Before, NEW t \in Threads, NEW e \in Events, Publish(t, e), Accepts(live, tombs, e)
    PROVE  RecInv'
<1> DEFINE V == Versions(live, e)
           rs == InsertRecords(e, V)
<1>1. /\ phase = "up" /\ phase' = "up" /\ pc[t] = "idle"
      /\ live' = (live \ V) \cup {e} /\ tombs' = tombs
      /\ pc' = [pc EXCEPT ![t] = "append"] /\ op' = [op EXCEPT ![t] = "insert"]
      /\ ev' = [ev EXCEPT ![t] = e] /\ recs' = [recs EXCEPT ![t] = rs]
      /\ acked' = acked \ V /\ durable' = durable \ V
      /\ UNCHANGED <<snapshot, wal_old, wal, synced, ckpt, unvisited, temp>>
  BY ZenonT(30) DEF Publish, Idle, Start, disk, log, checkpointer
<1>2. /\ pc \in [Threads -> {"idle", "append", "mark", "remove"}]
      /\ recs \in [Threads -> Seq(Record)]
      /\ op \in [Threads -> {None, "insert", "delete"}]
      /\ ev \in [Threads -> Events \cup {None}]
      /\ \A u \in Threads : pc[u] # "idle" => ev[u] \in Events
      /\ live \subseteq Events /\ live' \subseteq Events
  BY ZenonT(30) DEF Before, TypeInv, LogInv, LogType, ControlType, MemoryType
<1>3. /\ Single(live) /\ acked \subseteq live /\ live \cap tombs = {}
      /\ CallInv /\ CallInv' /\ NoTorn' /\ CallsUp /\ Saves /\ Syncs /\ Old
  BY ZenonT(30), <1>1 DEF Before, RecInv, MemInv
<1>4. /\ OnDisk' = OnDisk /\ InSynced' = InSynced /\ OnSynced' = OnSynced /\ Dead' = Dead
      /\ Lines(snapshot)' = Lines(snapshot) /\ Inserted(wal)' = Inserted(wal)
      /\ Lines(temp)' = Lines(temp)
  BY ZenonT(30), <1>1, DiskSame
<1>5. /\ Pending' = Pending \cup {e}
      /\ \A u \in Threads : Recording(u)' = Recording(u) /\ (Recording(u) => ev'[u] = ev[u])
  BY ZenonT(30), PublishCalls DEF Before, RecInv
<1>6. e \notin live /\ e \notin tombs /\ \A f \in V : Newer(e, f)
  BY ZenonT(30), <1>2, NewerOrder DEF Accepts, Versions
<1>7. \A u \in Threads \ {t} : pc'[u] = pc[u] /\ op'[u] = op[u] /\ ev'[u] = ev[u]
  BY ZenonT(30), <1>1, <1>2
<1>8. pc'[t] = "append" /\ op'[t] = "insert" /\ ev'[t] = e
  BY ZenonT(30), <1>1, <1>2
<1>10. \A f \in Events : KeyOf[f] # None =>
         (Has(live, f) => Has(live', f)) /\ (HasNewer(live, f) => HasNewer(live', f))
  <2>1. \A h \in live : Has(live', h)
    BY ZenonT(30), <1>1, <1>6 DEF Has, AtLeast
  <2> QED
    BY ZenonT(30), <1>2, <2>1, HasMoves
<1>11. MemInv'
  <2>1. Single(live')
    BY ZenonT(30), <1>1, <1>2, <1>3 DEF Single, Versions
  <2> HIDE DEF V
  <2> QED
    BY ZenonT(30), <1>1, <1>3, <1>6, <2>1 DEF MemInv
<1> HIDE DEF V, rs
<1>12. CallsUp'
  <2>1. \A u \in Threads : Recording(u)' => ev'[u] \notin acked'
    BY <1>1, <1>3, <1>5 DEF CallsUp
  <2>2. acked' \cap Pending' = {}
    BY ZenonT(30), <1>1, <1>3, <1>5, <1>6 DEF CallsUp
  <2>3. ASSUME NEW u \in Threads, pc'[u] # "idle", op'[u] = "insert", KeyOf[ev'[u]] # None
        PROVE  Has(live', ev'[u])
    <3>1. CASE u = t
      BY ZenonT(30), <1>1, <1>8, <3>1 DEF Has, AtLeast
    <3>2. CASE u # t
      BY ZenonT(30), <1>1, <1>2, <1>3, <1>7, <1>10, <2>3, <3>2 DEF CallsUp
    <3> QED
      BY ZenonT(30), <3>1, <3>2
  <2> QED
    BY ZenonT(30), <2>1, <2>2, <2>3 DEF CallsUp
<1>13. Saves'
  BY ZenonT(30), <1>1, <1>3, <1>4, <1>5 DEF Saves
<1>14. Syncs'
  BY ZenonT(30), <1>1, <1>3, <1>4 DEF Syncs
<1>15. Old'
  <2>1. OnDisk \cup Lines(temp) \cup Dead \subseteq Events
    BY ZenonT(30) DEF OnDisk, Dead, Inserted, Killed, Lines
  <2>2. \A f \in OnDisk \cup Lines(temp) : KeyOf[f] # None => Has(live', f)
    BY ZenonT(30), <1>1, <1>3, <1>10, <2>1 DEF Old
  <2>3. \A g \in Dead : KeyOf[g] # None => HasNewer(live', g)
    BY ZenonT(30), <1>1, <1>3, <1>10, <2>1 DEF Old
  <2>4. \A g \in Dead : KeyOf[g] = None =>
          g \in tombs' \/ \E u \in Threads : Recording(u)' /\ ev'[u] = g
    BY ZenonT(30), <1>1, <1>3, <1>5 DEF Old
  <2> QED
    BY ZenonT(30), <1>4, <2>2, <2>3, <2>4 DEF Old
<1>16. DownInv' /\ LoadInv'
  BY ZenonT(30), <1>1 DEF DownInv, LoadInv
<1> QED
  BY ZenonT(30), <1>3, <1>11, <1>12, <1>13, <1>14, <1>15, <1>16 DEF RecInv

LEMMA DeleteRec ==
    ASSUME Before, NEW t \in Threads, NEW e \in Events, Delete(t, e)
    PROVE  RecInv'
<1> DEFINE rs == <<Rec("Tombstone", e)>>
<1>1. /\ phase = "up" /\ pc[t] = "idle"
      /\ pc' = [pc EXCEPT ![t] = "append"] /\ op' = [op EXCEPT ![t] = "delete"]
      /\ ev' = [ev EXCEPT ![t] = e] /\ recs' = [recs EXCEPT ![t] = rs]
      /\ UNCHANGED <<phase, live, tombs, snapshot, wal_old, wal, synced, ckpt, unvisited,
                     temp, acked, durable>>
  BY ZenonT(30) DEF Delete, Idle, Start, memory, disk, log, checkpointer, history
<1>2. /\ pc \in [Threads -> {"idle", "append", "mark", "remove"}]
      /\ recs \in [Threads -> Seq(Record)]
      /\ op \in [Threads -> {None, "insert", "delete"}]
      /\ ev \in [Threads -> Events \cup {None}]
  BY ZenonT(30) DEF Before, TypeInv, LogInv, LogType, ControlType
<1>3. /\ CallInv /\ CallInv' /\ NoTorn' /\ MemInv /\ CallsUp /\ Saves /\ Syncs /\ Old
  BY ZenonT(30) DEF Before, RecInv
<1>4. /\ OnDisk' = OnDisk /\ InSynced' = InSynced /\ OnSynced' = OnSynced /\ Dead' = Dead
      /\ Lines(snapshot)' = Lines(snapshot) /\ Inserted(wal)' = Inserted(wal)
      /\ Lines(temp)' = Lines(temp)
  BY ZenonT(30), <1>1, DiskSame
<1>5. /\ Pending' = Pending
      /\ \A u \in Threads : Recording(u)' = Recording(u) /\ (Recording(u) => ev'[u] = ev[u])
  BY ZenonT(30), DeleteCalls DEF Before, RecInv
<1>6. \A u \in Threads \ {t} : pc'[u] = pc[u] /\ op'[u] = op[u] /\ ev'[u] = ev[u]
  BY ZenonT(30), <1>1, <1>2
<1>7. pc'[t] = "append" /\ op'[t] = "delete"
  BY ZenonT(30), <1>1, <1>2
<1>9. MemInv'
  BY ZenonT(30), <1>1, <1>3 DEF MemInv
<1>10. CallsUp'
  BY <1>1, <1>3, <1>5, <1>6, <1>7 DEF CallsUp
<1>11. Saves' /\ Syncs'
  BY ZenonT(30), <1>1, <1>3, <1>4, <1>5 DEF Saves, Syncs
<1>12. Old'
  BY ZenonT(30), <1>1, <1>3, <1>4, <1>5 DEF Old
<1>13. DownInv' /\ LoadInv'
  BY ZenonT(30), <1>1 DEF DownInv, LoadInv
<1> QED
  BY ZenonT(30), <1>3, <1>9, <1>10, <1>11, <1>12, <1>13 DEF RecInv

LEMMA WriteRec ==
    ASSUME Before, NEW t \in Threads, WriteRecord(t)
    PROVE  RecInv'
<1> DEFINE r == Head(recs[t])
           e == ev[t]
           New == {x \in Events : r = Rec("Insert", x)}
           Kill == {x \in Events : r \in {Rec("Delete", x), Rec("Tombstone", x)}}
<1>1. /\ pc[t] = "append" /\ wal' = Append(wal, r)
      /\ recs' = [recs EXCEPT ![t] = Tail(@)] /\ pc' = [pc EXCEPT ![t] = "mark"]
      /\ UNCHANGED <<phase, live, tombs, snapshot, wal_old, synced, ckpt, unvisited,
                     temp, op, ev>>
      /\ IF r.op = "Tombstone" THEN Forget(UpTo(r.id)) ELSE UNCHANGED history
  BY ZenonT(30) DEF WriteRecord, memory, checkpointer
<1>2. /\ phase = "up"
      /\ pc \in [Threads -> {"idle", "append", "mark", "remove"}]
      /\ recs \in [Threads -> Seq(Record)] /\ recs[t] \in Seq(Record) /\ recs[t] # <<>>
      /\ wal \in Seq(Record) /\ synced \in 0 .. Len(wal)
      /\ op[t] \in {"insert", "delete"} /\ e \in Events
      /\ snapshot \in Seq(Events)
  BY ZenonT(30), <1>1 DEF Before, TypeInv, LogInv, LogType, ControlType, AloneInStartup, DiskType
<1>3. /\ CallInv /\ CallInv' /\ NoTorn' /\ MemInv /\ CallsUp /\ Saves /\ Syncs /\ Old
  BY ZenonT(30) DEF Before, RecInv
<1>4. /\ r \in Record /\ OfCall(t, r)
      /\ Pending \subseteq Pending' \cup New /\ Pending' \subseteq Pending
      /\ \A u \in Threads : /\ Recording(u) => Recording(u)'
                            /\ Recording(u)' => Recording(u) \/ (u = t /\ op[t] = "delete")
  BY ZenonT(30), WriteCalls DEF Before, RecInv, Sound
<1>5. op[t] = "delete" => KeyOf[e] = None
  BY ZenonT(30), <1>1, <1>3 DEF CallInv, CallOk, Before, Undisturbed
<1> HIDE DEF r
<1>6. /\ Inserted(wal)' = Inserted(wal) \cup New /\ Killed(wal)' = Killed(wal) \cup Kill
      /\ InSynced' = InSynced
  BY ZenonT(30), <1>1, <1>2, <1>4, AppendParts DEF InSynced
<1>7. /\ OnDisk' = OnDisk \cup New /\ Dead' = Dead \cup Kill /\ OnSynced' = OnSynced
      /\ Lines(snapshot)' = Lines(snapshot) /\ Lines(temp)' = Lines(temp)
  <2> HIDE DEF New, Kill
  <2> QED
    BY ZenonT(30), <1>1, <1>6 DEF OnDisk, Dead, OnSynced
<1>8. acked' \subseteq acked /\ durable' \subseteq durable
  BY ZenonT(30), <1>1 DEF Forget, history
<1>9. /\ pc'[t] = "mark" /\ \A u \in Threads : u # t => pc'[u] = pc[u]
      /\ \A u \in Threads : pc'[u] # "idle" => pc[u] # "idle"
  BY ZenonT(30), <1>1, <1>2
<1>11. ASSUME op[t] = "delete" PROVE e \notin acked' /\ Recording(t)'
  <2>1. r = Rec("Tombstone", e)
    BY ZenonT(30), <1>4, <1>11 DEF OfCall
  <2>2. r.op = "Tombstone" /\ r.id = e
    BY ZenonT(30), <2>1 DEF Rec
  <2>3. e \notin acked'
    BY ZenonT(30), <1>1, <1>2, <2>2 DEF Forget, UpTo
  <2> QED
    BY ZenonT(30), <1>1, <1>9, <1>11, <2>3 DEF Recording
<1>12. ASSUME op[t] = "insert", KeyOf[e] # None PROVE Has(live, e)
  BY ZenonT(30), <1>1, <1>2, <1>3, <1>12 DEF CallsUp
<1>13. ASSUME NEW x \in New, KeyOf[x] # None PROVE Has(live, x)
  <2>1. x = e /\ op[t] = "insert"
    BY <1>4, <1>13 DEF OfCall, Rec
  <2> QED
    BY ZenonT(30), <1>12, <1>13, <2>1
<1>14. ASSUME NEW g \in Kill
       PROVE  IF KeyOf[g] # None THEN HasNewer(live, g) ELSE g = e /\ op[t] = "delete"
  <2>1. CASE r = Rec("Delete", g)
    <3>1. r.op = "Delete" /\ r.id = g
      BY ZenonT(30), <2>1 DEF Rec
    <3>2. op[t] = "insert" /\ Newer(e, g)
      BY <1>4, <3>1 DEF OfCall, Rec
    <3>3. KeyOf[g] # None /\ KeyOf[e] # None /\ g \in Events
      BY <1>2, <1>14, <3>2, NewerOrder
    <3>4. PICK h \in live : AtLeast(h, e)
      BY ZenonT(30), <1>12, <3>2, <3>3 DEF Has
    <3>5. h \in Events
      BY ZenonT(30) DEF Before, TypeInv, MemoryType
    <3>6. Newer(h, g)
      BY ZenonT(30), <1>2, <3>2, <3>3, <3>4, <3>5, NewerOrder
    <3> QED
      BY ZenonT(30), <3>3, <3>6 DEF HasNewer
  <2>2. CASE r = Rec("Tombstone", g)
    <3>1. g = e /\ op[t] = "delete"
      BY ZenonT(30), <1>4, <2>2 DEF OfCall, Rec
    <3> QED
      BY ZenonT(30), <1>5, <3>1
  <2> QED
    BY ZenonT(30), <1>14, <2>1, <2>2
<1> HIDE DEF New, Kill, e
<1>15. MemInv'
  BY ZenonT(30), <1>1, <1>3, <1>8 DEF MemInv
<1>16. CallsUp'
  <2>1. \A u \in Threads : Recording(u)' => ev'[u] \notin acked'
    BY ZenonT(30), <1>1, <1>2, <1>3, <1>8, <1>4, <1>11 DEF CallsUp, e
  <2>2. acked' \cap Pending' = {}
    BY ZenonT(30), <1>2, <1>3, <1>4, <1>8 DEF CallsUp
  <2>3. \A u \in Threads : pc'[u] # "idle" /\ op'[u] = "insert" /\ KeyOf[ev'[u]] # None
          => Has(live', ev'[u])
    BY ZenonT(30), <1>1, <1>2, <1>3, <1>9 DEF CallsUp
  <2> QED
    BY ZenonT(30), <2>1, <2>2, <2>3 DEF CallsUp
<1>17. Saves'
  BY ZenonT(30), <1>1, <1>2, <1>3, <1>4, <1>6, <1>7 DEF Saves
<1>18. Syncs'
  BY ZenonT(30), <1>1, <1>2, <1>3, <1>6, <1>7, <1>8 DEF Syncs
<1>19. Old'
  <2>1. \A f \in OnDisk' \cup Lines(temp)' : KeyOf[f] # None => Has(live', f)
    BY ZenonT(30), <1>1, <1>2, <1>3, <1>7, <1>13 DEF Old
  <2>2. \A g \in Dead' : KeyOf[g] # None => HasNewer(live', g)
    BY ZenonT(30), <1>1, <1>2, <1>3, <1>7, <1>14 DEF Old
  <2>3. ASSUME NEW g \in Dead', KeyOf[g] = None, g \notin tombs'
        PROVE  \E u \in Threads : Recording(u)' /\ ev'[u] = g
    <3>1. CASE g \in Dead
      BY ZenonT(30), <1>1, <1>2, <1>3, <1>4, <2>3, <3>1 DEF Old
    <3>2. CASE g \in Kill
      BY ZenonT(30), <1>1, <1>11, <1>14, <2>3, <3>2 DEF e
    <3> QED
      BY ZenonT(30), <1>7, <3>1, <3>2
  <2> QED
    BY ZenonT(30), <2>1, <2>2, <2>3 DEF Old
<1>20. DownInv' /\ LoadInv'
  BY ZenonT(30), <1>1, <1>2 DEF DownInv, LoadInv
<1> QED
  BY ZenonT(30), <1>3, <1>15, <1>16, <1>17, <1>18, <1>19, <1>20 DEF RecInv

LEMMA MarkRec ==
    ASSUME Before, NEW t \in Threads, MarkDirty(t)
    PROVE  RecInv'
<1> DEFINE N == acked' \ acked
<1>1. /\ pc[t] = "mark"
      /\ UNCHANGED <<phase, live, tombs, snapshot, wal_old, wal, synced, ckpt, unvisited,
                     temp, durable>>
  BY ZenonT(30) DEF MarkDirty, memory, disk, log, checkpointer
<1>2. /\ phase = "up"
      /\ pc \in [Threads -> {"idle", "append", "mark", "remove"}]
      /\ recs \in [Threads -> Seq(Record)]
      /\ op \in [Threads -> {None, "insert", "delete"}]
      /\ ev \in [Threads -> Events \cup {None}]
  BY ZenonT(30), <1>1 DEF Before, TypeInv, LogInv, LogType, ControlType, AloneInStartup
<1>3. /\ CallInv /\ CallInv' /\ NoTorn' /\ MemInv /\ CallsUp /\ Saves /\ Syncs /\ Old
  BY ZenonT(30) DEF Before, RecInv
<1>4. /\ OnDisk' = OnDisk /\ InSynced' = InSynced /\ OnSynced' = OnSynced /\ Dead' = Dead
      /\ Lines(snapshot)' = Lines(snapshot) /\ Inserted(wal)' = Inserted(wal)
      /\ Lines(temp)' = Lines(temp)
  BY ZenonT(30), <1>1, DiskSame
<1>6. /\ Pending' = Pending
      /\ \A u \in Threads : Recording(u)' = Recording(u) /\ (Recording(u) => ev'[u] = ev[u])
  BY ZenonT(30), MarkCalls DEF Before, RecInv
<1>7. \A u \in Threads \ {t} : pc'[u] = pc[u] /\ op'[u] = op[u] /\ ev'[u] = ev[u]
  BY ZenonT(30), <1>2 DEF MarkDirty, Finish
<1>8. /\ pc'[t] # "idle" => op'[t] = op[t] /\ ev'[t] = ev[t]
      /\ \/ N = {}
         \/ /\ N \subseteq {ev[t]} /\ op[t] = "insert" /\ recs[t] = <<>> /\ ev[t] \in live
            /\ \A u \in Threads \ {t} : ev[u] # ev[t]
  <2>1. CASE UNCHANGED <<op, ev, acked>>
    BY ZenonT(30), <2>1
  <2>2. CASE /\ recs[t] = <<>> /\ op[t] = "insert" /\ Finish(t)
             /\ acked' = IF ev[t] \in live /\ \A u \in Threads \ {t} : ev[u] # ev[t]
                           THEN acked \cup {ev[t]} ELSE acked
    <3>1. pc'[t] = "idle"
      BY ZenonT(30), <1>2, <2>2 DEF Finish
    <3>2. CASE ev[t] \in live /\ \A u \in Threads \ {t} : ev[u] # ev[t]
      <4>1. N \subseteq {ev[t]}
        BY ZenonT(30), <2>2, <3>2
      <4> HIDE DEF N
      <4> QED
        BY <2>2, <3>1, <3>2, <4>1, ZenonT(30)
    <3>3. CASE ~(ev[t] \in live /\ \A u \in Threads \ {t} : ev[u] # ev[t])
      <4>1. N = {}
        BY ZenonT(30), <2>2, <3>3
      <4> HIDE DEF N
      <4> QED
        BY <3>1, <4>1, ZenonT(30)
    <3> QED
      BY ZenonT(30), <3>2, <3>3
  <2> QED
    BY ZenonT(30), <2>1, <2>2 DEF MarkDirty
<1>9. \A u \in Threads : pc'[u] # "idle" =>
                           /\ op'[u] = op[u] /\ ev'[u] = ev[u] /\ pc[u] # "idle"
  BY ZenonT(30), <1>1, <1>7, <1>8
<1>10. N \subseteq live /\ N \cap Pending = {}
  <2>1. CASE N = {}
    BY ZenonT(30), <2>1
  <2>2. CASE N # {}
    <3>1. /\ N \subseteq {ev[t]} /\ op[t] = "insert" /\ recs[t] = <<>> /\ ev[t] \in live
          /\ \A u \in Threads \ {t} : ev[u] # ev[t]
      BY ZenonT(30), <1>8, <2>2
    <3>2. ASSUME NEW u \in Threads, ev[t] \in Inserted(recs[u]) PROVE FALSE
      <4>1. PICK i \in DOMAIN recs[u] : recs[u][i] = Rec("Insert", ev[t])
        BY ZenonT(30), <3>2 DEF Inserted
      <4>2. u # t
        BY <3>1, <4>1
      <4>3. OfCall(u, Rec("Insert", ev[t]))
        BY ZenonT(30), <1>3, <4>1 DEF CallInv, CallOk
      <4>4. ev[u] = ev[t]
        BY ZenonT(30), <4>3 DEF OfCall, Rec
      <4> QED
        BY ZenonT(30), <3>1, <4>2, <4>4
    <3> HIDE DEF N
    <3> QED
      BY ZenonT(30), <3>1, <3>2 DEF Pending
  <2> QED
    BY ZenonT(30), <2>1, <2>2
<1>11. \A u \in Threads : Recording(u) => ev[u] \notin N
  BY ZenonT(30), <1>8 DEF Recording
<1>12. acked' \subseteq acked \cup N
  BY ZenonT(30)
<1> HIDE DEF N
<1>13. MemInv'
  BY ZenonT(30), <1>1, <1>3, <1>10, <1>12 DEF MemInv
<1>14. CallsUp'
  <2>1. \A u \in Threads : Recording(u)' => ev'[u] \notin acked'
    BY <1>2, <1>3, <1>6, <1>11, <1>12, ZenonT(30) DEF CallsUp
  <2>2. acked' \cap Pending' = {}
    BY ZenonT(30), <1>2, <1>3, <1>6, <1>10, <1>12 DEF CallsUp
  <2>3. \A u \in Threads : pc'[u] # "idle" /\ op'[u] = "insert" /\ KeyOf[ev'[u]] # None
          => Has(live', ev'[u])
    BY <1>1, <1>2, <1>3, <1>9, ZenonT(30) DEF CallsUp
  <2> QED
    BY <2>1, <2>2, <2>3, ZenonT(30) DEF CallsUp
<1>15. Saves' /\ Syncs'
  BY ZenonT(30), <1>1, <1>3, <1>4, <1>6 DEF Saves, Syncs
<1>16. Old'
  BY <1>1, <1>3, <1>4, <1>6, ZenonT(30) DEF Old
<1>17. DownInv' /\ LoadInv'
  BY ZenonT(30), <1>1, <1>2 DEF DownInv, LoadInv
<1> QED
  BY ZenonT(30), <1>3, <1>13, <1>14, <1>15, <1>16, <1>17 DEF RecInv

LEMMA RemoveRec ==
    ASSUME Before, NEW t \in Threads, DeleteById(t)
    PROVE  RecInv'
<1> DEFINE e == ev[t]
<1>1. /\ pc[t] = "remove" /\ live' = live \ {e} /\ tombs' = tombs \cup {e} /\ Finish(t)
      /\ UNCHANGED <<phase, snapshot, wal_old, wal, synced, ckpt, unvisited, temp,
                     acked, durable>>
  BY ZenonT(30) DEF DeleteById, disk, log, checkpointer, history
<1>2. /\ phase = "up"
      /\ pc \in [Threads -> {"idle", "append", "mark", "remove"}]
      /\ recs \in [Threads -> Seq(Record)]
      /\ op \in [Threads -> {None, "insert", "delete"}]
      /\ ev \in [Threads -> Events \cup {None}]
      /\ live \subseteq Events /\ live' \subseteq Events
  BY ZenonT(30), <1>1 DEF Before, TypeInv, LogInv, LogType, ControlType, AloneInStartup, MemoryType
<1>3. /\ CallInv /\ CallInv' /\ NoTorn' /\ MemInv /\ CallsUp /\ Saves /\ Syncs /\ Old
  BY ZenonT(30) DEF Before, RecInv
<1>4. /\ OnDisk' = OnDisk /\ InSynced' = InSynced /\ OnSynced' = OnSynced /\ Dead' = Dead
      /\ Lines(snapshot)' = Lines(snapshot) /\ Inserted(wal)' = Inserted(wal)
      /\ Lines(temp)' = Lines(temp)
  BY ZenonT(30), <1>1, DiskSame
<1>5. /\ Recording(t) /\ ~Recording(t)' /\ Pending' = Pending
      /\ \A u \in Threads \ {t} : Recording(u)' = Recording(u) /\ ev'[u] = ev[u]
  BY ZenonT(30), RemoveCalls DEF Before, RecInv
<1>6. KeyOf[e] = None /\ e \notin acked
  BY ZenonT(30), <1>1, <1>2, <1>3, <1>5 DEF CallInv, CallOk, Recording, CallsUp, Before, Undisturbed
<1>7. /\ \A u \in Threads \ {t} : pc'[u] = pc[u] /\ op'[u] = op[u] /\ ev'[u] = ev[u]
      /\ pc'[t] = "idle"
  BY ZenonT(30), <1>1, <1>2 DEF Finish
<1>9. \A f \in Events : KeyOf[f] # None =>
         (Has(live, f) => Has(live', f)) /\ (HasNewer(live, f) => HasNewer(live', f))
  <2>1. \A h \in live : KeyOf[h] # None => Has(live', h)
    BY ZenonT(30), <1>1, <1>6 DEF Has, AtLeast
  <2> QED
    BY <1>2, <2>1, HasMoves, ZenonT(30)
<1> HIDE DEF e
<1>10. MemInv'
  <2>1. Single(live')
    BY ZenonT(30), <1>1, <1>2, <1>3 DEF MemInv, Single, Versions
  <2> QED
    BY ZenonT(30), <1>1, <1>2, <1>3, <1>6, <2>1 DEF MemInv
<1>11. CallsUp'
  <2>1. \A u \in Threads : Recording(u)' => ev'[u] \notin acked'
    BY ZenonT(30), <1>1, <1>2, <1>3, <1>5 DEF CallsUp
  <2>2. acked' \cap Pending' = {}
    BY ZenonT(30), <1>1, <1>2, <1>3, <1>5 DEF CallsUp
  <2>3. ASSUME NEW u \in Threads, pc'[u] # "idle", op'[u] = "insert", KeyOf[ev'[u]] # None
        PROVE  Has(live', ev'[u])
    <3>1. u # t /\ pc[u] # "idle" /\ op[u] = "insert" /\ ev'[u] = ev[u]
      BY <1>7, <2>3, ZenonT(30)
    <3>2. ev[u] \in Events
      BY ZenonT(30), <3>1 DEF Before, TypeInv, ControlType
    <3> QED
      BY <1>2, <1>3, <1>9, <2>3, <3>1, <3>2, ZenonT(30) DEF CallsUp
  <2> QED
    BY <2>1, <2>2, <2>3, ZenonT(30) DEF CallsUp
<1>12. Saves' /\ Syncs'
  BY ZenonT(30), <1>1, <1>3, <1>4, <1>5 DEF Saves, Syncs
<1>13. Old'
  <2>1. OnDisk \cup Lines(temp) \cup Dead \subseteq Events
    BY ZenonT(30) DEF OnDisk, Dead, Inserted, Killed, Lines
  <2>2. \A f \in OnDisk \cup Lines(temp) : KeyOf[f] # None => Has(live', f)
    BY <1>2, <1>3, <1>9, <2>1, ZenonT(30) DEF Old
  <2>3. \A g \in Dead : KeyOf[g] # None => HasNewer(live', g)
    BY <1>2, <1>3, <1>9, <2>1, ZenonT(30) DEF Old
  <2>4. ASSUME NEW g \in Dead, KeyOf[g] = None, g \notin tombs'
        PROVE  \E u \in Threads : Recording(u)' /\ ev'[u] = g
    <3>1. PICK u \in Threads : Recording(u) /\ ev[u] = g
      BY ZenonT(30), <1>1, <1>2, <1>3, <2>4 DEF Old
    <3>2. u # t
      BY ZenonT(30), <1>1, <2>4, <3>1 DEF e
    <3> QED
      BY ZenonT(30), <1>5, <3>1, <3>2
  <2> QED
    BY <1>1, <1>4, <2>2, <2>3, <2>4, ZenonT(30) DEF Old
<1>14. DownInv' /\ LoadInv'
  BY ZenonT(30), <1>1, <1>2 DEF DownInv, LoadInv
<1> QED
  BY ZenonT(30), <1>3, <1>10, <1>11, <1>12, <1>13, <1>14 DEF RecInv

LEMMA EvictRec ==
    ASSUME Before, NEW e \in Events, Evict(e)
    PROVE  RecInv'
<1>1. /\ phase = "up" /\ live' = live \ {e} /\ KeyOf[e] = None
      /\ acked' = acked \ UpTo(e) /\ durable' = durable \ UpTo(e)
      /\ UNCHANGED <<phase, tombs, pc, op, ev, recs, snapshot, wal_old, wal, synced, ckpt,
                     unvisited, temp>>
  BY ZenonT(30) DEF Evict, Forget, disk, log, tasks, checkpointer, Before, Undisturbed
<1>2. live \subseteq Events /\ live' \subseteq Events /\ e \in UpTo(e)
  BY ZenonT(30) DEF Before, TypeInv, MemoryType, UpTo
<1>3. /\ CallInv /\ CallInv' /\ NoTorn' /\ MemInv /\ CallsUp /\ Saves /\ Syncs /\ Old
  BY ZenonT(30) DEF Before, RecInv
<1>4. /\ OnDisk' = OnDisk /\ InSynced' = InSynced /\ OnSynced' = OnSynced /\ Dead' = Dead
      /\ Lines(snapshot)' = Lines(snapshot) /\ Inserted(wal)' = Inserted(wal)
      /\ Lines(temp)' = Lines(temp) /\ Pending' = Pending
  BY ZenonT(30), <1>1, DiskSame DEF Pending
<1>5. \A u \in Threads : Recording(u)' = Recording(u)
  BY ZenonT(30), <1>1 DEF Recording
<1>6. \A f \in Events : KeyOf[f] # None =>
         (Has(live, f) => Has(live', f)) /\ (HasNewer(live, f) => HasNewer(live', f))
  <2>1. \A h \in live : KeyOf[h] # None => Has(live', h)
    BY ZenonT(30), <1>1 DEF Has, AtLeast
  <2> QED
    BY <1>2, <2>1, HasMoves, ZenonT(30)
<1>7. MemInv'
  <2>1. Single(live')
    BY ZenonT(30), <1>1, <1>2, <1>3 DEF MemInv, Single, Versions
  <2> QED
    BY ZenonT(30), <1>1, <1>2, <1>3, <2>1 DEF MemInv
<1>8. CallsUp'
  <2>1. \A u \in Threads : pc[u] # "idle" => ev[u] \in Events
    BY ZenonT(30) DEF Before, TypeInv, ControlType
  <2>2. acked' \subseteq acked
    BY ZenonT(30), <1>1
  <2> QED
    BY ZenonT(30), <1>1, <1>3, <1>4, <1>5, <1>6, <2>1, <2>2 DEF CallsUp
<1>9. Saves' /\ Syncs'
  BY ZenonT(30), <1>1, <1>3, <1>4 DEF Saves, Syncs
<1>10. Old'
  <2>1. OnDisk \cup Lines(temp) \cup Dead \subseteq Events
    BY ZenonT(30) DEF OnDisk, Dead, Inserted, Killed, Lines
  <2>2. \A f \in OnDisk \cup Lines(temp) : KeyOf[f] # None => Has(live', f)
    BY <1>1, <1>3, <1>6, <2>1, ZenonT(30) DEF Old
  <2>3. \A g \in Dead : KeyOf[g] # None => HasNewer(live', g)
    BY <1>1, <1>3, <1>6, <2>1, ZenonT(30) DEF Old
  <2> QED
    BY <1>1, <1>3, <1>4, <1>5, <2>2, <2>3, ZenonT(30) DEF Old
<1>11. DownInv' /\ LoadInv'
  BY ZenonT(30), <1>1 DEF DownInv, LoadInv
<1> QED
  BY ZenonT(30), <1>3, <1>7, <1>8, <1>9, <1>10, <1>11 DEF RecInv

LEMMA CommitRec ==
    ASSUME Before, GroupCommit
    PROVE  RecInv'
<1>1. /\ UNCHANGED <<phase, live, tombs, pc, op, ev, recs, snapshot, wal_old, wal, ckpt,
                     unvisited, temp, acked>>
      /\ \/ UNCHANGED <<synced, durable>>
         \/ phase = "up" /\ synced' = Len(wal) /\ durable' = acked
  BY ZenonT(30) DEF GroupCommit, ClearFlag, Fsync, memory, log, tasks, checkpointer, history, Before,
         TypeInv, LogInv, AloneInStartup
<1>2. /\ CallInv' /\ NoTorn' /\ MemInv /\ CallsUp /\ Saves /\ Syncs /\ Old /\ DownInv /\ LoadInv
  BY ZenonT(30) DEF Before, RecInv
<1>3. /\ OnDisk' = OnDisk /\ Dead' = Dead
      /\ Lines(snapshot)' = Lines(snapshot) /\ Inserted(wal)' = Inserted(wal)
      /\ Lines(temp)' = Lines(temp) /\ Pending' = Pending
  BY ZenonT(30), <1>1 DEF OnDisk, Dead, Pending
<1>4. \A u \in Threads : Recording(u)' = Recording(u)
  BY ZenonT(30), <1>1 DEF Recording
<1>5. MemInv' /\ CallsUp' /\ Saves'
  BY ZenonT(30), <1>1, <1>2, <1>3, <1>4 DEF MemInv, CallsUp, Saves
<1>6. Old' /\ LoadInv'
  BY ZenonT(30), <1>1, <1>2, <1>3, <1>4 DEF Old, LoadInv
<1>7. DownInv'
  BY ZenonT(30), <1>1, <1>2, <1>3 DEF DownInv, Intact
<1>8. Syncs'
  <2>1. CASE UNCHANGED <<synced, durable>>
    <3>1. InSynced' = InSynced /\ OnSynced' = OnSynced
      BY ZenonT(30), <1>1, <2>1 DEF InSynced, OnSynced
    <3> QED
      BY ZenonT(30), <1>1, <1>2, <1>3, <2>1, <3>1 DEF Syncs
  <2>2. CASE phase = "up" /\ synced' = Len(wal) /\ durable' = acked
    <3>1. wal \in Seq(Record) /\ Len(wal) \in 0 .. Len(wal)
      BY DEF Before, TypeInv, LogInv, LogType
    <3>2. SubSeq(wal, 1, Len(wal)) = wal
      BY ZenonT(30), <3>1, PrefixParts
    <3>3. InSynced' = Inserted(wal) /\ OnSynced' = OnDisk
      BY ZenonT(30), <1>1, <2>2, <3>2 DEF InSynced, OnSynced, OnDisk
    <3>4. acked \subseteq live /\ acked \cap Pending = {}
      BY ZenonT(30), <1>2, <2>2 DEF MemInv, CallsUp
    <3> QED
      BY ZenonT(30), <1>1, <1>2, <1>3, <2>2, <3>3, <3>4 DEF Syncs, Saves
  <2> QED
    BY ZenonT(30), <1>1, <2>1, <2>2
<1> QED
  BY ZenonT(30), <1>2, <1>5, <1>6, <1>7, <1>8 DEF RecInv

LEMMA RotateRec ==
    ASSUME Before, Rotate
    PROVE  RecInv'
<1>1. /\ UNCHANGED <<phase, live, tombs, pc, op, ev, recs, snapshot, acked>>
      /\ wal_old' = wal /\ wal' = <<>> /\ synced' = 0 /\ durable' = acked
      /\ ckpt' = "scan" /\ unvisited' = Events /\ temp' = <<>>
      /\ phase = "loaded" \/ (phase = "up" /\ ckpt = "idle")
  BY ZenonT(30) DEF Rotate, FreshSynced, memory, tasks, Before, TypeInv, LogInv, AloneInStartup
<1>2. /\ CallInv' /\ NoTorn' /\ MemInv /\ CallsUp /\ Saves /\ Syncs /\ Old
  BY ZenonT(30) DEF Before, RecInv
<1>3. live \subseteq Events /\ acked \subseteq Events
  BY ZenonT(30) DEF Before, TypeInv, MemoryType
<1>4. Pending' = Pending /\ \A u \in Threads : Recording(u)' = Recording(u)
  BY ZenonT(30), <1>1 DEF Pending, Recording
<1>5. Lines(temp)' = {} /\ Inserted(wal)' = {}
  BY ZenonT(30), <1>1, EmptyParts
<1>6. MemInv' /\ CallsUp'
  BY ZenonT(30), <1>1, <1>2, <1>4 DEF MemInv, CallsUp
<1>7. DownInv' /\ LoadInv'
  BY ZenonT(30), <1>1, <1>3, <1>5 DEF DownInv, LoadInv
<1>8. ASSUME phase = "up" PROVE Saves' /\ Syncs' /\ Old'
  <2>1. wal_old = <<>>
    BY ZenonT(30), <1>1, <1>2, <1>8 DEF Saves
  <2>2. OnDisk' = OnDisk /\ Dead' = Dead /\ OnDisk \subseteq OnSynced'
    BY ZenonT(30), <1>1, <2>1, EmptyParts DEF OnDisk, Dead, OnSynced
  <2>3. Saves'
    BY ZenonT(30), <1>1, <1>2, <1>3, <1>4, <1>8, <2>2 DEF Saves
  <2>4. Syncs'
    <3>1. acked \subseteq live /\ acked \cap Pending = {} /\ live \subseteq Pending \cup OnDisk
      BY ZenonT(30), <1>2, <1>8 DEF MemInv, CallsUp, Saves
    <3> QED
      BY ZenonT(30), <1>1, <1>3, <2>2, <3>1 DEF Syncs
  <2>5. Old'
    BY ZenonT(30), <1>1, <1>2, <1>4, <1>5, <1>8, <2>2 DEF Old
  <2> QED
    BY ZenonT(30), <2>3, <2>4, <2>5
<1>9. ASSUME phase # "up" PROVE Saves' /\ Syncs' /\ Old'
  BY ZenonT(30), <1>1, <1>9 DEF Saves, Syncs, Old
<1> QED
  BY ZenonT(30), <1>2, <1>6, <1>7, <1>8, <1>9 DEF RecInv

LEMMA VisitRec ==
    ASSUME Before, NEW e \in Events, Visit(e)
    PROVE  RecInv'
<1>1. /\ UNCHANGED <<phase, live, tombs, pc, op, ev, recs, snapshot, wal_old, wal, synced,
                     ckpt, acked, durable>>
      /\ ckpt = "scan" /\ phase # "down" /\ unvisited' = unvisited \ {e}
      /\ temp' = IF e \in live THEN Append(temp, e) ELSE temp
  BY ZenonT(30) DEF Visit, memory, disk, log, tasks, history, Before, TypeInv, LogInv, AloneInStartup
<1>2. /\ CallInv' /\ NoTorn' /\ MemInv /\ CallsUp /\ Saves /\ Syncs /\ Old /\ LoadInv
  BY ZenonT(30) DEF Before, RecInv
<1>3. Lines(temp)' = Lines(temp) \cup ({e} \cap live)
  <2>1. temp \in Seq(Events)
    BY ZenonT(30) DEF Before, TypeInv, DiskType
  <2> QED
    BY ZenonT(30), <1>1, <2>1, LinesAppend
<1>4. /\ OnDisk' = OnDisk /\ InSynced' = InSynced /\ OnSynced' = OnSynced /\ Dead' = Dead
      /\ Lines(snapshot)' = Lines(snapshot) /\ Inserted(wal)' = Inserted(wal)
      /\ Pending' = Pending
  BY ZenonT(30), <1>1, DiskSame DEF Pending
<1>5. \A u \in Threads : Recording(u)' = Recording(u)
  BY ZenonT(30), <1>1 DEF Recording
<1>6. MemInv' /\ CallsUp'
  BY ZenonT(30), <1>1, <1>2, <1>4, <1>5 DEF MemInv, CallsUp
<1>7. Saves'
  BY ZenonT(30), <1>1, <1>2, <1>3, <1>4 DEF Saves
<1>8. Syncs'
  <2>1. durable \subseteq live
    BY ZenonT(30), <1>1, <1>2 DEF MemInv, Before, TypeInv, MemoryType
  <2> QED
    BY ZenonT(30), <1>1, <1>2, <1>3, <1>4, <2>1 DEF Syncs
<1>9. Old'
  <2>1. \A f \in live : Has(live, f)
    BY ZenonT(30) DEF Has, AtLeast
  <2> QED
    BY ZenonT(30), <1>1, <1>2, <1>3, <1>4, <1>5, <2>1 DEF Old
<1>10. DownInv' /\ LoadInv'
  BY ZenonT(30), <1>1, <1>2, <1>3 DEF DownInv, LoadInv
<1> QED
  BY ZenonT(30), <1>2, <1>6, <1>7, <1>8, <1>9, <1>10 DEF RecInv

LEMMA RenameRec ==
    ASSUME Before, RenameSnapshot
    PROVE  RecInv'
<1>1. /\ UNCHANGED <<phase, live, tombs, pc, op, ev, recs, wal_old, wal, synced,
                     unvisited, temp, acked, durable>>
      /\ ckpt = "scan" /\ ckpt' = "remove" /\ phase # "down" /\ unvisited = {}
      /\ snapshot' = temp
  BY ZenonT(30) DEF RenameSnapshot, memory, log, tasks, history, Before, TypeInv, LogInv, AloneInStartup
<1>2. /\ CallInv' /\ NoTorn' /\ MemInv /\ CallsUp /\ Saves /\ Syncs /\ Old /\ LoadInv
  BY ZenonT(30) DEF Before, RecInv
<1>3. /\ Lines(snapshot)' = Lines(temp) /\ Lines(temp)' = Lines(temp)
      /\ Inserted(wal)' = Inserted(wal) /\ Pending' = Pending /\ Dead' = Dead
      /\ InSynced' = InSynced
  BY ZenonT(30), <1>1 DEF Dead, InSynced, Pending
<1>4. /\ OnDisk' \subseteq OnDisk \cup Lines(temp)
      /\ Lines(temp) \cup Inserted(wal) \subseteq OnDisk'
      /\ Lines(temp) \cup InSynced \subseteq OnSynced'
  BY ZenonT(30), <1>1, <1>3 DEF OnDisk, OnSynced
<1>5. \A u \in Threads : Recording(u)' = Recording(u)
  BY ZenonT(30), <1>1 DEF Recording
<1>6. MemInv' /\ CallsUp'
  BY ZenonT(30), <1>1, <1>2, <1>3, <1>5 DEF MemInv, CallsUp
<1>7. Saves'
  BY ZenonT(30), <1>1, <1>2, <1>3, <1>4 DEF Saves
<1>8. Syncs'
  BY ZenonT(30), <1>1, <1>2, <1>3, <1>4 DEF Syncs
<1>9. Old'
  BY ZenonT(30), <1>1, <1>2, <1>3, <1>4, <1>5 DEF Old
<1>10. DownInv' /\ LoadInv'
  BY ZenonT(30), <1>1, <1>2, <1>3 DEF DownInv, LoadInv
<1> QED
  BY ZenonT(30), <1>2, <1>6, <1>7, <1>8, <1>9, <1>10 DEF RecInv

LEMMA RemoveOldRec ==
    ASSUME Before, RemoveOld
    PROVE  RecInv'
<1>1. /\ UNCHANGED <<live, tombs, pc, op, ev, recs, snapshot, wal, synced, acked, durable>>
      /\ ckpt = "remove" /\ ckpt' = "idle" /\ phase # "down" /\ phase' = "up"
      /\ wal_old' = <<>> /\ temp' = <<>>
  BY ZenonT(30) DEF RemoveOld, CheckpointOver, memory, log, tasks, history, Before, TypeInv, LogInv,
         AloneInStartup
<1>2. /\ CallInv' /\ NoTorn' /\ MemInv /\ CallsUp /\ Saves /\ Syncs /\ Old /\ LoadInv
      /\ durable \subseteq acked
  BY ZenonT(30) DEF Before, RecInv, TypeInv, MemoryType
<1>3. /\ Lines(snapshot)' = Lines(snapshot) /\ Lines(temp)' = {}
      /\ Inserted(wal)' = Inserted(wal) /\ Pending' = Pending
      /\ InSynced' = InSynced
      /\ OnDisk' = Lines(snapshot) \cup Inserted(wal)
      /\ OnSynced' = Lines(snapshot) \cup InSynced
      /\ Dead' = Killed(wal)
  BY ZenonT(30), <1>1, EmptyParts DEF Dead, InSynced, Pending, OnDisk, OnSynced
<1>4. \A u \in Threads : Recording(u)' = Recording(u)
  BY ZenonT(30), <1>1 DEF Recording
<1>5. MemInv'
  BY ZenonT(30), <1>1, <1>2 DEF MemInv
<1>6. ASSUME phase = "up" PROVE CallsUp' /\ Saves' /\ Syncs' /\ Old'
  <2>1. OnDisk' \subseteq OnDisk /\ Dead' \subseteq Dead
    BY ZenonT(30), <1>3 DEF OnDisk, Dead
  <2>2. CallsUp'
    BY ZenonT(30), <1>1, <1>2, <1>3, <1>4, <1>6 DEF CallsUp
  <2>3. Saves' /\ Syncs'
    BY ZenonT(30), <1>1, <1>2, <1>3, <1>6 DEF Saves, Syncs
  <2>4. Old'
    BY ZenonT(30), <1>1, <1>2, <1>3, <1>4, <1>6, <2>1 DEF Old
  <2> QED
    BY ZenonT(30), <2>2, <2>3, <2>4
<1>7. ASSUME phase = "loaded" PROVE CallsUp' /\ Saves' /\ Syncs' /\ Old'
  <2>1. wal = <<>> /\ Lines(snapshot) = live /\ acked \subseteq live
    BY ZenonT(30), <1>1, <1>2, <1>7 DEF Before, TypeInv, LogInv, AloneInStartup, LoadInv, MemInv
  <2>2. OnDisk' = live /\ Dead' = {}
    BY ZenonT(30), <1>3, <2>1, EmptyParts
  <2>3. Pending = {} /\ \A t \in Threads : pc[t] = "idle" /\ ~Recording(t)
    BY ZenonT(30), <1>7, NoCalls DEF Before, RecInv
  <2>4. CallsUp'
    BY ZenonT(30), <1>1, <1>3, <1>4, <2>3 DEF CallsUp
  <2>5. Saves' /\ Syncs'
    BY ZenonT(30), <1>1, <1>2, <1>3, <2>1, <2>2 DEF Saves, Syncs
  <2>6. Old'
    <3>1. \A f \in live : Has(live, f)
      BY ZenonT(30) DEF Has, AtLeast
    <3> QED
      BY ZenonT(30), <1>1, <1>3, <2>2, <3>1 DEF Old
  <2> QED
    BY ZenonT(30), <2>4, <2>5, <2>6
<1>8. phase \in {"up", "loaded"}
  BY ZenonT(30), <1>1 DEF Before, TypeInv, LogInv, AloneInStartup
<1>9. DownInv' /\ LoadInv'
  BY ZenonT(30), <1>1 DEF DownInv, LoadInv
<1> QED
  BY ZenonT(30), <1>2, <1>5, <1>6, <1>7, <1>8, <1>9 DEF RecInv

LEMMA CrashRec ==
    ASSUME Before, Crash \/ PowerLoss
    PROVE  RecInv'
<1>1. /\ phase = "up" /\ phase' = "down" /\ temp' = <<>> /\ ckpt' = "idle"
      /\ UNCHANGED <<snapshot, wal_old>>
  BY ZenonT(30) DEF Crash, PowerLoss, Die, Before, Undisturbed
<1>2. CallInv' /\ NoTorn' /\ Syncs /\ Intact /\ durable \subseteq acked
  BY ZenonT(30), <1>1, UpIntact DEF Before, RecInv, TypeInv, MemoryType
<1>3. MemInv' /\ CallsUp' /\ Saves' /\ Old' /\ LoadInv'
  BY ZenonT(30), <1>1 DEF MemInv, CallsUp, Saves, Old, LoadInv
<1>4. CASE Crash
  <2>1. UNCHANGED <<wal, synced, acked, durable>>
    BY ZenonT(30), <1>4 DEF Crash, log, history
  <2>2. OnDisk' = OnDisk /\ OnSynced' = OnSynced /\ Dead' = Dead
    BY ZenonT(30), <1>1, <2>1, DiskSame
  <2>3. Intact'
    BY ZenonT(30), <1>2, <2>1, <2>2 DEF Intact
  <2>4. Syncs'
    BY ZenonT(30), <1>1, <1>2, <2>1, <2>2 DEF Syncs
  <2> QED
    BY ZenonT(30), <1>1, <1>2, <1>3, <2>3, <2>4 DEF RecInv, DownInv
<1>5. CASE PowerLoss
  <2>1. PICK n \in synced .. Len(wal) : wal' = SubSeq(wal, 1, n) /\ synced' = n
    BY ZenonT(30), <1>5 DEF PowerLoss, Before, Undisturbed
  <2>2. acked' = durable /\ durable' = durable
    BY ZenonT(30), <1>5 DEF PowerLoss
  <2>3. wal \in Seq(Record) /\ n \in 0 .. Len(wal) /\ synced \in 0 .. n
    BY DEF Before, TypeInv, LogInv, LogType, DiskType
  <2>4. /\ Inserted(wal)' \subseteq Inserted(wal) /\ Killed(wal)' \subseteq Killed(wal)
        /\ InSynced \subseteq Inserted(wal)' /\ InSynced' = Inserted(wal)'
    BY ZenonT(30), <2>1, <2>3, PrefixParts DEF InSynced
  <2>5. OnDisk' \subseteq OnDisk /\ Dead' \subseteq Dead /\ OnSynced \subseteq OnDisk' /\ OnSynced' = OnDisk'
    BY ZenonT(30), <1>1, <2>4 DEF OnDisk, OnSynced, Dead
  <2>6. durable \subseteq OnSynced
    BY ZenonT(30), <1>1, <1>2 DEF Syncs
  <2>7. Intact'
    BY ZenonT(30), <1>2, <2>2, <2>5, <2>6 DEF Intact
  <2>8. Syncs'
    BY ZenonT(30), <1>1, <2>2, <2>5, <2>6 DEF Syncs
  <2> QED
    BY ZenonT(30), <1>1, <1>2, <1>3, <2>7, <2>8 DEF RecInv, DownInv
<1> QED
  BY ZenonT(30), <1>4, <1>5

LEMMA LoadRec ==
    ASSUME Before, Load
    PROVE  RecInv'
<1> DEFINE m == Restore(snapshot, wal_old, wal)
<1>1. /\ phase = "down" /\ phase' = "loaded" /\ live' = m.live /\ tombs' = m.tombs
      /\ acked' = acked \ UNION {UpTo(e) : e \in m.evicted}
      /\ UNCHANGED <<snapshot, wal_old, wal, synced, ckpt, temp>>
  BY ZenonT(30) DEF Load, Forget, disk, log, checkpointer
<1>2. CallInv' /\ NoTorn' /\ NoTorn /\ Intact /\ temp = <<>> /\ ckpt = "idle"
  BY ZenonT(30), <1>1 DEF Before, RecInv, DownInv, TypeInv, LogInv, AloneInStartup
<1>3. /\ snapshot \in Seq(Events) /\ wal_old \in Seq(Record) /\ wal \in Seq(Record)
      /\ acked \subseteq Events
  BY ZenonT(30) DEF Before, TypeInv, DiskType, LogInv, LogType, MemoryType
<1>4. /\ m.live \cup m.evicted \subseteq OnDisk
      /\ m.live \cap m.tombs = {} /\ Single(m.live)
  BY ZenonT(30), <1>2, <1>3, RestoreSafe DEF NoTorn, OnDisk
<1>5. ASSUME NEW e \in acked' PROVE e \in m.live
  <2>1. e \in acked /\ e \in Events
    BY ZenonT(30), <1>1, <1>3
  <2>2. e \in OnDisk /\ \A g \in Dead : ~AtLeast(g, e)
    BY ZenonT(30), <1>2, <2>1 DEF Intact
  <2>3. Covers(m, e)
    BY ZenonT(30), <1>2, <1>3, <2>2, RestoreCovers DEF NoTorn, OnDisk, Dead
  <2> HIDE DEF m
  <2>4. PICK h \in m.live \cup m.evicted : h = e \/ (h \in Versions(Events, e) /\ Wins(h, e))
    BY ZenonT(30), <2>3 DEF Covers
  <2>5. h \in OnDisk /\ h \in Events
    BY ZenonT(30), <1>4, <2>4 DEF OnDisk, Lines, Inserted
  <2>6. h = e
    BY ZenonT(30), <1>2, <2>1, <2>4, <2>5, WinsOrder DEF Intact
  <2>7. e \notin m.evicted
    <3>1. e \in UpTo(e)
      BY ZenonT(30), <2>1 DEF UpTo
    <3> QED
      BY ZenonT(30), <1>1, <1>5, <3>1
  <2> QED
    BY ZenonT(30), <2>4, <2>6, <2>7
<1> HIDE DEF m
<1>6. OnDisk' = OnDisk
  BY ZenonT(30), <1>1, DiskSame
<1>7. MemInv'
  BY ZenonT(30), <1>1, <1>4, <1>5 DEF MemInv
<1>8. CallsUp' /\ Saves' /\ Syncs' /\ Old' /\ DownInv'
  BY ZenonT(30), <1>1 DEF CallsUp, Saves, Syncs, Old, DownInv
<1>9. LoadInv'
  BY ZenonT(30), <1>1, <1>2, <1>4, <1>6 DEF LoadInv
<1> QED
  BY ZenonT(30), <1>2, <1>7, <1>8, <1>9 DEF RecInv

LEMMA DropRec ==
    ASSUME Before, DropOld
    PROVE  RecInv'
<1>1. /\ phase = "loaded" /\ ckpt = "idle" /\ wal_old' = <<>>
      /\ UNCHANGED <<live, tombs, pc, op, ev, recs, snapshot, wal, synced, temp, acked,
                     durable>>
  BY ZenonT(30) DEF DropOld, memory, log, tasks, history
<1>2. /\ CallInv' /\ NoTorn' /\ NoTorn /\ MemInv /\ live \subseteq OnDisk /\ temp = <<>>
      /\ durable \subseteq acked
  BY ZenonT(30), <1>1 DEF Before, RecInv, LoadInv, TypeInv, MemoryType
<1>3. snapshot \in Seq(Events) /\ wal_old \in Seq(Record) /\ wal \in Seq(Record)
  BY ZenonT(30) DEF Before, TypeInv, DiskType, LogInv, LogType
<1>4. Readable(wal_old) = wal_old /\ Readable(wal) = wal
  BY ZenonT(30), <1>2, <1>3, ReadableSound DEF NoTorn
<1>5. CASE snapshot \o Readable(wal_old) \o Readable(wal) = <<>>
  <2>1. snapshot = <<>> /\ wal_old = <<>> /\ wal = <<>>
    BY <1>3, <1>4, <1>5
  <2>2. phase' = "up" /\ ckpt' = "idle"
    BY ZenonT(30), <1>1, <1>5 DEF DropOld
  <2>3. OnDisk = {} /\ OnDisk' = {} /\ Dead' = {} /\ Lines(temp)' = {}
    BY ZenonT(30), <1>1, <1>2, <2>1, EmptyParts DEF OnDisk, Dead
  <2>4. live = {} /\ acked = {} /\ durable = {}
    BY ZenonT(30), <1>1, <1>2, <2>3 DEF MemInv
  <2>5. /\ Pending' = {}
        /\ \A t \in Threads : pc'[t] = "idle" /\ ~Recording(t)'
    <3>1. Pending = {} /\ \A t \in Threads : pc[t] = "idle" /\ ~Recording(t)
      BY ZenonT(30), <1>1, NoCalls DEF Before, RecInv
    <3> QED
      BY ZenonT(30), <1>1, <3>1 DEF Pending, Recording
  <2>6. MemInv'
    BY ZenonT(30), <1>1, <1>2 DEF MemInv
  <2>7. CallsUp' /\ Saves' /\ Syncs'
    BY ZenonT(30), <1>1, <2>2, <2>4, <2>5 DEF CallsUp, Saves, Syncs
  <2>8. Old' /\ DownInv' /\ LoadInv'
    BY ZenonT(30), <2>2, <2>3 DEF Old, DownInv, LoadInv
  <2> QED
    BY ZenonT(30), <1>2, <2>6, <2>7, <2>8 DEF RecInv
<1>6. CASE snapshot \o Readable(wal_old) \o Readable(wal) # <<>>
  <2>1. phase' = "loaded" /\ ckpt' = "rotate"
    BY ZenonT(30), <1>1, <1>6 DEF DropOld
  <2>2. MemInv'
    BY ZenonT(30), <1>1, <1>2 DEF MemInv
  <2>3. CallsUp' /\ Saves' /\ Syncs' /\ Old' /\ DownInv' /\ LoadInv'
    BY ZenonT(30), <2>1 DEF CallsUp, Saves, Syncs, Old, DownInv, LoadInv
  <2> QED
    BY ZenonT(30), <1>2, <2>2, <2>3 DEF RecInv
<1> QED
  BY ZenonT(30), <1>5, <1>6

\* A step that changes none of the variables above.
LEMMA StutterRec ==
    ASSUME Before, UNCHANGED <<phase, live, tombs, pc, op, ev, recs, snapshot, wal_old, wal,
                               synced, ckpt, unvisited, temp, acked, durable>>
    PROVE  RecInv'
<1>1. /\ CallInv' /\ NoTorn' /\ MemInv /\ CallsUp /\ Saves /\ Syncs /\ Old /\ DownInv
      /\ LoadInv
  BY ZenonT(30) DEF Before, RecInv
<1>2. /\ OnDisk' = OnDisk /\ InSynced' = InSynced /\ OnSynced' = OnSynced /\ Dead' = Dead
      /\ Lines(snapshot)' = Lines(snapshot) /\ Inserted(wal)' = Inserted(wal)
      /\ Pending' = Pending /\ Lines(temp)' = Lines(temp)
      /\ \A u \in Threads : Recording(u)' = Recording(u)
  BY ZenonT(30), DiskSame DEF Pending, Recording
<1>3. MemInv' /\ CallsUp' /\ Saves'
  BY ZenonT(30), <1>1, <1>2 DEF MemInv, CallsUp, Saves
<1>4. Syncs' /\ Old'
  BY ZenonT(30), <1>1, <1>2 DEF Syncs, Old
<1>5. DownInv' /\ LoadInv'
  BY ZenonT(30), <1>1, <1>2 DEF DownInv, Intact, LoadInv
<1> QED
  BY ZenonT(30), <1>1, <1>3, <1>4, <1>5 DEF RecInv

LEMMA RecInvStep == Undisturbed /\ TypeInv /\ RecInv /\ [Next]_vars => RecInv'
<1> SUFFICES ASSUME Undisturbed, TypeInv, RecInv, [Next]_vars PROVE RecInv'
  BY ZenonT(30)
<1>1. Before
  BY ZenonT(30), TypeInvStep, CallStep, TornStep DEF Before, RecInv
<1>2. ASSUME NEW t \in Threads, NEW e \in Events, Publish(t, e) PROVE RecInv'
  <2>1. CASE Accepts(live, tombs, e)
    BY ZenonT(30), <1>1, <1>2, <2>1, PublishRec
  <2>2. CASE ~Accepts(live, tombs, e)
    BY ZenonT(30), <1>1, <1>2, <2>2, StutterRec DEF Publish, tasks, history, disk, log, checkpointer
  <2> QED
    BY ZenonT(30), <2>1, <2>2
<1>3. ASSUME NEW t \in Threads, NEW e \in Events, Delete(t, e) PROVE RecInv'
  BY ZenonT(30), <1>1, <1>3, DeleteRec
<1>4. ASSUME NEW t \in Threads, WriteRecord(t) PROVE RecInv'
  BY ZenonT(30), <1>1, <1>4, WriteRec
<1>5. ASSUME NEW t \in Threads, MarkDirty(t) PROVE RecInv'
  BY ZenonT(30), <1>1, <1>5, MarkRec
<1>6. ASSUME NEW t \in Threads, DeleteById(t) PROVE RecInv'
  BY ZenonT(30), <1>1, <1>6, RemoveRec
<1>7. ASSUME NEW e \in Events, Evict(e) PROVE RecInv'
  BY ZenonT(30), <1>1, <1>7, EvictRec
<1>8. CASE GroupCommit
  BY ZenonT(30), <1>1, <1>8, CommitRec
<1>9. CASE Checkpoint
  <2>1. ~SnapshotFails
    BY ZenonT(30) DEF SnapshotFails, Undisturbed
  <2> QED
    BY ZenonT(30), <1>1, <1>9, <2>1, RotateRec, RenameRec, RemoveOldRec, VisitRec DEF Checkpoint
<1>10. CASE Crash \/ PowerLoss
  BY ZenonT(30), <1>1, <1>10, CrashRec
<1>11. CASE Load \/ DropOld
  BY ZenonT(30), <1>1, <1>11, LoadRec, DropRec
<1>12. CASE UNCHANGED vars
  BY ZenonT(30), <1>1, <1>12, StutterRec DEF vars, memory, tasks, history, disk, log, checkpointer
<1> QED
  BY ZenonT(30), <1>2, <1>3, <1>4, <1>5, <1>6, <1>7, <1>8, <1>9, <1>10, <1>11, <1>12 DEF Next

LEMMA Recovers == TypeInv /\ RecInv => AckedRecoverable /\ DurableRecoverable
<1> SUFFICES ASSUME TypeInv, RecInv, phase # "loaded"
             PROVE  /\ \A e \in acked : Covers(restored, e)
                    /\ \A n \in synced .. Len(wal) : \A e \in durable :
                         Covers(Restore(snapshot, wal_old, SubSeq(wal, 1, n)), e)
  BY ZenonT(30) DEF AckedRecoverable, DurableRecoverable
<1>1. Intact /\ NoTorn /\ durable \subseteq acked /\ durable \subseteq OnSynced
  <2>1. phase \in {"down", "up"}
    BY ZenonT(30) DEF TypeInv, LogInv, AloneInStartup
  <2> QED
    BY ZenonT(30), <2>1, UpIntact DEF RecInv, DownInv, TypeInv, MemoryType, Syncs
<1>2. /\ snapshot \in Seq(Events) /\ wal_old \in Seq(Record) /\ wal \in Seq(Record)
      /\ synced \in 0 .. Len(wal) /\ restored = Restore(snapshot, wal_old, wal)
  BY ZenonT(30) DEF TypeInv, DiskType, LogInv, LogType, RestoredIs
<1>3. \A e \in acked : e \in OnDisk /\ \A g \in Dead : ~AtLeast(g, e)
  BY ZenonT(30), <1>1 DEF Intact
<1>4. ASSUME NEW e \in acked PROVE Covers(restored, e)
  BY ZenonT(30), <1>1, <1>2, <1>3, RestoreCovers DEF NoTorn, OnDisk, Dead
<1>5. ASSUME NEW n \in synced .. Len(wal), NEW e \in durable
      PROVE  Covers(Restore(snapshot, wal_old, SubSeq(wal, 1, n)), e)
  <2> DEFINE p == SubSeq(wal, 1, n)
  <2>1. n \in 0 .. Len(wal) /\ synced \in 0 .. n
    BY <1>2
  <2>2. /\ p \in Seq(Record) /\ ~HasTorn(p) /\ InSynced \subseteq Inserted(p)
        /\ Killed(p) \subseteq Killed(wal)
    BY ZenonT(30), <1>1, <1>2, <2>1, PrefixParts DEF NoTorn, InSynced
  <2> HIDE DEF p
  <2>3. e \in Lines(snapshot) \cup Inserted(wal_old) \cup Inserted(p)
    BY ZenonT(30), <1>1, <2>2 DEF OnSynced
  <2>4. \A g \in Killed(wal_old) \cup Killed(p) : ~AtLeast(g, e)
    BY ZenonT(30), <1>1, <1>3, <2>2 DEF Dead
  <2>5. Covers(Restore(snapshot, wal_old, p), e)
    BY ZenonT(30), <1>1, <1>2, <2>2, <2>3, <2>4, RestoreCovers DEF NoTorn
  <2> QED
    BY ZenonT(30), <2>5 DEF p
<1> QED
  BY ZenonT(30), <1>4, <1>5

\* An event that was answered as stored is recovered by a restart, whenever the process
\* died (the log, the rotated segment and the snapshot always cover the full state).
THEOREM AckedRecovered == ASSUME Undisturbed PROVE Spec => []AckedRecoverable
<1>1. Init => TypeInv /\ RecInv
  BY ZenonT(30), InitTypeInv, InitRecInv
<1>2. TypeInv /\ RecInv /\ [Next]_vars => TypeInv' /\ RecInv'
  BY ZenonT(30), TypeInvStep, RecInvStep
<1> QED
  BY <1>1, <1>2, Recovers, PTL DEF Spec

\* What a group commit or a rotation fsynced is recovered after a power loss, however
\* much of the rest of the log it takes.
THEOREM DurableRecovered == ASSUME Undisturbed PROVE Spec => []DurableRecoverable
<1>1. Init => TypeInv /\ RecInv
  BY ZenonT(30), InitTypeInv, InitRecInv
<1>2. TypeInv /\ RecInv /\ [Next]_vars => TypeInv' /\ RecInv'
  BY ZenonT(30), TypeInvStep, RecInvStep
<1> QED
  BY <1>1, <1>2, Recovers, PTL DEF Spec

-----------------------------------------------------------------------------
(* The files implement StorePromise. *)

\* Startup evicts nothing.  (A replay that does may evict an old version before it reads
\* the newer one, and the old version then counts as saved.)
Unlimited == LoadThreshold = 0

\* A thread without a call is about no event.
Quiet == \A t \in Threads : pc[t] = "idle" => ev[t] = None

LEMMA QuietStep == TypeInv /\ Quiet /\ [Next]_vars => Quiet'
<1> SUFFICES ASSUME TypeInv, Quiet, [Next]_vars PROVE Quiet'
  BY ZenonT(30)
<1>1. /\ pc \in [Threads -> {"idle", "append", "mark", "remove"}]
      /\ ev \in [Threads -> Events \cup {None}]
  BY ZenonT(30) DEF TypeInv, LogInv, LogType, ControlType
<1>2. CASE UNCHANGED <<pc, ev>>
  BY ZenonT(30), <1>2 DEF Quiet
<1>3. ASSUME NEW t \in Threads, NEW e, pc' = [pc EXCEPT ![t] = "append"],
             ev' = [ev EXCEPT ![t] = e]
      PROVE  Quiet'
  BY ZenonT(30), <1>1, <1>3 DEF Quiet
<1>4. ASSUME NEW t \in Threads, NEW p, p # "idle", pc' = [pc EXCEPT ![t] = p], ev' = ev
      PROVE  Quiet'
  BY ZenonT(30), <1>1, <1>4 DEF Quiet
<1>5. ASSUME NEW t \in Threads, Finish(t) PROVE Quiet'
  BY ZenonT(30), <1>1, <1>5 DEF Quiet, Finish
<1>6. ASSUME NEW t \in Threads, NEW e \in Events, Publish(t, e) \/ Delete(t, e) PROVE Quiet'
  BY ZenonT(30), <1>2, <1>3, <1>6 DEF Publish, Delete, Start, tasks
<1>7. ASSUME NEW t \in Threads, WriteRecord(t) \/ MarkDirty(t) \/ DeleteById(t) PROVE Quiet'
  BY ZenonT(30), <1>4, <1>5, <1>7 DEF WriteRecord, MarkDirty, DeleteById
<1>8. CASE Crash \/ PowerLoss
  BY ZenonT(30), <1>8 DEF Crash, PowerLoss, Die, Quiet
<1>9. CASE (\E e \in Events : Evict(e) \/ Visit(e)) \/ GroupCommit \/ Rotate \/ RenameSnapshot
  BY ZenonT(30), <1>2, <1>9 DEF Evict, Visit, GroupCommit, Rotate, RenameSnapshot, tasks
<1>10. CASE SnapshotFails \/ RemoveOld \/ Load \/ DropOld \/ UNCHANGED vars
  BY ZenonT(30), <1>2, <1>10 DEF SnapshotFails, RemoveOld, Load, DropOld, tasks, vars
<1> QED
  BY ZenonT(30), <1>6, <1>7, <1>8, <1>9, <1>10 DEF Next, Checkpoint

\* A start begins with nothing deleted beside a checkpoint.
Unraced == phase = "down" => raced = {}

LEMMA UnracedStep == TypeInv /\ Unraced /\ [Next]_vars => Unraced'
<1> SUFFICES ASSUME TypeInv, Unraced, [Next]_vars PROVE Unraced'
  BY ZenonT(30)
<1>1. CASE phase' # "down"
  BY ZenonT(30), <1>1 DEF Unraced
<1>2. CASE UNCHANGED <<phase, raced>>
  BY ZenonT(30), <1>2 DEF Unraced
<1>3. ASSUME NEW t \in Threads, NEW e \in Events, Publish(t, e) \/ Delete(t, e) PROVE Unraced'
  BY ZenonT(30), <1>2, <1>3 DEF Publish, Delete, history
<1>4. ASSUME NEW t \in Threads, WriteRecord(t) \/ MarkDirty(t) \/ DeleteById(t) PROVE Unraced'
  BY ZenonT(30), <1>2, <1>4 DEF WriteRecord, MarkDirty, DeleteById, history, Forget
<1>5. CASE (\E e \in Events : Evict(e) \/ Visit(e)) \/ GroupCommit \/ RenameSnapshot
  BY ZenonT(30), <1>2, <1>5
     DEF Evict, Visit, GroupCommit, RenameSnapshot, history, Forget, ClearFlag, Fsync
<1>6. CASE Rotate
  BY ZenonT(30), <1>1, <1>6 DEF Rotate, TypeInv, LogInv, AloneInStartup
<1>7. CASE SnapshotFails \/ RemoveOld \/ Load \/ DropOld
  BY ZenonT(30), <1>1, <1>7 DEF SnapshotFails, RemoveOld, CheckpointOver, Load, DropOld
<1>8. CASE Crash \/ PowerLoss
  BY ZenonT(30), <1>8 DEF Crash, PowerLoss, Die, Unraced
<1>9. CASE UNCHANGED vars
  BY ZenonT(30), <1>2, <1>9 DEF vars, history
<1> QED
  BY ZenonT(30), <1>3, <1>4, <1>5, <1>6, <1>7, <1>8, <1>9 DEF Next, Checkpoint

\* A replay without a limit evicts nothing.
LEMMA NothingEvicted ==
    ASSUME Unlimited, NEW lines \in Seq(Events), NEW old \in Seq(Record),
           NEW new \in Seq(Record)
    PROVE  Restore(lines, old, new).evicted = {}
<1> DEFINE P == {m \in Mem : m.evicted = {}}
           all == Entries(lines, old, new)
<1>1. Nothing \in P
  BY ZenonT(30), NothingType DEF Nothing
<1>2. ASSUME NEW m \in P, NEW r \in Sound PROVE ReplayOp(m, r) \in P
  <2>1. ReplayOp(m, r) \in Mem
    BY ZenonT(30), ReplayOpType
  <2>2. ReplayOp(m, r).evicted = m.evicted
    <3>1. r.op \in {"Insert", "Delete", "Tombstone"}
      BY ZenonT(30) DEF Sound, Record, Ops
    <3>2. ~(LoadThreshold > 0)
      BY DEF Unlimited
    <3>3. ASSUME NEW e PROVE Ingest(m, e).evicted = m.evicted
      BY ZenonT(30), <3>2 DEF Ingest, Mem
    <3> QED
      BY ZenonT(30), <3>1, <3>3 DEF ReplayOp, Mem
  <2> QED
    BY ZenonT(30), <2>1, <2>2
<1>3. all \in Seq(Sound) /\ Restore(lines, old, new) = Replay(all)
  BY ZenonT(30), EntriesSound DEF Restore, Entries
<1> HIDE DEF all
<1>4. Replay(all) \in P
  <2> HIDE DEF P
  <2> QED
    BY ZenonT(30), <1>1, <1>2, <1>3, ReplayInv
<1> QED
  BY ZenonT(30), <1>3, <1>4

LEMMA InFlightNext ==
    (\A x : x \in InFlight <=> x # None /\ \E t \in Threads : Concerns(t, x))'
BY InFlightIs, PTL

\* A step of one call, which is about nothing else afterwards.
LEMMA InFlightShrinks ==
    ASSUME NEW t \in Threads, \A u \in Threads \ {t} : ev'[u] = ev[u] /\ recs'[u] = recs[u],
           ev'[t] \in {ev[t], None},
           \A i \in DOMAIN recs'[t] : \E j \in DOMAIN recs[t] : recs'[t][i] = recs[t][j]
    PROVE  InFlight' \subseteq InFlight
<1> SUFFICES ASSUME NEW x \in InFlight' PROVE x \in InFlight
  BY ZenonT(30)
<1>1. x # None /\ \E u \in Threads : Concerns(u, x)'
  BY ZenonT(30), InFlightNext
<1>2. PICK u \in Threads : Concerns(u, x)'
  BY ZenonT(30), <1>1
<1>3. Concerns(u, x)
  <2>1. CASE u = t
    BY ZenonT(30), <1>1, <1>2, <2>1 DEF Concerns
  <2>2. CASE u # t
    BY ZenonT(30), <1>2, <2>2 DEF Concerns
  <2> QED
    BY ZenonT(30), <2>1, <2>2
<1> QED
  BY ZenonT(30), <1>1, <1>3, InFlightIs

\* An event in memory that no call is about is removed by no record of the log.
LEMMA NoneKills ==
    ASSUME TypeInv, RecInv, phase = "up", NEW e \in live, e \notin InFlight
    PROVE  \A g \in Dead : ~AtLeast(g, e)
<1> SUFFICES ASSUME NEW g \in Dead, AtLeast(g, e) PROVE FALSE
  BY ZenonT(30)
<1>1. /\ Single(live) /\ live \cap tombs = {} /\ live \subseteq Events /\ Old /\ CallInv
      /\ e \in Events
  BY ZenonT(30) DEF RecInv, MemInv, TypeInv, MemoryType
<1>2. g \in Events
  BY ZenonT(30) DEF Dead, Killed
<1>3. CASE KeyOf[g] = None
  <2>1. g = e
    BY ZenonT(30), <1>1, <1>2, <1>3, NewerOrder DEF AtLeast
  <2>2. g \in tombs \/ \E t \in Threads : Recording(t) /\ ev[t] = g
    BY ZenonT(30), <1>1, <1>3 DEF Old
  <2> QED
    BY ZenonT(30), <1>1, <2>1, <2>2, InFlightHas
<1>4. CASE KeyOf[g] # None
  <2>1. PICK h \in live : Newer(h, g)
    BY ZenonT(30), <1>1, <1>4 DEF Old, HasNewer
  <2>2. Newer(h, e) /\ h \in Events
    BY ZenonT(30), <1>1, <1>2, <2>1, NewerOrder
  <2>3. h \in Versions(live, e)
    BY ZenonT(30), <2>1, <2>2 DEF Newer, Versions
  <2> QED
    BY ZenonT(30), <1>1, <2>3 DEF Single
<1> QED
  BY ZenonT(30), <1>3, <1>4

\* Files made of the log and of the snapshot in the making.
Parts(lines, old, new) ==
    /\ lines \in Seq(Events) /\ old \in Seq(Record) /\ new \in Seq(Record)
    /\ ~HasTorn(old) /\ ~HasTorn(new)
    /\ Killed(old) \cup Killed(new) \subseteq Dead
    /\ Lines(lines) \cup Inserted(old) \cup Inserted(new) \subseteq OnDisk \cup Lines(temp)

\* Such files bring back every event of memory that they insert and no call is about.
LEMMA PartsKeep ==
    ASSUME TypeInv, RecInv, phase = "up", NEW lines, NEW old, NEW new, Parts(lines, old, new),
           NEW e \in live, e \notin InFlight,
           e \in Lines(lines) \cup Inserted(old) \cup Inserted(new)
    PROVE  LET m == Restore(lines, old, new) IN e \in m.live \cup m.evicted
<1> DEFINE m == Restore(lines, old, new)
           I == Lines(lines) \cup Inserted(old) \cup Inserted(new)
<1>1. /\ lines \in Seq(Events) /\ old \in Seq(Record) /\ new \in Seq(Record)
      /\ ~HasTorn(old) /\ ~HasTorn(new) /\ Killed(old) \cup Killed(new) \subseteq Dead
      /\ I \subseteq OnDisk \cup Lines(temp)
  BY ZenonT(30) DEF Parts
<1>2. Single(live) /\ live \subseteq Events /\ Old /\ e \in Events
  BY ZenonT(30) DEF RecInv, MemInv, TypeInv, MemoryType
<1>3. \A g \in Killed(old) \cup Killed(new) : ~AtLeast(g, e)
  BY ZenonT(30), <1>1, NoneKills
<1>4. Covers(m, e)
  BY ZenonT(30), <1>1, <1>3, RestoreCovers
<1>5. m.live \cup m.evicted \subseteq I
  BY ZenonT(30), <1>1, RestoreSafe
<1>6. I \subseteq Events
  BY ZenonT(30) DEF Lines, Inserted
<1> HIDE DEF m, I
<1>7. PICK h \in m.live \cup m.evicted : AtLeast(h, e)
  BY ZenonT(30), <1>4 DEF Covers, AtLeast, Newer
<1>8. h \in Events /\ h \in OnDisk \cup Lines(temp)
  BY ZenonT(30), <1>1, <1>5, <1>6, <1>7
<1>9. ~Newer(h, e)
  <2> SUFFICES ASSUME Newer(h, e) PROVE FALSE
    BY ZenonT(30)
  <2>1. KeyOf[h] # None
    BY ZenonT(30), <1>2, <1>8, NewerOrder
  <2>2. PICK k \in live : AtLeast(k, h)
    BY ZenonT(30), <1>2, <1>8, <2>1 DEF Old, Has
  <2>3. Newer(k, e) /\ k \in Events
    BY ZenonT(30), <1>2, <1>8, <2>2, NewerOrder
  <2>4. k \in Versions(live, e)
    BY ZenonT(30), <2>2, <2>3 DEF Newer, Versions
  <2> QED
    BY ZenonT(30), <1>2, <2>4 DEF Single
<1> QED
  BY ZenonT(30), <1>7, <1>9 DEF AtLeast, m

\* They bring no other event back than the files of now, memory, the snapshot in the
\* making, deletions and the old versions of an event in flight explain.
LEMMA PartsAdd ==
    ASSUME Unlimited, TypeInv, RecInv, phase = "up", NEW lines, NEW old, NEW new,
           Parts(lines, old, new),
           live \subseteq Pending \cup Lines(lines) \cup Inserted(old) \cup Inserted(new),
           NEW x \in Restore(lines, old, new).live
    PROVE  \/ x \in restored.live \cup live \cup InFlight \cup Lines(temp) \cup tombs
           \/ \E h \in InFlight : x \in UpTo(h) \ {h}
<1> DEFINE m == Restore(lines, old, new)
           I == Lines(lines) \cup Inserted(old) \cup Inserted(new)
<1>1. /\ lines \in Seq(Events) /\ old \in Seq(Record) /\ new \in Seq(Record)
      /\ ~HasTorn(old) /\ ~HasTorn(new)
      /\ I \subseteq OnDisk \cup Lines(temp)
  BY ZenonT(30) DEF Parts
<1>2. Single(live) /\ live \subseteq Events /\ Old /\ CallInv /\ NoTorn
  BY ZenonT(30) DEF RecInv, MemInv, TypeInv, MemoryType
<1>3. m.live \subseteq I /\ Single(m.live) /\ m.evicted = {}
  BY ZenonT(30), <1>1, RestoreSafe, NothingEvicted
<1>4. I \subseteq Events
  BY ZenonT(30) DEF Lines, Inserted
<1>5. x \in Events /\ x \in OnDisk \cup Lines(temp) /\ x \in m.live
  BY ZenonT(30), <1>1, <1>3, <1>4
<1>6. /\ snapshot \in Seq(Events) /\ wal_old \in Seq(Record) /\ wal \in Seq(Record)
      /\ restored = Restore(snapshot, wal_old, wal)
  BY ZenonT(30) DEF TypeInv, DiskType, LogInv, LogType, RestoredIs
<1>7. ASSUME x \in OnDisk, KeyOf[x] = None
      PROVE  x \in restored.live \cup InFlight \cup tombs
  <2>1. CASE x \in Dead
    BY ZenonT(30), <1>2, <1>7, <2>1, InFlightHas DEF Old
  <2>2. CASE x \notin Dead
    <3>1. \A g \in Dead : ~AtLeast(g, x)
      <4>1. Dead \subseteq Events
        BY ZenonT(30) DEF Dead, Killed
      <4> QED
        BY ZenonT(30), <1>5, <1>7, <2>2, <4>1, NewerOrder DEF AtLeast
    <3>2. Covers(restored, x)
      BY ZenonT(30), <1>2, <1>6, <1>7, <3>1, RestoreCovers DEF NoTorn, OnDisk, Dead
    <3>3. restored.evicted = {}
      BY ZenonT(30), <1>6, NothingEvicted
    <3>4. PICK h \in restored.live : h = x \/ h \in Versions(Events, x)
      BY ZenonT(30), <3>2, <3>3 DEF Covers
    <3> QED
      BY ZenonT(30), <1>7, <3>4 DEF Versions
  <2> QED
    BY ZenonT(30), <2>1, <2>2
<1>8. ASSUME x \in OnDisk, KeyOf[x] # None, x \notin live
      PROVE  \E h \in InFlight : x \in UpTo(h) \ {h}
  <2>1. PICK h \in live : AtLeast(h, x)
    BY ZenonT(30), <1>2, <1>8 DEF Old, Has
  <2>2. Newer(h, x) /\ h # x /\ h \in Events
    BY ZenonT(30), <1>2, <1>8, <2>1 DEF AtLeast
  <2>3. KeyOf[h] = KeyOf[x] /\ Wins(h, x)
    BY ZenonT(30), <1>5, <2>2, NewerOrder
  <2>4. h \in InFlight
    <3> SUFFICES ASSUME h \notin InFlight PROVE FALSE
      BY ZenonT(30)
    <3>1. h \in I
      BY ZenonT(30), <1>2, <2>1, InFlightHas
    <3>2. h \in m.live \cup m.evicted
      BY ZenonT(30), <2>1, <3>1, PartsKeep
    <3> HIDE DEF m, I
    <3>3. x \in Versions(m.live, h)
      BY ZenonT(30), <1>5, <1>8, <2>2, <2>3 DEF Versions
    <3> QED
      BY ZenonT(30), <1>3, <3>2, <3>3 DEF Single
  <2>5. x \in UpTo(h) \ {h}
    BY ZenonT(30), <1>5, <1>8, <2>2, <2>3 DEF UpTo, Versions
  <2> QED
    BY ZenonT(30), <2>4, <2>5
<1> HIDE DEF m, I
<1> QED
  BY ZenonT(30), <1>5, <1>7, <1>8

\* What a restart would bring back, when it evicts nothing.
LEMMA SavedIs ==
    ASSUME Unlimited, TypeInv
    PROVE  Saved = (IF phase = "loaded" THEN live ELSE restored.live) /\ Saved \subseteq Events
<1>1. /\ snapshot \in Seq(Events) /\ wal_old \in Seq(Record) /\ wal \in Seq(Record)
      /\ restored = Restore(snapshot, wal_old, wal) /\ live \subseteq Events
  BY ZenonT(30) DEF TypeInv, DiskType, MemoryType, LogInv, LogType, RestoredIs
<1>2. restored.evicted = {} /\ restored \in Mem
  BY ZenonT(30), <1>1, NothingEvicted, RestoreType
<1>3. restored.live \subseteq Events
  BY ZenonT(30), <1>2 DEF Mem
<1> QED
  BY ZenonT(30), <1>1, <1>2, <1>3 DEF Saved

LEMMA SavedNext ==
    ASSUME Unlimited, TypeInv'
    PROVE  /\ Saved' = (IF phase' = "loaded" THEN live' ELSE restored'.live)
           /\ Saved' \subseteq Events
<1>1. /\ snapshot' \in Seq(Events) /\ wal_old' \in Seq(Record) /\ wal' \in Seq(Record)
      /\ restored' = Restore(snapshot', wal_old', wal') /\ live' \subseteq Events
  BY ZenonT(30) DEF TypeInv, DiskType, MemoryType, LogInv, LogType, RestoredIs
<1>2. restored'.evicted = {} /\ restored' \in Mem
  BY ZenonT(30), <1>1, NothingEvicted, RestoreType
<1>3. restored'.live \subseteq Events
  BY ZenonT(30), <1>2 DEF Mem
<1> QED
  BY ZenonT(30), <1>1, <1>2, <1>3 DEF Saved

\* A step that only changes what is saved, as StorePromise allows.
LEMMA SaveStep ==
    ASSUME TypeInv, TypeInv', CallInv, phase # "down", phase' # "down",
           live' = live, tombs' = tombs, raced \subseteq raced', raced' \subseteq raced \cup InFlight,
           InFlight' \subseteq InFlight, Lines(temp)' \subseteq Lines(temp) \cup live,
           \A x \in Saved : x \in live /\ x \notin InFlight => x \in Saved',
           \A x \in Saved' :
             \/ x \in Saved \cup live \cup InFlight \cup Lines(temp) \cup (tombs \cap raced)
             \/ \E h \in InFlight : x \in UpTo(h) \ {h}
    PROVE  Promise!Next
<1> DEFINE Copied == {temp[i] : i \in DOMAIN temp}
           Older == [e \in Events |-> UpTo(e) \ {e}]
           O == UNION {Older[e] : e \in InFlight}
<1>1. Copied = Lines(temp) /\ Copied' = Lines(temp)'
  <2>1. temp \in Seq(Events) /\ temp' \in Seq(Events)
    BY ZenonT(30) DEF TypeInv, DiskType
  <2>2. (\A i \in DOMAIN temp : temp[i] \in Events) /\ (\A i \in DOMAIN temp' : temp'[i] \in Events)
    BY <2>1
  <2> QED
    BY ZenonT(30), <2>2 DEF Lines
<1>2. ASSUME NEW h \in InFlight, NEW x \in UpTo(h) \ {h} PROVE x \in O
  <2>1. h \in Events
    BY ZenonT(30), InFlightHas
  <2>2. Older[h] = UpTo(h) \ {h}
    BY ZenonT(30), <2>1
  <2> HIDE DEF Older
  <2> QED
    BY ZenonT(30), <2>2
<1> HIDE DEF O
<1>3. Saved' \subseteq Saved \cup live \cup InFlight \cup Copied \cup (tombs \cap raced) \cup O
  BY ZenonT(30), <1>1, <1>2
<1>4. Copied' \subseteq Copied \cup live
  BY ZenonT(30), <1>1
<1>5. (Saved \cap live) \ InFlight \subseteq Saved'
  BY ZenonT(30)
<1>6. Promise!Race
  BY ZenonT(30) DEF Promise!Race
<1>7. Promise!Save
  BY ZenonT(30), <1>3, <1>4, <1>5, <1>6 DEF Promise!Save, Copied, O, Older
<1> QED
  BY ZenonT(30), <1>7 DEF Promise!Next

LEMMA InFlightSame == UNCHANGED <<recs, ev>> => InFlight' = InFlight
BY DEF InFlight

LEMMA InFlightType == (TypeInv /\ CallInv => InFlight \subseteq Events)'
<1>1. TypeInv /\ CallInv => InFlight \subseteq Events
  BY ZenonT(30), InFlightHas
<1> QED
  BY <1>1, PTL

\* What the steps below start from.
PromiseBefore ==
    /\ Undisturbed /\ Unlimited /\ TypeInv /\ TypeInv' /\ RecInv /\ RecInv' /\ Quiet
    /\ Unraced /\ DeletedKeptOut'

LEMMA CallPromise ==
    ASSUME PromiseBefore, NEW t \in Threads, NEW e \in Events, NEW o, NEW rs, Start(t, o, e, rs),
           pc[t] = "idle", phase = "up", live' \subseteq live \cup {e},
           UNCHANGED <<tombs, raced, restored, phase, temp>>
    PROVE  Promise!Next
<1>1. recs \in [Threads -> Seq(Record)] /\ ev \in [Threads -> Events \cup {None}]
  BY ZenonT(30) DEF PromiseBefore, TypeInv, LogInv, LogType, ControlType
<1>2. ev[t] = None /\ recs[t] = <<>>
  BY ZenonT(30) DEF PromiseBefore, Quiet, RecInv, CallInv, CallOk
<1>3. /\ ev'[t] = e /\ \A u \in Threads \ {t} : ev'[u] = ev[u] /\ recs'[u] = recs[u]
  BY ZenonT(30), <1>1 DEF Start
<1>4. None \notin Events
  BY ZenonT(30), ConstantsAssumption
<1>5. e \in InFlight'
  BY ZenonT(30), <1>3, <1>4, InFlightNext DEF Concerns
<1>6. ASSUME NEW x \in InFlight PROVE x \in InFlight'
  <2>1. PICK u \in Threads : x # None /\ Concerns(u, x)
    BY ZenonT(30), InFlightIs
  <2>2. u # t
    <3>1. DOMAIN <<>> = {}
      OBVIOUS
    <3> QED
      BY ZenonT(30), <1>2, <2>1, <3>1 DEF Concerns
  <2>3. Concerns(u, x)'
    BY ZenonT(30), <1>3, <2>1, <2>2 DEF Concerns
  <2> QED
    BY ZenonT(30), <2>1, <2>3, InFlightNext
<1>7. InFlight' \subseteq Events
  BY ZenonT(30), InFlightType DEF PromiseBefore, RecInv
<1>8. Saved' = Saved
  BY ZenonT(30) DEF Saved
<1>9. Promise!Call
  BY ZenonT(30), <1>5, <1>6, <1>7, <1>8 DEF Promise!Call
<1> QED
  BY ZenonT(30), <1>9 DEF Promise!Next

LEMMA RemovePromise ==
    ASSUME PromiseBefore, phase = "up", live' \subseteq live, InFlight' \subseteq InFlight,
           tombs \subseteq tombs', tombs' \subseteq tombs \cup InFlight,
           UNCHANGED <<raced, restored, phase, temp>>
    PROVE  Promise!Next
<1>1. Saved' = Saved
  BY ZenonT(30) DEF Saved
<1>2. Promise!Race
  BY ZenonT(30) DEF Promise!Race
<1>3. Promise!Remove
  BY ZenonT(30), <1>1, <1>2 DEF Promise!Remove
<1> QED
  BY ZenonT(30), <1>3 DEF Promise!Next

LEMMA WritePromise ==
    ASSUME PromiseBefore, NEW t \in Threads, WriteRecord(t)
    PROVE  Promise!Next
<1> DEFINE r == Head(recs[t])
           e == ev[t]
<1>1. /\ pc[t] = "append" /\ recs' = [recs EXCEPT ![t] = Tail(@)] /\ ev' = ev
      /\ UNCHANGED <<phase, live, tombs, raced, temp>>
  BY ZenonT(30) DEF WriteRecord, memory, checkpointer, history, Forget
<1>2. /\ phase = "up" /\ recs \in [Threads -> Seq(Record)]
      /\ recs[t] \in Seq(Record) /\ recs[t] # <<>>
      /\ e \in Events /\ restored = Restore(snapshot, wal_old, wal) /\ live \subseteq Events
  BY ZenonT(30), <1>1 DEF PromiseBefore, TypeInv, LogInv, LogType, ControlType, AloneInStartup,
     RestoredIs, MemoryType
<1>3. Single(live) /\ CallsUp /\ CallInv /\ NoTorn
  BY ZenonT(30), <1>2 DEF PromiseBefore, RecInv, MemInv
<1>4. InFlight' \subseteq InFlight
  <2>1. \A u \in Threads \ {t} : recs'[u] = recs[u]
    BY ZenonT(30), <1>1, <1>2
  <2>2. recs'[t] = Tail(recs[t])
    BY ZenonT(30), <1>1, <1>2
  <2>3. \A i \in DOMAIN Tail(recs[t]) : i + 1 \in DOMAIN recs[t] /\ Tail(recs[t])[i] = recs[t][i + 1]
    BY <1>2
  <2>4. \A i \in DOMAIN Tail(recs[t]) : \E j \in DOMAIN recs[t] : Tail(recs[t])[i] = recs[t][j]
    BY ZenonT(30), <2>3
  <2>5. \A i \in DOMAIN recs'[t] : \E j \in DOMAIN recs[t] : recs'[t][i] = recs[t][j]
    BY ZenonT(30), <2>2, <2>4
  <2> QED
    BY ZenonT(30), <1>1, <2>1, <2>5, InFlightShrinks
<1>5. restored' = ReplayOp(restored, r) /\ r \in Sound /\ OfCall(t, r)
  BY ZenonT(30), <1>3, RestoredWrite, WriteCalls DEF PromiseBefore, NoTorn
<1>6. e \in InFlight /\ r.id \in InFlight
  <2>1. 1 \in DOMAIN recs[t] /\ r = recs[t][1] /\ recs[t][1] \in Record
    BY <1>2
  <2>2. r.id = recs[t][1].id /\ r.id \in Events
    BY ZenonT(30), <2>1 DEF Record
  <2>3. None \notin Events
    BY ZenonT(30), ConstantsAssumption
  <2> HIDE DEF r
  <2> QED
    BY ZenonT(30), <1>2, <2>1, <2>2, <2>3, InFlightIs DEF Concerns
<1>7. Saved = restored.live /\ Saved' = restored'.live /\ restored \in Mem
  <2>1. restored \in Mem
    BY ZenonT(30), <1>2, RestoreType DEF PromiseBefore, TypeInv, DiskType, LogInv, LogType
  <2> QED
    BY ZenonT(30), <1>1, <1>2, <2>1, SavedIs, SavedNext DEF PromiseBefore
<1> HIDE DEF r
<1>8. CASE r.op = "Insert"
  <2>1. restored' = Ingest(restored, r.id)
    BY ZenonT(30), <1>5, <1>8 DEF ReplayOp
  <2>2. r = Rec("Insert", e) /\ op[t] = "insert" /\ r.id = e
    BY <1>5, <1>8 DEF OfCall, Rec
  <2>3. restored'.live = IF Accepts(restored.live, restored.tombs, e)
                           THEN (restored.live \ Versions(restored.live, e)) \cup {e}
                           ELSE restored.live
    <3>1. ~(LoadThreshold > 0)
      BY DEF PromiseBefore, Unlimited
    <3> QED
      BY ZenonT(30), <1>7, <2>1, <2>2, <3>1 DEF Ingest, Mem
  <2>4. ASSUME NEW x \in Saved, x \in live, x \notin InFlight PROVE x \in Saved'
    <3> SUFFICES ASSUME Accepts(restored.live, restored.tombs, e), x \in Versions(restored.live, e)
                 PROVE  FALSE
      BY ZenonT(30), <1>7, <2>3, <2>4
    <3>1. x \in Events /\ x # e /\ KeyOf[e] # None /\ KeyOf[x] = KeyOf[e] /\ Wins(e, x)
      BY ZenonT(30) DEF Versions, Accepts
    <3>2. PICK h \in live : AtLeast(h, e)
      BY ZenonT(30), <1>1, <1>2, <1>3, <2>2, <3>1 DEF CallsUp, Has
    <3>3. h \in Events /\ KeyOf[h] = KeyOf[x] /\ Newer(e, x)
      BY ZenonT(30), <1>2, <3>1, <3>2, NewerOrder DEF AtLeast
    <3>4. Newer(h, x)
      BY ZenonT(30), <1>2, <3>1, <3>2, <3>3, NewerOrder
    <3>5. h \in Versions(live, x)
      BY ZenonT(30), <3>2, <3>4 DEF Newer, Versions
    <3> QED
      BY ZenonT(30), <1>3, <2>4, <3>5 DEF Single
  <2>5. \A x \in Saved' : x \in Saved \cup InFlight
    BY ZenonT(30), <1>6, <1>7, <2>3
  <2> QED
    BY ZenonT(30), <1>1, <1>2, <1>3, <1>4, <2>4, <2>5, SaveStep DEF PromiseBefore
<1>9. CASE r.op # "Insert"
  <2>1. r.op \in {"Delete", "Tombstone"}
    BY ZenonT(30), <1>5, <1>9 DEF Sound, Record, Ops
  <2>2. restored'.live = restored.live \ {r.id}
    BY ZenonT(30), <1>5, <1>7, <2>1 DEF ReplayOp, Mem
  <2>3. ASSUME NEW x \in Saved, x \in live, x \notin InFlight PROVE x \in Saved'
    BY ZenonT(30), <1>6, <1>7, <2>2, <2>3
  <2>4. \A x \in Saved' : x \in Saved
    BY ZenonT(30), <1>7, <2>2
  <2> QED
    BY ZenonT(30), <1>1, <1>2, <1>3, <1>4, <2>3, <2>4, SaveStep DEF PromiseBefore
<1> QED
  BY ZenonT(30), <1>8, <1>9

\* The files are replaced by parts of themselves and by the snapshot in the making,
\* while the store serves.
LEMMA FilesPromise ==
    ASSUME PromiseBefore, phase = "up", phase' = "up", Parts(snapshot', wal_old', wal'),
           live \subseteq Pending \cup Lines(snapshot') \cup Inserted(wal_old') \cup Inserted(wal'),
           UNCHANGED <<live, tombs, recs, ev>>, Lines(temp)' \subseteq Lines(temp) \cup live,
           raced \subseteq raced', raced' \subseteq raced \cup InFlight
    PROVE  Promise!Next
<1>1. restored' = Restore(snapshot', wal_old', wal')
  BY ZenonT(30) DEF PromiseBefore, TypeInv, RestoredIs
<1>2. Saved = restored.live /\ Saved' = restored'.live /\ Restore(snapshot', wal_old', wal').evicted = {}
  BY ZenonT(30), SavedIs, SavedNext, NothingEvicted DEF PromiseBefore, Parts
<1>3. CallInv /\ Pending \subseteq InFlight
  BY ZenonT(30), InFlightHas DEF PromiseBefore, RecInv
<1>4. InFlight' \subseteq InFlight
  BY ZenonT(30), InFlightSame
<1>5. ASSUME NEW x \in Saved, x \in live, x \notin InFlight PROVE x \in Saved'
  <2>1. x \in Lines(snapshot') \cup Inserted(wal_old') \cup Inserted(wal')
    BY ZenonT(30), <1>3, <1>5
  <2>2. x \in Restore(snapshot', wal_old', wal').live \cup Restore(snapshot', wal_old', wal').evicted
    BY ZenonT(30), <1>5, <2>1, PartsKeep DEF PromiseBefore
  <2> QED
    BY ZenonT(30), <1>1, <1>2, <2>2
<1>6. ASSUME NEW x \in Saved'
      PROVE  \/ x \in Saved \cup live \cup InFlight \cup Lines(temp) \cup (tombs \cap raced)
             \/ \E h \in InFlight : x \in UpTo(h) \ {h}
  <2>1. x \in Restore(snapshot', wal_old', wal').live
    BY ZenonT(30), <1>1, <1>2
  <2>3. x \in tombs => x \in raced \cup InFlight
    BY ZenonT(30), <1>1, <2>1 DEF PromiseBefore, DeletedKeptOut
  <2>2. \/ x \in restored.live \cup live \cup InFlight \cup Lines(temp) \cup tombs
        \/ \E h \in InFlight : x \in UpTo(h) \ {h}
    BY ZenonT(30), <2>1, PartsAdd DEF PromiseBefore
  <2> QED
    BY ZenonT(30), <1>2, <2>2, <2>3
<1> QED
  BY ZenonT(30), <1>3, <1>4, <1>5, <1>6, SaveStep DEF PromiseBefore

\* During startup memory counts, and it does not change.
LEMMA StartupPromise ==
    ASSUME PromiseBefore, phase = "loaded", phase' = "loaded",
           UNCHANGED <<live, tombs, recs, ev>>, Lines(temp)' \subseteq Lines(temp) \cup live,
           raced \subseteq raced', raced' \subseteq raced \cup InFlight
    PROVE  Promise!Next
<1>1. Saved' = Saved
  BY ZenonT(30) DEF Saved
<1>2. InFlight' \subseteq InFlight
  BY ZenonT(30), InFlightSame
<1> QED
  BY ZenonT(30), <1>1, <1>2, SaveStep DEF PromiseBefore, RecInv

\* Startup ends when the files bring back what memory has.
LEMMA UpPromise ==
    ASSUME PromiseBefore, phase = "loaded", phase' = "up", OnDisk' = live, Dead' = {},
           UNCHANGED <<live, tombs, recs, ev>>, Lines(temp)' \subseteq Lines(temp) \cup live,
           raced \subseteq raced', raced' \subseteq raced \cup InFlight
    PROVE  Promise!Next
<1> DEFINE m == Restore(snapshot', wal_old', wal')
<1>1. /\ snapshot' \in Seq(Events) /\ wal_old' \in Seq(Record) /\ wal' \in Seq(Record)
      /\ restored' = m /\ ~HasTorn(wal_old') /\ ~HasTorn(wal')
  BY ZenonT(30) DEF PromiseBefore, TypeInv, DiskType, LogInv, LogType, RestoredIs, RecInv, NoTorn
<1>2. Saved = live /\ Saved' = m.live /\ m.evicted = {} /\ Single(live) /\ live \subseteq Events
  BY ZenonT(30), <1>1, SavedIs, SavedNext, NothingEvicted
     DEF PromiseBefore, RecInv, MemInv, TypeInv, MemoryType
<1>3. m.live \subseteq live
  BY ZenonT(30), <1>1, RestoreSafe DEF OnDisk
<1>4. ASSUME NEW x \in live PROVE x \in m.live
  <2>1. x \in Lines(snapshot') \cup Inserted(wal_old') \cup Inserted(wal')
    BY ZenonT(30) DEF OnDisk
  <2>2. \A g \in Killed(wal_old') \cup Killed(wal') : ~AtLeast(g, x)
    BY ZenonT(30) DEF Dead
  <2>3. Covers(m, x)
    BY ZenonT(30), <1>1, <2>1, <2>2, RestoreCovers
  <2> HIDE DEF m
  <2>4. PICK h \in m.live : h = x \/ h \in Versions(Events, x)
    BY ZenonT(30), <1>2, <2>3 DEF Covers
  <2>5. h \in live
    BY ZenonT(30), <1>3, <2>4
  <2>6. h \notin Versions(live, x)
    BY ZenonT(30), <1>2 DEF Single
  <2> QED
    BY ZenonT(30), <2>4, <2>5, <2>6 DEF Versions
<1> HIDE DEF m
<1>5. Saved' = Saved
  BY ZenonT(30), <1>2, <1>3, <1>4
<1>6. InFlight' \subseteq InFlight
  BY ZenonT(30), InFlightSame
<1> QED
  BY ZenonT(30), <1>5, <1>6, SaveStep DEF PromiseBefore, RecInv

LEMMA RotatePromise == ASSUME PromiseBefore, Rotate PROVE Promise!Next
<1>1. /\ UNCHANGED <<phase, live, tombs, recs, ev, snapshot>>
      /\ wal_old' = wal /\ wal' = <<>> /\ temp' = <<>> /\ raced' = raced \cup Racing
      /\ phase = "loaded" \/ (phase = "up" /\ ckpt = "idle")
  BY ZenonT(30) DEF Rotate, memory, tasks, PromiseBefore, TypeInv, LogInv, AloneInStartup
<1>5. raced \subseteq raced' /\ raced' \subseteq raced \cup InFlight
  BY ZenonT(30), <1>1 DEF Racing
<1>2. Lines(temp)' \subseteq Lines(temp) \cup live
  BY ZenonT(30), <1>1, EmptyParts
<1>3. CASE phase = "loaded"
  BY ZenonT(30), <1>1, <1>2, <1>3, <1>5, StartupPromise
<1>4. CASE phase = "up"
  <2>1. wal_old = <<>> /\ live \subseteq Pending \cup OnDisk /\ NoTorn /\ NoTorn'
    BY ZenonT(30), <1>1, <1>4 DEF PromiseBefore, RecInv, Saves
  <2>2. OnDisk = Lines(snapshot') \cup Inserted(wal_old') \cup Inserted(wal')
    BY ZenonT(30), <1>1, <2>1, EmptyParts DEF OnDisk
  <2>3. Killed(wal_old') \cup Killed(wal') \subseteq Dead
    BY ZenonT(30), <1>1, <2>1, EmptyParts DEF Dead
  <2>4. Parts(snapshot', wal_old', wal')
    BY ZenonT(30), <2>1, <2>2, <2>3
       DEF Parts, PromiseBefore, TypeInv, DiskType, LogInv, LogType, NoTorn
  <2> QED
    BY ZenonT(30), <1>1, <1>2, <1>4, <1>5, <2>1, <2>2, <2>4, FilesPromise
<1> QED
  BY ZenonT(30), <1>1, <1>3, <1>4

LEMMA RenamePromise == ASSUME PromiseBefore, RenameSnapshot PROVE Promise!Next
<1>1. /\ UNCHANGED <<phase, live, tombs, raced, recs, ev, wal_old, wal, temp>>
      /\ ckpt = "scan" /\ unvisited = {} /\ snapshot' = temp /\ phase \in {"up", "loaded"}
  BY ZenonT(30) DEF RenameSnapshot, memory, log, tasks, history, PromiseBefore, TypeInv, LogInv, AloneInStartup
<1>2. CASE phase = "loaded"
  BY ZenonT(30), <1>1, <1>2, StartupPromise
<1>3. CASE phase = "up"
  <2>1. live \subseteq Pending \cup unvisited \cup Lines(temp) \cup Inserted(wal) /\ NoTorn'
    BY ZenonT(30), <1>1, <1>3 DEF PromiseBefore, RecInv, Saves
  <2>2. live \subseteq Pending \cup Lines(snapshot') \cup Inserted(wal_old') \cup Inserted(wal')
    BY ZenonT(30), <1>1, <2>1
  <2>3. Killed(wal_old') \cup Killed(wal') \subseteq Dead
    BY ZenonT(30), <1>1 DEF Dead
  <2>4. Lines(snapshot') \cup Inserted(wal_old') \cup Inserted(wal') \subseteq OnDisk \cup Lines(temp)
    BY ZenonT(30), <1>1 DEF OnDisk
  <2>5. Parts(snapshot', wal_old', wal')
    BY ZenonT(30), <2>1, <2>3, <2>4
       DEF Parts, PromiseBefore, TypeInv, DiskType, LogInv, LogType, NoTorn
  <2> QED
    BY ZenonT(30), <1>1, <1>3, <2>2, <2>5, FilesPromise
<1> QED
  BY ZenonT(30), <1>1, <1>2, <1>3

LEMMA RemoveOldPromise == ASSUME PromiseBefore, RemoveOld PROVE Promise!Next
<1>1. /\ UNCHANGED <<live, tombs, raced, recs, ev, snapshot, wal>>
      /\ ckpt = "remove" /\ phase' = "up" /\ phase \in {"up", "loaded"}
      /\ wal_old' = <<>> /\ temp' = <<>>
  BY ZenonT(30) DEF RemoveOld, CheckpointOver, memory, log, tasks, history, PromiseBefore, TypeInv,
         LogInv, AloneInStartup
<1>2. Lines(temp)' \subseteq Lines(temp) \cup live
  BY ZenonT(30), <1>1, EmptyParts
<1>3. CASE phase = "loaded"
  <2>1. wal = <<>> /\ Lines(snapshot) = live
    BY ZenonT(30), <1>1, <1>3 DEF PromiseBefore, TypeInv, LogInv, AloneInStartup, RecInv, LoadInv
  <2>2. OnDisk' = live /\ Dead' = {}
    BY ZenonT(30), <1>1, <2>1, EmptyParts DEF OnDisk, Dead
  <2> QED
    BY ZenonT(30), <1>1, <1>2, <1>3, <2>2, UpPromise
<1>4. CASE phase = "up"
  <2>1. live \subseteq Pending \cup Lines(snapshot) \cup Inserted(wal) /\ NoTorn'
    BY ZenonT(30), <1>1, <1>4 DEF PromiseBefore, RecInv, Saves
  <2>2. live \subseteq Pending \cup Lines(snapshot') \cup Inserted(wal_old') \cup Inserted(wal')
    BY ZenonT(30), <1>1, <2>1
  <2>3. Killed(wal_old') \cup Killed(wal') \subseteq Dead
    BY ZenonT(30), <1>1, EmptyParts DEF Dead
  <2>4. Lines(snapshot') \cup Inserted(wal_old') \cup Inserted(wal') \subseteq OnDisk \cup Lines(temp)
    BY ZenonT(30), <1>1, EmptyParts DEF OnDisk
  <2>5. Parts(snapshot', wal_old', wal')
    BY ZenonT(30), <2>1, <2>3, <2>4
       DEF Parts, PromiseBefore, TypeInv, DiskType, LogInv, LogType, NoTorn
  <2> QED
    BY ZenonT(30), <1>1, <1>2, <1>4, <2>2, <2>5, FilesPromise
<1> QED
  BY ZenonT(30), <1>1, <1>3, <1>4

LEMMA VisitPromise == ASSUME PromiseBefore, NEW e \in Events, Visit(e) PROVE Promise!Next
<1>1. /\ UNCHANGED <<phase, live, tombs, raced, recs, ev, restored>> /\ phase # "down"
      /\ temp' = IF e \in live THEN Append(temp, e) ELSE temp
  BY ZenonT(30) DEF Visit, memory, disk, tasks, history, PromiseBefore, TypeInv, LogInv, AloneInStartup
<1>2. temp \in Seq(Events)
  BY ZenonT(30) DEF PromiseBefore, TypeInv, DiskType
<1>3. Lines(temp)' \subseteq Lines(temp) \cup live
  <2>1. Lines(Append(temp, e)) = Lines(temp) \cup {e}
    BY ZenonT(30), <1>2, LinesAppend
  <2> QED
    BY ZenonT(30), <1>1, <2>1
<1>4. Saved' = Saved
  BY ZenonT(30), <1>1 DEF Saved
<1>5. InFlight' \subseteq InFlight
  BY ZenonT(30), <1>1, InFlightSame
<1> QED
  BY ZenonT(30), <1>1, <1>3, <1>4, <1>5, SaveStep DEF PromiseBefore, RecInv

LEMMA DropPromise == ASSUME PromiseBefore, DropOld PROVE Promise!Next
<1>1. /\ phase = "loaded" /\ ckpt = "idle" /\ wal_old' = <<>>
      /\ UNCHANGED <<live, tombs, raced, ev, recs, snapshot, wal, temp>>
  BY ZenonT(30) DEF DropOld, memory, log, tasks, history
<1>2. CASE phase' = "loaded"
  BY ZenonT(30), <1>1, <1>2, StartupPromise
<1>3. CASE phase' # "loaded"
  <2>1. phase' = "up" /\ snapshot \o Readable(wal_old) \o Readable(wal) = <<>>
    BY ZenonT(30), <1>1, <1>3 DEF DropOld
  <2>2. /\ snapshot \in Seq(Events) /\ wal_old \in Seq(Record) /\ wal \in Seq(Record)
        /\ NoTorn /\ live \subseteq OnDisk
    BY ZenonT(30), <1>1 DEF PromiseBefore, TypeInv, DiskType, LogInv, LogType, RecInv, LoadInv
  <2>3. Readable(wal_old) = wal_old /\ Readable(wal) = wal
    BY ZenonT(30), <2>2, ReadableSound DEF NoTorn
  <2>4. snapshot = <<>> /\ wal_old = <<>> /\ wal = <<>>
    BY <2>1, <2>2, <2>3
  <2>5. OnDisk = {} /\ OnDisk' = {} /\ Dead' = {}
    BY ZenonT(30), <1>1, <2>4, EmptyParts DEF OnDisk, Dead
  <2>6. OnDisk' = live
    BY ZenonT(30), <2>2, <2>5
  <2> QED
    BY ZenonT(30), <1>1, <2>1, <2>5, <2>6, UpPromise
<1> QED
  BY ZenonT(30), <1>2, <1>3

LEMMA DiePromise == ASSUME PromiseBefore, Crash \/ PowerLoss PROVE Promise!Next
<1>1. /\ phase = "up" /\ phase' = "down" /\ live' = {} /\ tombs' = {} /\ temp' = <<>>
      /\ ev' = [t \in Threads |-> None] /\ recs' = [t \in Threads |-> <<>>]
  BY ZenonT(30) DEF Crash, PowerLoss, Die, PromiseBefore, Undisturbed
<1>2. InFlight' = {}
  <2>1. DOMAIN <<>> = {}
    OBVIOUS
  <2>2. \A t \in Threads : ev'[t] = None /\ recs'[t] = <<>>
    BY ZenonT(30), <1>1
  <2>3. \A t \in Threads : \A x : Concerns(t, x)' => x = None
    BY ZenonT(30), <2>1, <2>2 DEF Concerns
  <2> QED
    BY ZenonT(30), <2>3, InFlightNext
<1>3. {temp'[i] : i \in DOMAIN temp'} = {}
  BY <1>1
<1>4. Promise!Stop
  BY ZenonT(30), <1>1, <1>2, <1>3 DEF Promise!Stop
<1>5. CASE Crash
  <2>1. Saved' = Saved
    BY ZenonT(30), <1>1, <1>5 DEF Crash, Saved
  <2> QED
    BY ZenonT(30), <1>1, <1>4, <2>1 DEF Promise!Crash, Promise!Next
<1>6. CASE PowerLoss
  <2>1. Saved' \subseteq Events
    BY ZenonT(30), SavedNext DEF PromiseBefore
  <2> QED
    BY ZenonT(30), <1>1, <1>4, <2>1 DEF Promise!PowerLoss, Promise!Next
<1> QED
  BY ZenonT(30), <1>5, <1>6

LEMMA LoadPromise == ASSUME PromiseBefore, Load PROVE Promise!Next
<1>1. /\ phase = "down" /\ phase' = "loaded" /\ UNCHANGED <<ev, recs, temp>>
      /\ live' = Restore(snapshot, wal_old, wal).live /\ raced' = raced
  BY ZenonT(30) DEF Load, tasks, checkpointer, Forget
<1>2. Saved' = live' /\ Saved = restored.live /\ live' = restored.live
  BY ZenonT(30), <1>1, SavedIs, SavedNext DEF PromiseBefore, TypeInv, RestoredIs
<1>3. tombs \cap raced = {} /\ tombs' \cap raced' = {}
  BY ZenonT(30), <1>1 DEF PromiseBefore, Unraced
<1>4. InFlight' = InFlight
  BY ZenonT(30), <1>1, InFlightSame
<1>5. Promise!Recover
  BY ZenonT(30), <1>1, <1>2, <1>3, <1>4 DEF Promise!Recover
<1> QED
  BY ZenonT(30), <1>5 DEF Promise!Next

LEMMA SamePromise ==
    UNCHANGED <<phase, live, tombs, raced, restored, ev, recs, temp>> => UNCHANGED Promise!promise
<1> SUFFICES ASSUME UNCHANGED <<phase, live, tombs, raced, restored, ev, recs, temp>>
             PROVE  UNCHANGED Promise!promise
  BY ZenonT(30)
<1>1. Saved' = Saved /\ InFlight' = InFlight
  BY ZenonT(30), InFlightSame DEF Saved
<1> QED
  BY ZenonT(30), <1>1 DEF Promise!promise

LEMMA PromiseStep ==
    PromiseBefore /\ [Next]_vars => [Promise!Next]_(Promise!promise)
<1> SUFFICES ASSUME PromiseBefore, [Next]_vars, ~UNCHANGED Promise!promise PROVE Promise!Next
  BY ZenonT(30)
<1>1. ASSUME NEW t \in Threads, NEW e \in Events, Publish(t, e) PROVE Promise!Next
  <2>1. CASE Accepts(live, tombs, e)
    BY ZenonT(30), <1>1, <2>1, CallPromise DEF Publish, Idle, disk, checkpointer, history
  <2>2. CASE ~Accepts(live, tombs, e)
    BY ZenonT(30), <1>1, <2>2, SamePromise DEF Publish, tasks, disk, checkpointer, history
  <2> QED
    BY ZenonT(30), <2>1, <2>2
<1>2. ASSUME NEW t \in Threads, NEW e \in Events, Delete(t, e) PROVE Promise!Next
  BY ZenonT(30), <1>2, CallPromise DEF Delete, Idle, memory, disk, checkpointer, history
<1>3. ASSUME NEW t \in Threads, WriteRecord(t) PROVE Promise!Next
  BY ZenonT(30), <1>3, WritePromise
<1>4. ASSUME NEW t \in Threads, MarkDirty(t) \/ DeleteById(t) PROVE Promise!Next
  <2>1. /\ phase = "up" /\ UNCHANGED <<phase, restored, temp, raced>>
        /\ UNCHANGED <<op, ev, recs>> \/ Finish(t)
        /\ live' \subseteq live
        /\ tombs' = tombs \/ (DeleteById(t) /\ tombs' = tombs \cup {ev[t]})
    BY ZenonT(30), <1>4 DEF MarkDirty, DeleteById, memory, disk, checkpointer, history, PromiseBefore, TypeInv, LogInv,
       AloneInStartup
  <2>2. recs \in [Threads -> Seq(Record)] /\ ev \in [Threads -> Events \cup {None}] /\ CallInv
    BY ZenonT(30) DEF PromiseBefore, TypeInv, LogInv, LogType, ControlType, RecInv
  <2>3. InFlight' \subseteq InFlight
    <3>1. CASE UNCHANGED <<op, ev, recs>>
      BY ZenonT(30), <3>1, InFlightSame
    <3>2. CASE Finish(t)
      <4>1. /\ \A u \in Threads \ {t} : ev'[u] = ev[u] /\ recs'[u] = recs[u]
            /\ ev'[t] = None /\ recs'[t] = <<>>
        BY ZenonT(30), <2>2, <3>2 DEF Finish
      <4>2. DOMAIN <<>> = {}
        OBVIOUS
      <4>3. \A i \in DOMAIN recs'[t] : \E j \in DOMAIN recs[t] : recs'[t][i] = recs[t][j]
        BY ZenonT(30), <4>1, <4>2
      <4> QED
        BY ZenonT(30), <4>1, <4>3, InFlightShrinks
    <3> QED
      BY ZenonT(30), <2>1, <3>1, <3>2
  <2>4. DeleteById(t) => ev[t] \in InFlight
    BY ZenonT(30), <2>2, RemoveCalls, InFlightHas DEF PromiseBefore
  <2> QED
    BY ZenonT(30), <2>1, <2>3, <2>4, RemovePromise
<1>5. ASSUME NEW e \in Events, Evict(e) PROVE Promise!Next
  <2>1. InFlight' = InFlight
    BY ZenonT(30), <1>5, InFlightSame DEF Evict, tasks
  <2> QED
    BY ZenonT(30), <1>5, <2>1, RemovePromise DEF Evict, disk, checkpointer, Forget
<1>6. ~GroupCommit /\ ~UNCHANGED vars
  BY ZenonT(30), SamePromise DEF GroupCommit, vars, memory, disk, tasks, checkpointer, history, ClearFlag, Fsync
<1>7. CASE Checkpoint
  <2>1. ~SnapshotFails
    BY ZenonT(30) DEF SnapshotFails, PromiseBefore, Undisturbed
  <2> QED
    BY ZenonT(30), <1>7, <2>1, RotatePromise, RenamePromise, RemoveOldPromise, VisitPromise
       DEF Checkpoint
<1>8. CASE Crash \/ PowerLoss \/ Load \/ DropOld
  BY ZenonT(30), <1>8, DiePromise, LoadPromise, DropPromise
<1> QED
  BY ZenonT(30), <1>1, <1>2, <1>3, <1>4, <1>5, <1>6, <1>7, <1>8 DEF Next

LEMMA InitPromise == Init => Promise!Init /\ Quiet
<1> SUFFICES ASSUME Init PROVE Promise!Init /\ Quiet
  BY ZenonT(30)
<1>1. /\ phase = "down" /\ live = {} /\ tombs = {} /\ temp = <<>> /\ restored = Nothing
      /\ ev = [t \in Threads |-> None] /\ recs = [t \in Threads |-> <<>>]
  BY ZenonT(30) DEF Init
<1>2. Saved = {}
  BY ZenonT(30), <1>1 DEF Saved, Nothing
<1>3. InFlight = {}
  <2>1. DOMAIN <<>> = {}
    OBVIOUS
  <2>2. \A t \in Threads : ev[t] = None /\ recs[t] = <<>>
    BY ZenonT(30), <1>1
  <2>3. \A t \in Threads : \A x : Concerns(t, x) => x = None
    BY ZenonT(30), <2>1, <2>2 DEF Concerns
  <2> QED
    BY ZenonT(30), <2>3, InFlightIs
<1>4. {temp[i] : i \in DOMAIN temp} = {}
  BY <1>1
<1>5. Quiet
  BY ZenonT(30), <1>1 DEF Quiet
<1> QED
  BY ZenonT(30), <1>1, <1>2, <1>3, <1>4, <1>5 DEF Promise!Init

\* Log, rotation, snapshot and replay implement StorePromise: every step of a call, of a
\* checkpoint, of a crash and of a startup changes what a restart brings back only as
\* the abstract store allows.
THEOREM PromiseImplemented == ASSUME Undisturbed, Unlimited PROVE Spec => PromiseKept
<1> DEFINE Inv == TypeInv /\ RecInv /\ DelInv /\ Quiet /\ Unraced
<1>1. Init => Inv /\ Promise!Init
  <2>1. Init => Unraced
    BY ZenonT(30) DEF Init, Unraced
  <2> QED
    BY ZenonT(30), <2>1, InitTypeInv, InitRecInv, InitDelInv, InitPromise
<1>2. Inv /\ [Next]_vars => Inv'
  BY ZenonT(30), TypeInvStep, RecInvStep, DelInvStep, QuietStep, UnracedStep DEF Undisturbed
<1>3. Inv => DeletedKeptOut
  BY ZenonT(30), KeptOut
<1>4. Inv /\ Inv' /\ DeletedKeptOut' /\ [Next]_vars => [Promise!Next]_(Promise!promise)
  BY ZenonT(30), PromiseStep DEF PromiseBefore
<1> HIDE DEF Inv
<1> QED
  BY <1>1, <1>2, <1>3, <1>4, PTL DEF Spec, PromiseKept, Promise!Spec

=============================================================================
