------------------------- MODULE PersistenceProofs -------------------------
(***************************************************************************)
(* Proofs about Persistence for every value of its constants: the group    *)
(* commit, the types, what a restart makes of the files, what the calls in *)
(* flight have still to write, and that what was deleted does not come     *)
(* back.                                                                   *)
(***************************************************************************)
EXTENDS Persistence, WellFoundedInduction, TLAPS

\* The types the log depends on.
LogType ==
    /\ wal \in Seq(Record) /\ synced \in Nat
    /\ pc \in [Threads -> {"idle", "append", "mark", "remove"}]
    /\ recs \in [Threads -> Seq(Record)]
    /\ \A t \in Threads : pc[t] = "append" => recs[t] # <<>>

\* Nobody runs beside startup, and startup leaves an empty log behind.
AloneInStartup ==
    /\ phase \in {"down", "loaded", "up"}
    /\ phase # "up" => syncer = "idle" /\ \A t \in Threads : pc[t] = "idle"
    /\ phase = "loaded" /\ ckpt \in {"scan", "remove"} => wal = <<>>
    /\ ckpt = "rotate" => phase = "loaded"
    /\ phase = "down" => ckpt = "idle"

LogInv == LogType /\ AloneInStartup /\ UnsyncedIsTracked

LEMMA InitLogInv == Init => LogInv
BY DEF Init, LogInv, LogType, AloneInStartup, UnsyncedIsTracked

LEMMA InsertRecordsType ==
    ASSUME NEW e \in Events, NEW S \in SUBSET Events
    PROVE  InsertRecords(e, S) \in Seq(Record) /\ InsertRecords(e, S) # <<>>
<1>1. Rec("Insert", e) \in Record
  BY ZenonT(30) DEF Rec, Record, Ops
<1>2. CASE S = {}
  BY <1>1, <1>2 DEF InsertRecords
<1>3. CASE S # {}
  <2> DEFINE f == CHOOSE f \in S : TRUE
  <2>1. Rec("Delete", f) \in Record
    BY ZenonT(30), <1>3 DEF Rec, Record, Ops
  <2>2. InsertRecords(e, S) = <<Rec("Insert", e), Rec("Delete", f)>>
    BY ZenonT(30), <1>3 DEF InsertRecords
  <2> HIDE DEF f
  <2> QED
    BY <1>1, <2>1, <2>2
<1> QED
  BY ZenonT(30), <1>2, <1>3

LEMMA LogTypeStep == LogType /\ [Next]_vars => LogType'
<1> SUFFICES ASSUME LogType, [Next]_vars PROVE LogType'
  BY ZenonT(30)
<1> USE DEF LogType, memory, log, disk, tasks, checkpointer, history, bounds, Finish
<1>1. CASE UNCHANGED vars
  BY ZenonT(30), <1>1 DEF vars
<1>2. ASSUME NEW t \in Threads, NEW e \in Events, Publish(t, e) PROVE LogType'
  <2> DEFINE rs == InsertRecords(e, Versions(live, e))
  <2>1. rs \in Seq(Record) /\ rs # <<>>
    BY ZenonT(30), InsertRecordsType DEF Versions
  <2>2. CASE Accepts(live, tombs, e)
    <3>1. pc' = [pc EXCEPT ![t] = "append"] /\ recs' = [recs EXCEPT ![t] = rs]
      BY ZenonT(30), <1>2, <2>2 DEF Publish, Start
    <3> HIDE DEF rs
    <3> QED
      BY ZenonT(30), <1>2, <2>1, <3>1 DEF Publish
  <2>3. CASE ~Accepts(live, tombs, e)
    BY ZenonT(30), <1>2, <2>3 DEF Publish
  <2> QED
    BY ZenonT(30), <2>2, <2>3
<1>3. ASSUME NEW t \in Threads, NEW e \in Events, Delete(t, e) PROVE LogType'
  <2>1. <<Rec("Tombstone", e)>> \in Seq(Record) /\ <<Rec("Tombstone", e)>> # <<>>
    BY DEF Rec, Record, Ops
  <2> QED
    BY ZenonT(30), <1>3, <2>1 DEF Delete, Start
<1>4. ASSUME NEW t \in Threads, WriteRecord(t) PROVE LogType'
  <2>1. Head(recs[t]) \in Record /\ Tail(recs[t]) \in Seq(Record)
    BY <1>4 DEF WriteRecord
  <2> QED
    BY <1>4, <2>1 DEF WriteRecord
<1>5. ASSUME NEW t \in Threads, MarkDirty(t) PROVE LogType'
  BY ZenonT(30), <1>5 DEF MarkDirty
<1>6. ASSUME NEW t \in Threads, DeleteById(t) PROVE LogType'
  BY <1>6 DEF DeleteById
<1>7. ASSUME NEW e \in Events, Evict(e) PROVE LogType'
  BY ZenonT(30), <1>7 DEF Evict
<1>8. CASE GroupCommit
  BY <1>8 DEF GroupCommit, ClearFlag, Fsync
<1>9. CASE Checkpoint
  <2>1. CASE Rotate
    BY <2>1 DEF Rotate, FreshSynced
  <2>2. CASE RenameSnapshot \/ SnapshotFails \/ RemoveOld \/ \E e \in Events : Visit(e)
    BY ZenonT(30), <2>2 DEF RenameSnapshot, SnapshotFails, RemoveOld, Visit
  <2> QED
    BY ZenonT(30), <1>9, <2>1, <2>2 DEF Checkpoint
<1>10. CASE Crash
  BY <1>10 DEF Crash, Die
<1>11. CASE PowerLoss
  <2>1. PICK n \in synced .. Len(wal) :
          \/ wal' = SubSeq(wal, 1, n) /\ synced' = n
          \/ /\ n < Len(wal) /\ synced' = n + 1
             /\ wal' = Append(SubSeq(wal, 1, n), [wal[n + 1] EXCEPT !.op = "Torn"])
    BY ZenonT(30), <1>11 DEF PowerLoss
  <2>2. SubSeq(wal, 1, n) \in Seq(Record) /\ n \in Nat
    OBVIOUS
  <2>3. n < Len(wal) => [wal[n + 1] EXCEPT !.op = "Torn"] \in Record
    <3> SUFFICES ASSUME n < Len(wal) PROVE [wal[n + 1] EXCEPT !.op = "Torn"] \in Record
      BY ZenonT(30)
    <3>1. wal[n + 1] \in Record
      OBVIOUS
    <3> QED
      BY ZenonT(30), <3>1 DEF Record, Ops
  <2>4. wal' \in Seq(Record) /\ synced' \in Nat
    <3> DEFINE p == SubSeq(wal, 1, n)
               x == [wal[n + 1] EXCEPT !.op = "Torn"]
    <3>1. wal' = p \/ (x \in Record /\ wal' = Append(p, x))
      BY ZenonT(30), <2>1, <2>3
    <3>2. p \in Seq(Record)
      BY ZenonT(30), <2>2
    <3> HIDE DEF p, x
    <3>3. wal' = p => wal' \in Seq(Record)
      BY ZenonT(30), <3>2
    <3>4. ASSUME x \in Record, wal' = Append(p, x) PROVE wal' \in Seq(Record)
      <4>1. Append(p, x) \in Seq(Record)
        BY <3>2, <3>4
      <4> QED
        BY ZenonT(30), <3>4, <4>1
    <3>5. synced' \in Nat
      BY <2>1, <2>2
    <3> QED
      BY ZenonT(30), <3>1, <3>3, <3>4, <3>5
  <2> QED
    BY <1>11, <2>4 DEF PowerLoss, Die
<1>12. CASE Load \/ DropOld
  BY ZenonT(30), <1>12 DEF Load, DropOld
<1> QED
  BY ZenonT(30), <1>1, <1>2, <1>3, <1>4, <1>5, <1>6, <1>7, <1>8, <1>9, <1>10, <1>11, <1>12 DEF Next

LEMMA AloneStep == LogInv /\ [Next]_vars => AloneInStartup'
<1> SUFFICES ASSUME LogInv, [Next]_vars PROVE AloneInStartup'
  BY ZenonT(30)
<1> USE DEF LogInv, LogType, AloneInStartup, memory, log, disk, tasks, checkpointer,
        history, bounds, Finish
<1>1. CASE UNCHANGED vars
  BY ZenonT(30), <1>1 DEF vars
<1>2. ASSUME NEW t \in Threads, NEW e \in Events, Publish(t, e) \/ Delete(t, e)
      PROVE  AloneInStartup'
  BY ZenonT(30), <1>2 DEF Publish, Delete, Idle
<1>3. ASSUME NEW t \in Threads, WriteRecord(t) PROVE AloneInStartup'
  BY ZenonT(30), <1>3 DEF WriteRecord
<1>4. ASSUME NEW t \in Threads, MarkDirty(t) \/ DeleteById(t) PROVE AloneInStartup'
  BY ZenonT(30), <1>4 DEF MarkDirty, DeleteById
<1>5. ASSUME NEW e \in Events, Evict(e) PROVE AloneInStartup'
  BY ZenonT(30), <1>5 DEF Evict
<1>6. CASE GroupCommit
  BY ZenonT(30), <1>6 DEF GroupCommit, ClearFlag, Fsync
<1>7. CASE Checkpoint
  <2>1. CASE Rotate
    BY ZenonT(30), <2>1 DEF Rotate
  <2>2. CASE RenameSnapshot
    BY ZenonT(30), <2>2 DEF RenameSnapshot
  <2>3. CASE SnapshotFails \/ RemoveOld
    BY ZenonT(30), <2>3 DEF SnapshotFails, RemoveOld, CheckpointOver
  <2>4. CASE \E e \in Events : Visit(e)
    BY ZenonT(30), <2>4 DEF Visit
  <2> QED
    BY ZenonT(30), <1>7, <2>1, <2>2, <2>3, <2>4 DEF Checkpoint
<1>8. CASE Crash \/ PowerLoss
  BY ZenonT(30), <1>8 DEF Crash, PowerLoss, Die
<1>9. CASE Load
  BY ZenonT(30), <1>9 DEF Load
<1>10. CASE DropOld
  BY ZenonT(30), <1>10 DEF DropOld
<1> QED
  BY ZenonT(30), <1>1, <1>2, <1>3, <1>4, <1>5, <1>6, <1>7, <1>8, <1>9, <1>10 DEF Next

LEMMA TrackedStep == LogInv /\ LogType' /\ [Next]_vars => UnsyncedIsTracked'
<1> SUFFICES ASSUME LogInv, LogType', [Next]_vars PROVE UnsyncedIsTracked'
  BY ZenonT(30)
<1> USE DEF LogInv, LogType, AloneInStartup, UnsyncedIsTracked, memory, log, disk, tasks,
        checkpointer, history, bounds, Finish
<1>1. CASE UNCHANGED vars
  BY ZenonT(30), <1>1 DEF vars
<1>2. ASSUME NEW t \in Threads, NEW e \in Events, Publish(t, e) \/ Delete(t, e)
      PROVE  UnsyncedIsTracked'
  <2>1. /\ pc[t] = "idle" /\ \A u \in Threads : u # t => pc'[u] = pc[u]
        /\ UNCHANGED <<phase, wal, synced, dirty, syncer>>
    BY ZenonT(30), <1>2 DEF Publish, Delete, Idle, Start
  <2> QED
    BY ZenonT(30), <2>1
<1>3. ASSUME NEW t \in Threads, WriteRecord(t) PROVE UnsyncedIsTracked'
  BY ZenonT(30), <1>3 DEF WriteRecord
<1>4. ASSUME NEW t \in Threads, MarkDirty(t) PROVE UnsyncedIsTracked'
  BY ZenonT(30), <1>4 DEF MarkDirty
<1>5. ASSUME NEW t \in Threads, DeleteById(t) PROVE UnsyncedIsTracked'
  BY ZenonT(30), <1>5 DEF DeleteById
<1>6. ASSUME NEW e \in Events, Evict(e) PROVE UnsyncedIsTracked'
  BY ZenonT(30), <1>6 DEF Evict
<1>7. CASE GroupCommit
  BY <1>7 DEF GroupCommit, ClearFlag, Fsync
<1>8. CASE Rotate
  BY <1>8 DEF Rotate, FreshSynced
<1>9. CASE RenameSnapshot \/ \E e \in Events : Visit(e)
  BY ZenonT(30), <1>9 DEF RenameSnapshot, Visit
<1>10. CASE SnapshotFails \/ RemoveOld
  \* Startup ends here, with the empty log the rotation left.
  <2>1. CASE phase = "up"
    BY ZenonT(30), <1>10, <2>1 DEF SnapshotFails, RemoveOld, CheckpointOver
  <2>2. CASE phase = "loaded"
    <3>1. Len(wal) = 0 /\ wal' = wal /\ synced' = synced
      BY ZenonT(30), <1>10, <2>2 DEF SnapshotFails, RemoveOld
    <3> QED
      BY <3>1
  <2> QED
    BY ZenonT(30), <1>10, <2>1, <2>2 DEF SnapshotFails, RemoveOld
<1>11. CASE Crash \/ PowerLoss \/ Load
  BY ZenonT(30), <1>11 DEF Crash, PowerLoss, Die, Load
<1>12. CASE DropOld
  <2>1. UNCHANGED <<wal, synced, dirty, syncer, pc>>
    BY ZenonT(30), <1>12 DEF DropOld
  <2>2. ~HasTorn(wal) => Readable(wal) = wal
    BY ZenonT(30) DEF Readable
  <2>3. CASE snapshot \o Readable(wal_old) \o Readable(wal) = <<>>
    <3>1. ~HasTorn(wal) => snapshot \o Readable(wal_old) \o wal = <<>>
      BY ZenonT(30), <2>2, <2>3
    <3>2. ~HasTorn(wal) => Len(wal) = 0
      BY <3>1
    <3> QED
      BY <2>1, <3>2 DEF HasTorn
  <2>4. CASE snapshot \o Readable(wal_old) \o Readable(wal) # <<>>
    BY ZenonT(30), <1>12, <2>4 DEF DropOld
  <2> QED
    BY ZenonT(30), <2>3, <2>4
<1> QED
  BY ZenonT(30), <1>1, <1>2, <1>3, <1>4, <1>5, <1>6, <1>7, <1>8, <1>9, <1>10, <1>11, <1>12
     DEF Next, Checkpoint

\* No record of the log is ever forgotten by the group commit: clearing the flag
\* before the fsync is safe for any number of threads, crashes and checkpoints.
THEOREM NoForgottenRecord == Spec => []UnsyncedIsTracked
<1>1. LogInv /\ [Next]_vars => LogInv'
  BY ZenonT(30), LogTypeStep, AloneStep, TrackedStep DEF LogInv
<1>2. LogInv => UnsyncedIsTracked
  BY ZenonT(30) DEF LogInv
<1> QED
  BY <1>1, <1>2, InitLogInv, PTL DEF Spec

-----------------------------------------------------------------------------
(* Induction. *)

LEMMA NatLess ==
    \E R : /\ \A x, y : <<x, y>> \in R <=> x \in Nat /\ y \in Nat /\ x < y
           /\ IsWellFoundedOn(R, Nat)
<1> DEFINE R == OpToRel(<, Nat)
<1>1. \A x, y : <<x, y>> \in R <=> x \in Nat /\ y \in Nat /\ x < y
  BY ZenonT(30) DEF OpToRel
<1>2. IsWellFoundedOn(R, Nat)
  BY ZenonT(30), NatLessThanWellFounded
<1> HIDE DEF R
<1> QED
  BY ZenonT(30), <1>1, <1>2

\* A set of natural numbers that is not empty has a least element.
LEMMA NatMin == \A T \in SUBSET Nat : T # {} => \E x \in T : \A y \in T : x <= y
<1> SUFFICES ASSUME NEW T \in SUBSET Nat, T # {} PROVE \E x \in T : \A y \in T : x <= y
  BY ZenonT(30)
<1>1. PICK R : /\ \A x, y : <<x, y>> \in R <=> x \in Nat /\ y \in Nat /\ x < y
               /\ IsWellFoundedOn(R, Nat)
  BY ZenonT(30), NatLess
<1>2. T \subseteq Nat
  BY ZenonT(30)
<1>3. \E x \in T : \A y \in T : ~ (<<y, x>> \in R)
  <2>1. IsWellFoundedOn(R, Nat)
    BY ZenonT(30), <1>1
  <2> HIDE <1>1
  <2> QED
    BY <2>1, <1>2, WFMin, Zenon
<1>4. PICK x \in T : \A y \in T : ~ (<<y, x>> \in R)
  BY ZenonT(30), <1>3
<1>5. \A y \in T : ~ (y < x)
  BY <1>1, <1>2, <1>4, Zenon
<1>6. \A y \in T : x <= y
  BY <1>2, <1>5
<1> QED
  BY ZenonT(30), <1>6

\* Induction, with a set in the place of a predicate.
LEMMA NatInd ==
    ASSUME NEW T, 0 \in T, \A n \in Nat : n \in T => n + 1 \in T
    PROVE  \A n \in Nat : n \in T
<1> DEFINE B == {n \in Nat : n \notin T}
<1> SUFFICES ASSUME B # {} PROVE FALSE
  BY ZenonT(30)
<1>1. PICK x \in B : \A y \in B : x <= y
  <2>1. B \in SUBSET Nat
    BY ZenonT(30)
  <2> HIDE DEF B
  <2> QED
    BY ZenonT(30), <2>1, NatMin
<1>2. x # 0 /\ x \in Nat
  BY ZenonT(30)
<1>3. x - 1 \in Nat /\ x - 1 \notin B
  BY <1>1, <1>2
<1>4. (x - 1) + 1 \in T
  BY ZenonT(30), <1>3
<1> QED
  BY <1>2, <1>4

-----------------------------------------------------------------------------
(* A replay goes through the records one after the other. *)

\* after is the table that Replay computes, for the first N records of s.
Table(after, s, N) ==
    after = [n \in 0 .. N |->
               IF n = 0 THEN Nothing
               ELSE CHOOSE m \in {ReplayOp(k, s[n]) : k \in {after[n - 1]}} : TRUE]

\* h[n] is what the first n records make of an empty index.
History(h, s) ==
    /\ h[0] = Nothing
    /\ \A n \in 1 .. Len(s) : h[n] = ReplayOp(h[n - 1], s[n])

LEMMA TableEntries ==
    ASSUME NEW s, NEW N \in Nat, NEW f, Table(f, s, N)
    PROVE  f[0] = Nothing /\ \A n \in 1 .. N : f[n] = ReplayOp(f[n - 1], s[n])
<1>1. \A n \in 0 .. N : f[n] = IF n = 0 THEN Nothing
        ELSE CHOOSE m \in {ReplayOp(k, s[n]) : k \in {f[n - 1]}} : TRUE
  BY ZenonT(30) DEF Table
<1>2. ASSUME NEW n \in 1 .. N PROVE f[n] = ReplayOp(f[n - 1], s[n])
  <2> DEFINE x == ReplayOp(f[n - 1], s[n])
  <2>1. {ReplayOp(k, s[n]) : k \in {f[n - 1]}} = {x}
    BY ZenonT(30)
  <2>2. f[n] = CHOOSE m \in {ReplayOp(k, s[n]) : k \in {f[n - 1]}} : TRUE
    BY <1>1
  <2> HIDE DEF x
  <2>3. f[n] = x
    BY ZenonT(30), <2>1, <2>2
  <2> QED
    BY ZenonT(30), <2>3 DEF x
<1> QED
  BY <1>1, <1>2

LEMMA TableExists == ASSUME NEW s, NEW N \in Nat PROVE \E f : Table(f, s, N)
<1> DEFINE T == {N_ \in Nat : \E f : Table(f, s, N_)}
           Entry(f, n) == IF n = 0 THEN Nothing
                          ELSE CHOOSE m \in {ReplayOp(k, s[n]) : k \in {f[n - 1]}} : TRUE
<1>1. 0 \in T
  <2> DEFINE f == [n \in 0 .. 0 |-> Nothing]
  <2>1. \A n \in 0 .. 0 : n = 0
    OBVIOUS
  <2>2. Table(f, s, 0)
    BY ZenonT(30), <2>1 DEF Table
  <2> QED
    BY ZenonT(30), <2>2
<1>2. ASSUME NEW M \in Nat, M \in T PROVE M + 1 \in T
  <2>1. PICK f : Table(f, s, M)
    BY ZenonT(30), <1>2
  <2> DEFINE g == [n \in 0 .. M + 1 |-> IF n <= M THEN f[n] ELSE Entry(f, n)]
  <2>0. f = [n \in 0 .. M |-> Entry(f, n)]
    BY ZenonT(30), <2>1 DEF Table
  <2> HIDE DEF Entry
  <2>2. \A n \in 0 .. M : g[n] = f[n] /\ f[n] = Entry(f, n)
    <3>1. \A n \in 0 .. M : n \in 0 .. M + 1 /\ n <= M
      OBVIOUS
    <3>2. \A n \in 0 .. M : f[n] = Entry(f, n)
      BY ZenonT(30), <2>0
    <3> QED
      BY ZenonT(30), <3>1, <3>2
  <2>3. ASSUME NEW n \in 0 .. M + 1 PROVE g[n] = Entry(f, n) /\ Entry(f, n) = Entry(g, n)
    <3>1. CASE n = 0
      <4>1. 0 \in 0 .. M /\ Entry(f, 0) = Nothing /\ Entry(g, 0) = Nothing
        BY DEF Entry
      <4> HIDE DEF g
      <4> QED
        BY ZenonT(30), <2>2, <3>1, <4>1
    <3>2. CASE n # 0
      <4>1. n - 1 \in 0 .. M
        BY <3>2
      <4>2. g[n - 1] = f[n - 1]
        BY ZenonT(30), <2>2, <4>1
      <4>3. Entry(f, n) = Entry(g, n)
        <5> HIDE DEF g
        <5> QED
          BY ZenonT(30), <4>2 DEF Entry
      <4>4. g[n] = Entry(f, n)
        <5>1. n <= M => n \in 0 .. M
          OBVIOUS
        <5> QED
          BY ZenonT(30), <2>2, <5>1
      <4> QED
        BY ZenonT(30), <4>3, <4>4
    <3> QED
      BY ZenonT(30), <3>1, <3>2
  <2>4. g = [n \in 0 .. M + 1 |-> g[n]]
    BY ZenonT(30)
  <2>5. g = [n \in 0 .. M + 1 |-> Entry(g, n)]
    <3> HIDE DEF g
    <3> QED
      BY ZenonT(30), <2>3, <2>4
  <2>6. Table(g, s, M + 1)
    <3> HIDE DEF g
    <3> QED
      BY ZenonT(30), <2>5 DEF Table, Entry
  <2> QED
    BY <2>6
<1>3. \A M \in Nat : M \in T
  <2> HIDE DEF T
  <2> QED
    BY ZenonT(30), <1>1, <1>2, NatInd
<1> QED
  BY ZenonT(30), <1>3

LEMMA ReplayHistory ==
    ASSUME NEW S, NEW s \in Seq(S)
    PROVE  \E h : History(h, s) /\ Replay(s) = h[Len(s)]
<1> DEFINE f == CHOOSE f : Table(f, s, Len(s))
<1>1. Len(s) \in Nat
  OBVIOUS
<1>2. Table(f, s, Len(s))
  BY ZenonT(30), <1>1, TableExists
<1>3. Replay(s) = f[Len(s)]
  BY ZenonT(30) DEF Replay, Table
<1> HIDE DEF f
<1>4. History(f, s)
  BY ZenonT(30), <1>1, <1>2, TableEntries DEF History
<1> QED
  BY ZenonT(30), <1>3, <1>4

\* There is only one history.
LEMMA HistoryUnique ==
    ASSUME NEW S, NEW s \in Seq(S), NEW h, History(h, s)
    PROVE  Replay(s) = h[Len(s)]
<1>1. PICK g : History(g, s) /\ Replay(s) = g[Len(s)]
  BY ZenonT(30), ReplayHistory
<1> DEFINE T == {n \in Nat : n <= Len(s) => g[n] = h[n]}
<1>2. 0 \in T
  BY ZenonT(30), <1>1 DEF History
<1>3. ASSUME NEW n \in Nat, n \in T PROVE n + 1 \in T
  <2> SUFFICES ASSUME n + 1 <= Len(s) PROVE g[n + 1] = h[n + 1]
    OBVIOUS
  <2>1. n + 1 \in 1 .. Len(s) /\ (n + 1) - 1 = n /\ n <= Len(s)
    OBVIOUS
  <2>2. g[n + 1] = ReplayOp(g[n], s[n + 1]) /\ h[n + 1] = ReplayOp(h[n], s[n + 1])
    BY ZenonT(30), <1>1, <2>1 DEF History
  <2> QED
    BY ZenonT(30), <1>3, <2>1, <2>2
<1>4. Len(s) \in T
  <2>1. \A n \in Nat : n \in T
    <3> HIDE DEF T
    <3> QED
      BY ZenonT(30), <1>2, <1>3, NatInd
  <2> QED
    BY <2>1
<1> QED
  BY <1>1, <1>4

LEMMA ReplayEmpty == Replay(<<>>) = Nothing
<1>1. <<>> \in Seq({}) /\ Len(<<>>) = 0
  OBVIOUS
<1>2. PICK h : History(h, <<>>) /\ Replay(<<>>) = h[Len(<<>>)]
  BY ZenonT(30), <1>1, ReplayHistory
<1> QED
  BY ZenonT(30), <1>1, <1>2 DEF History

\* One more record is one more application of replay_op.
LEMMA ReplayAppend ==
    ASSUME NEW S, NEW s \in Seq(S), NEW r \in S
    PROVE  Replay(Append(s, r)) = ReplayOp(Replay(s), r)
<1> DEFINE all == Append(s, r)
           n == Len(s)
<1>1. /\ all \in Seq(S) /\ n \in Nat /\ Len(all) = n + 1
      /\ \A k \in 1 .. n : all[k] = s[k]
      /\ all[n + 1] = r
  OBVIOUS
<1> HIDE DEF all
<1>2. PICK h : History(h, all) /\ Replay(all) = h[n + 1]
  BY ZenonT(30), <1>1, ReplayHistory
<1>3. History(h, s)
  <2>1. ASSUME NEW k \in 1 .. n PROVE h[k] = ReplayOp(h[k - 1], s[k])
    <3>1. k \in 1 .. Len(all) /\ all[k] = s[k]
      BY <1>1
    <3> QED
      BY ZenonT(30), <1>2, <3>1 DEF History
  <2> QED
    BY ZenonT(30), <1>2, <2>1 DEF History
<1>4. Replay(s) = h[n]
  BY ZenonT(30), <1>3, HistoryUnique
<1>5. h[n + 1] = ReplayOp(h[n], r)
  <2>1. n + 1 \in 1 .. Len(all) /\ (n + 1) - 1 = n
    BY <1>1
  <2> QED
    BY ZenonT(30), <1>1, <1>2, <2>1 DEF History
<1> QED
  BY ZenonT(30), <1>2, <1>4, <1>5 DEF all

\* What record i establishes in Q, and the other ones keep, is true of the replay, if
\* every record keeps P.
LEMMA ReplayReaches ==
    ASSUME NEW S, NEW P, NEW Q, NEW s \in Seq(S), NEW i \in 1 .. Len(s), Nothing \in P,
           \A m \in P, r \in S : ReplayOp(m, r) \in P,
           \A m \in P, r \in S : m \in Q => ReplayOp(m, r) \in Q,
           \A m \in P : ReplayOp(m, s[i]) \in Q
    PROVE  Replay(s) \in P /\ Replay(s) \in Q
<1>1. PICK h : History(h, s) /\ Replay(s) = h[Len(s)]
  BY ZenonT(30), ReplayHistory
<1> DEFINE T == {k \in Nat : k <= Len(s) => h[k] \in P /\ (i <= k => h[k] \in Q)}
<1>2. 0 \in T
  BY <1>1 DEF History
<1>3. ASSUME NEW k \in Nat, k \in T PROVE k + 1 \in T
  <2> SUFFICES ASSUME k + 1 <= Len(s)
               PROVE  h[k + 1] \in P /\ (i <= k + 1 => h[k + 1] \in Q)
    OBVIOUS
  <2>1. k + 1 \in 1 .. Len(s) /\ (k + 1) - 1 = k /\ k <= Len(s)
    OBVIOUS
  <2>2. h[k + 1] = ReplayOp(h[k], s[k + 1])
    BY ZenonT(30), <1>1, <2>1 DEF History
  <2>3. s[k + 1] \in S
    BY <2>1
  <2>4. h[k] \in P /\ (i <= k => h[k] \in Q)
    BY ZenonT(30), <1>3, <2>1
  <2>5. i <= k + 1 => i <= k \/ i = k + 1
    OBVIOUS
  <2> QED
    BY ZenonT(30), <2>2, <2>3, <2>4, <2>5
<1>4. Len(s) \in T
  <2>1. \A k \in Nat : k \in T
    <3> HIDE DEF T
    <3> QED
      BY ZenonT(30), <1>2, <1>3, NatInd
  <2> QED
    BY <2>1
<1> QED
  BY <1>1, <1>4

\* What every record keeps is true of the replay.
LEMMA ReplayInv ==
    ASSUME NEW S, NEW P, NEW s \in Seq(S), Nothing \in P,
           \A m \in P, r \in S : ReplayOp(m, r) \in P
    PROVE  Replay(s) \in P
<1>1. CASE s = <<>>
  BY ZenonT(30), <1>1, ReplayEmpty
<1>2. CASE s # <<>>
  <2>1. 1 \in 1 .. Len(s)
    BY <1>2
  <2>2. s[1] \in S
    BY <2>1
  <2> QED
    BY ZenonT(30), <2>1, <2>2, ReplayReaches
<1> QED
  BY ZenonT(30), <1>1, <1>2

-----------------------------------------------------------------------------
(* Types. *)

\* What a replay makes, and the records that it reads.
Mem == [live : SUBSET Events, tombs : SUBSET Events, evicted : SUBSET Events]
Sound == {r \in Record : r.op # "Torn"}

LEMMA IngestType ==
    ASSUME NEW m \in Mem, NEW e \in Events
    PROVE  /\ Ingest(m, e) \in Mem
           /\ Ingest(m, e).tombs = m.tombs
           /\ Ingest(m, e).live \cup Ingest(m, e).evicted =
                m.evicted \cup (IF Accepts(m.live, m.tombs, e)
                                  THEN (m.live \ Versions(m.live, e)) \cup {e} ELSE m.live)
           /\ Ingest(m, e).live \subseteq
                (IF Accepts(m.live, m.tombs, e)
                   THEN (m.live \ Versions(m.live, e)) \cup {e} ELSE m.live)
<1> DEFINE S == IF Accepts(m.live, m.tombs, e)
                  THEN (m.live \ Versions(m.live, e)) \cup {e} ELSE m.live
           kept == IF LoadThreshold > 0 /\ Cardinality(S) > LoadThreshold
                     THEN Newest(S, LoadTarget) ELSE S
<1>1. Ingest(m, e) = [m EXCEPT !.live = kept, !.evicted = @ \cup (S \ kept)]
  BY ZenonT(30) DEF Ingest
<1>2. S \subseteq Events
  BY ZenonT(30) DEF Mem
<1> HIDE DEF S
<1>3. kept \subseteq S
  BY ZenonT(30) DEF Newest
<1> HIDE DEF kept
<1>4. /\ Ingest(m, e) \in Mem
      /\ Ingest(m, e).tombs = m.tombs
      /\ Ingest(m, e).live = kept
      /\ Ingest(m, e).evicted = m.evicted \cup (S \ kept)
  BY ZenonT(30), <1>1, <1>2, <1>3 DEF Mem
<1>5. Ingest(m, e).live \cup Ingest(m, e).evicted = m.evicted \cup S
  BY ZenonT(30), <1>3, <1>4
<1> QED
  BY ZenonT(30), <1>3, <1>4, <1>5 DEF S

LEMMA ReplayOpType ==
    ASSUME NEW m \in Mem, NEW r \in Sound
    PROVE  /\ ReplayOp(m, r) \in Mem
           /\ r.op = "Insert" => ReplayOp(m, r) = Ingest(m, r.id)
           /\ r.op \in {"Delete", "Tombstone"} =>
                /\ ReplayOp(m, r).live = m.live \ {r.id}
                /\ ReplayOp(m, r).evicted = m.evicted
           /\ r.op = "Delete" => ReplayOp(m, r).tombs = m.tombs
           /\ r.op = "Tombstone" => ReplayOp(m, r).tombs = m.tombs \cup {r.id}
           /\ r.op \in {"Insert", "Delete", "Tombstone"} /\ r.id \in Events
<1>1. r.op \in {"Insert", "Delete", "Tombstone"} /\ r.id \in Events
  BY ZenonT(30) DEF Sound, Record, Ops
<1>2. CASE r.op = "Insert"
  <2>1. ReplayOp(m, r) = Ingest(m, r.id)
    BY ZenonT(30), <1>2 DEF ReplayOp
  <2>2. ReplayOp(m, r) \in Mem
    BY ZenonT(30), <1>1, <2>1, IngestType
  <2>3. r.op # "Delete" /\ r.op # "Tombstone"
    BY ZenonT(30), <1>2
  <2> QED
    BY <1>1, <2>1, <2>2, <2>3, ZenonT(30)
<1>3. CASE r.op = "Delete"
  <2>1. ReplayOp(m, r) = [m EXCEPT !.live = @ \ {r.id}]
    BY ZenonT(30), <1>3 DEF ReplayOp
  <2>2. /\ ReplayOp(m, r) \in Mem /\ ReplayOp(m, r).live = m.live \ {r.id}
        /\ ReplayOp(m, r).evicted = m.evicted /\ ReplayOp(m, r).tombs = m.tombs
    BY ZenonT(30), <2>1 DEF Mem
  <2>3. r.op # "Insert" /\ r.op # "Tombstone"
    BY ZenonT(30), <1>3
  <2> QED
    BY <1>1, <2>2, <2>3, ZenonT(30)
<1>4. CASE r.op = "Tombstone"
  <2>1. ReplayOp(m, r) = [m EXCEPT !.live = @ \ {r.id}, !.tombs = @ \cup {r.id}]
    BY ZenonT(30), <1>4 DEF ReplayOp
  <2>2. /\ ReplayOp(m, r) \in Mem /\ ReplayOp(m, r).live = m.live \ {r.id}
        /\ ReplayOp(m, r).evicted = m.evicted /\ ReplayOp(m, r).tombs = m.tombs \cup {r.id}
    <3> DEFINE A == m.live \ {r.id}
               B == m.tombs \cup {r.id}
    <3>1. A \subseteq Events /\ B \subseteq Events
      BY ZenonT(30), <1>1 DEF Mem
    <3>2. ReplayOp(m, r) = [m EXCEPT !.live = A, !.tombs = B]
      BY ZenonT(30), <2>1 DEF Mem
    <3> HIDE DEF A, B
    <3>3. /\ ReplayOp(m, r) \in Mem /\ ReplayOp(m, r).live = A
          /\ ReplayOp(m, r).evicted = m.evicted /\ ReplayOp(m, r).tombs = B
      BY ZenonT(30), <3>1, <3>2 DEF Mem
    <3> QED
      BY ZenonT(30), <3>3 DEF A, B
  <2>3. r.op # "Insert" /\ r.op # "Delete"
    BY ZenonT(30), <1>4
  <2> QED
    BY <1>1, <2>2, <2>3, ZenonT(30)
<1> QED
  BY <1>1, <1>2, <1>3, <1>4, ZenonT(30)

LEMMA NothingType == Nothing \in Mem
BY ZenonT(30) DEF Nothing, Mem

\* A replay ends before half a record.
LEMMA ReadableSound ==
    ASSUME NEW s \in Seq(Record)
    PROVE  Readable(s) \in Seq(Sound) /\ (~HasTorn(s) => Readable(s) = s)
<1>1. CASE ~HasTorn(s)
  <2>1. \A i \in 1 .. Len(s) : s[i] \in Sound
    BY <1>1 DEF HasTorn, Sound
  <2>2. s \in Seq(Sound)
    BY <2>1
  <2> QED
    BY ZenonT(30), <1>1, <2>2 DEF Readable
<1>2. CASE HasTorn(s)
  <2> DEFINE I == {i \in 1 .. Len(s) : s[i].op = "Torn"}
             IsCut(n) == s[n + 1].op = "Torn" /\ \A i \in 1 .. n : s[i].op # "Torn"
             n == CHOOSE n \in 0 .. Len(s) - 1 : IsCut(n)
  <2>1. I # {} /\ I \in SUBSET Nat
    BY <1>2 DEF HasTorn
  <2>2. PICK k \in I : \A i \in I : k <= i
    <3> HIDE DEF I
    <3> QED
      BY ZenonT(30), <2>1, NatMin
  <2>3. k - 1 \in 0 .. Len(s) - 1 /\ IsCut(k - 1)
    BY <2>2
  <2>4. n \in 0 .. Len(s) - 1 /\ IsCut(n)
    <3> HIDE DEF IsCut
    <3> QED
      BY ZenonT(30), <2>3
  <2>5. Readable(s) = SubSeq(s, 1, n)
    BY ZenonT(30), <1>2 DEF Readable
  <2> HIDE DEF n
  <2>6. SubSeq(s, 1, n) \in Seq(Record) /\ Len(SubSeq(s, 1, n)) = n
    BY <2>4
  <2>7. ASSUME NEW i \in 1 .. n PROVE SubSeq(s, 1, n)[i] \in Sound
    <3>1. SubSeq(s, 1, n)[i] = s[i] /\ i \in 1 .. Len(s)
      BY <2>4
    <3>2. s[i] \in Record /\ s[i].op # "Torn"
      BY <2>4, <3>1
    <3> QED
      BY ZenonT(30), <3>1, <3>2 DEF Sound
  <2>8. SubSeq(s, 1, n) \in Seq(Sound)
    BY <2>6, <2>7
  <2> QED
    BY ZenonT(30), <1>2, <2>5, <2>8
<1> QED
  BY ZenonT(30), <1>1, <1>2

LEMMA InsertionsSound ==
    ASSUME NEW s \in Seq(Events)
    PROVE  /\ Insertions(s) \in Seq(Sound) /\ Len(Insertions(s)) = Len(s)
           /\ \A i \in 1 .. Len(s) : Insertions(s)[i] = Rec("Insert", s[i])
<1>1. \A e \in Events : Rec("Insert", e) \in Sound
  BY ZenonT(30) DEF Rec, Sound, Record, Ops
<1>2. Insertions(s) = [i \in 1 .. Len(s) |-> Rec("Insert", s[i])]
  BY DEF Insertions
<1>3. \A i \in 1 .. Len(s) : Rec("Insert", s[i]) \in Sound
  BY <1>1
<1> QED
  BY <1>2, <1>3

\* The records that a restart reads, in the order of the replay.
Entries(lines, old, new) == Insertions(lines) \o Readable(old) \o Readable(new)

LEMMA EntriesSound ==
    ASSUME NEW lines \in Seq(Events), NEW old \in Seq(Record), NEW new \in Seq(Record)
    PROVE  Entries(lines, old, new) \in Seq(Sound)
BY ReadableSound, InsertionsSound DEF Entries

LEMMA RestoreType ==
    ASSUME NEW lines \in Seq(Events), NEW old \in Seq(Record), NEW new \in Seq(Record)
    PROVE  Restore(lines, old, new) \in Mem
<1>1. Entries(lines, old, new) \in Seq(Sound)
  BY ZenonT(30), EntriesSound
<1>2. \A m \in Mem, r \in Sound : ReplayOp(m, r) \in Mem
  BY ZenonT(30), ReplayOpType
<1>3. Replay(Entries(lines, old, new)) \in Mem
  BY ZenonT(30), <1>1, <1>2, NothingType, ReplayInv
<1> QED
  BY ZenonT(30), <1>3 DEF Restore, Entries

\* restored is what a restart would make of the files.
RestoredIs == restored = Restore(snapshot, wal_old, wal)

MemoryType ==
    /\ live \subseteq Events /\ tombs \subseteq Events
    /\ acked \subseteq Events /\ raced \subseteq Events /\ durable \subseteq acked

DiskType ==
    /\ snapshot \in Seq(Events) /\ wal_old \in Seq(Record)
    /\ synced \in 0 .. Len(wal)
    /\ unvisited \subseteq Events /\ temp \in Seq(Events)

ControlType ==
    /\ dirty \in BOOLEAN
    /\ op \in [Threads -> {None, "insert", "delete"}]
    /\ ev \in [Threads -> Events \cup {None}]
    /\ syncer \in {"idle", "sync"}
    /\ ckpt \in {"idle", "rotate", "scan", "remove"}
    /\ \A t \in Threads : pc[t] # "idle" => op[t] \in {"insert", "delete"} /\ ev[t] \in Events

CountType ==
    /\ calls \in 0 .. MaxCalls /\ checkpoints \in 0 .. MaxCheckpoints
    /\ crashes \in 0 .. MaxCrashes

TypeInv == LogInv /\ MemoryType /\ DiskType /\ ControlType /\ CountType /\ RestoredIs

LEMMA TypeInvTypeOK == TypeInv => TypeOK
<1> SUFFICES ASSUME TypeInv PROVE TypeOK
  BY ZenonT(30)
<1>1. restored \in Mem
  BY ZenonT(30), RestoreType DEF TypeInv, DiskType, LogInv, LogType, RestoredIs
<1> QED
  BY ZenonT(30), <1>1 DEF TypeInv, TypeOK, LogInv, LogType, AloneInStartup, MemoryType, DiskType,
     ControlType, CountType, Mem

LEMMA InitTypeInv == Init => TypeInv
<1> SUFFICES ASSUME Init PROVE TypeInv
  BY ZenonT(30)
<1>1. RestoredIs
  <2>1. Insertions(<<>>) = <<>> /\ Readable(<<>>) = <<>>
    <3>1. ~HasTorn(<<>>)
      BY DEF HasTorn
    <3>2. <<>> \in Seq(Events) /\ <<>> \in Seq(Record) /\ Len(<<>>) = 0
      OBVIOUS
    <3>3. Insertions(<<>>) \in Seq(Sound) /\ Len(Insertions(<<>>)) = 0
      BY ZenonT(30), <3>2, InsertionsSound
    <3> QED
      BY <3>1, <3>2, <3>3, ReadableSound
  <2>2. Insertions(<<>>) \o Readable(<<>>) \o Readable(<<>>) = <<>>
    BY <2>1
  <2> QED
    BY ZenonT(30), <2>2, ReplayEmpty DEF Init, RestoredIs, Restore
<1>2. MemoryType /\ CountType
  BY ConstantsAssumption DEF Init, MemoryType, CountType
<1>3. DiskType
  BY DEF Init, DiskType
<1>4. ControlType
  BY ZenonT(30) DEF Init, ControlType
<1> QED
  BY ZenonT(30), <1>1, <1>2, <1>3, <1>4, InitLogInv DEF TypeInv

LEMMA RestoredStep == RestoredIs /\ [Next]_vars => RestoredIs'
<1> SUFFICES ASSUME RestoredIs, [Next]_vars PROVE RestoredIs'
  BY ZenonT(30)
<1> USE DEF RestoredIs, FilesChange, log, disk
<1>1. CASE UNCHANGED vars
  BY ZenonT(30), <1>1 DEF vars
<1>2. ASSUME NEW t \in Threads, NEW e \in Events, Publish(t, e) \/ Delete(t, e)
      PROVE  RestoredIs'
  BY ZenonT(30), <1>2 DEF Publish, Delete
<1>3. ASSUME NEW t \in Threads, WriteRecord(t) PROVE RestoredIs'
  BY ZenonT(30), <1>3 DEF WriteRecord
<1>4. ASSUME NEW t \in Threads, MarkDirty(t) \/ DeleteById(t) PROVE RestoredIs'
  BY ZenonT(30), <1>4 DEF MarkDirty, DeleteById
<1>5. ASSUME NEW e \in Events, Evict(e) PROVE RestoredIs'
  BY ZenonT(30), <1>5 DEF Evict
<1>6. CASE GroupCommit
  BY ZenonT(30), <1>6 DEF GroupCommit, ClearFlag, Fsync
<1>7. CASE Rotate \/ RenameSnapshot \/ RemoveOld
  BY ZenonT(30), <1>7 DEF Rotate, RenameSnapshot, RemoveOld
<1>8. CASE SnapshotFails \/ \E e \in Events : Visit(e)
  BY ZenonT(30), <1>8 DEF SnapshotFails, Visit
<1>9. CASE Crash \/ PowerLoss
  BY ZenonT(30), <1>9 DEF Crash, PowerLoss, Die
<1>10. CASE Load \/ DropOld
  BY ZenonT(30), <1>10 DEF Load, DropOld
<1> QED
  BY ZenonT(30), <1>1, <1>2, <1>3, <1>4, <1>5, <1>6, <1>7, <1>8, <1>9, <1>10 DEF Next, Checkpoint

\* The call of t is about x.
Concerns(t, x) == x = ev[t] \/ \E i \in DOMAIN recs[t] : x = recs[t][i].id

LEMMA InFlightIs == \A x : x \in InFlight <=> x # None /\ \E t \in Threads : Concerns(t, x)
<1> DEFINE A(t) == {ev[t]} \cup {recs[t][i].id : i \in DOMAIN recs[t]}
<1>1. ASSUME NEW x, NEW t PROVE x \in A(t) <=> Concerns(t, x)
  BY ZenonT(30) DEF Concerns
<1>2. InFlight = (UNION {A(t) : t \in Threads}) \ {None}
  BY ZenonT(30) DEF InFlight
<1> HIDE DEF A
<1>3. \A x : x \in InFlight <=> x # None /\ \E t \in Threads : x \in A(t)
  BY ZenonT(30), <1>2
<1> QED
  BY ZenonT(30), <1>1, <1>3

LEMMA InFlightEvents == TypeInv => InFlight \subseteq Events
<1> SUFFICES ASSUME TypeInv, NEW x \in InFlight PROVE x \in Events
  BY ZenonT(30)
<1>1. recs \in [Threads -> Seq(Record)] /\ ev \in [Threads -> Events \cup {None}]
  BY ZenonT(30) DEF TypeInv, LogInv, LogType, ControlType
<1>2. PICK t \in Threads : x # None /\ Concerns(t, x)
  BY ZenonT(30), InFlightIs
<1>3. ASSUME NEW i \in DOMAIN recs[t] PROVE recs[t][i] \in Record
  BY <1>1
<1>4. \A i \in DOMAIN recs[t] : recs[t][i].id \in Events
  BY ZenonT(30), <1>3 DEF Record
<1>5. ev[t] \in Events \cup {None}
  BY ZenonT(30), <1>1
<1> QED
  BY ZenonT(30), <1>2, <1>4, <1>5 DEF Concerns

LEMMA MemoryTypeStep == TypeInv /\ [Next]_vars => MemoryType'
<1> SUFFICES ASSUME TypeInv, [Next]_vars PROVE MemoryType'
  BY ZenonT(30)
<1>0. MemoryType /\ DiskType /\ ControlType /\ LogType
  BY ZenonT(30) DEF TypeInv, LogInv
<1> USE DEF MemoryType, memory, history, Forget
<1>1. CASE UNCHANGED vars
  BY ZenonT(30), <1>0, <1>1 DEF vars
<1>2. ASSUME NEW t \in Threads, NEW e \in Events, Publish(t, e) \/ Delete(t, e)
      PROVE  MemoryType'
  BY ZenonT(30), <1>0, <1>2 DEF Publish, Delete
<1>3. ASSUME NEW t \in Threads, WriteRecord(t) PROVE MemoryType'
  BY ZenonT(30), <1>0, <1>3 DEF WriteRecord
<1>4. ASSUME NEW t \in Threads, MarkDirty(t) PROVE MemoryType'
  BY ZenonT(30), <1>0, <1>4 DEF MarkDirty
<1>5. ASSUME NEW t \in Threads, DeleteById(t) PROVE MemoryType'
  <2>1. ev[t] \in Events
    BY ZenonT(30), <1>0, <1>5 DEF ControlType, DeleteById
  <2> QED
    BY ZenonT(30), <1>0, <1>5, <2>1 DEF DeleteById
<1>6. ASSUME NEW e \in Events, Evict(e) PROVE MemoryType'
  BY ZenonT(30), <1>0, <1>6 DEF Evict
<1>7. CASE GroupCommit
  BY ZenonT(30), <1>0, <1>7 DEF GroupCommit, ClearFlag, Fsync
<1>8. CASE Checkpoint
  <2>1. Racing \subseteq Events
    BY ZenonT(30), InFlightEvents DEF Racing
  <2>2. CASE Rotate
    BY ZenonT(30), <1>0, <2>1, <2>2 DEF Rotate
  <2> QED
    BY ZenonT(30), <1>0, <1>8, <2>2 DEF Checkpoint, RenameSnapshot, RemoveOld, SnapshotFails, Visit
<1>9. CASE Crash \/ PowerLoss
  BY ZenonT(30), <1>0, <1>9 DEF Crash, PowerLoss, Die
<1>10. CASE Load
  <2>1. Restore(snapshot, wal_old, wal) \in Mem
    BY ZenonT(30), <1>0, RestoreType DEF DiskType, LogType
  <2> QED
    BY ZenonT(30), <1>0, <1>10, <2>1 DEF Load, Mem
<1>11. CASE DropOld
  BY ZenonT(30), <1>0, <1>11 DEF DropOld
<1> QED
  BY ZenonT(30), <1>1, <1>2, <1>3, <1>4, <1>5, <1>6, <1>7, <1>8, <1>9, <1>10, <1>11 DEF Next

LEMMA DiskTypeStep == TypeInv /\ LogInv' /\ [Next]_vars => DiskType'
<1> SUFFICES ASSUME TypeInv, LogInv', [Next]_vars PROVE DiskType'
  BY ZenonT(30)
<1>0. DiskType /\ MemoryType /\ wal \in Seq(Record) /\ wal' \in Seq(Record)
  BY ZenonT(30) DEF TypeInv, LogInv, LogType
<1> USE DEF DiskType, log, disk, checkpointer
<1>1. CASE UNCHANGED vars
  BY ZenonT(30), <1>0, <1>1 DEF vars
<1>2. ASSUME NEW t \in Threads, NEW e \in Events, Publish(t, e) \/ Delete(t, e)
      PROVE  DiskType'
  BY ZenonT(30), <1>0, <1>2 DEF Publish, Delete
<1>3. ASSUME NEW t \in Threads, WriteRecord(t) PROVE DiskType'
  <2>1. Len(wal') = Len(wal) + 1
    BY <1>0, <1>3 DEF WriteRecord
  <2> QED
    BY <1>0, <1>3, <2>1 DEF WriteRecord
<1>4. ASSUME NEW t \in Threads, MarkDirty(t) \/ DeleteById(t) PROVE DiskType'
  BY ZenonT(30), <1>0, <1>4 DEF MarkDirty, DeleteById
<1>5. ASSUME NEW e \in Events, Evict(e) PROVE DiskType'
  BY ZenonT(30), <1>0, <1>5 DEF Evict
<1>6. CASE GroupCommit
  BY <1>0, <1>6 DEF GroupCommit, ClearFlag, Fsync
<1>7. CASE Rotate
  BY <1>0, <1>7 DEF Rotate, FreshSynced
<1>8. CASE RenameSnapshot \/ RemoveOld \/ SnapshotFails
  <2>1. <<>> \in Seq(Events) /\ <<>> \in Seq(Record)
    OBVIOUS
  <2>2. /\ snapshot' \in {snapshot, temp} /\ temp' \in {temp, <<>>}
        /\ wal_old' \in {wal_old, <<>>} /\ unvisited' \in {unvisited, {}}
        /\ synced' = synced /\ wal' = wal
    BY ZenonT(30), <1>8 DEF RenameSnapshot, RemoveOld, SnapshotFails, CheckpointOver
  <2> QED
    BY ZenonT(30), <1>0, <2>1, <2>2
<1>9. ASSUME NEW e \in Events, Visit(e) PROVE DiskType'
  <2>1. Append(temp, e) \in Seq(Events)
    BY <1>0
  <2> QED
    BY ZenonT(30), <1>0, <1>9, <2>1 DEF Visit
<1>10. CASE Crash
  BY <1>0, <1>10 DEF Crash, Die
<1>11. CASE PowerLoss
  <2>1. PICK n \in synced .. Len(wal) :
          \/ wal' = SubSeq(wal, 1, n) /\ synced' = n
          \/ /\ n < Len(wal) /\ synced' = n + 1
             /\ wal' = Append(SubSeq(wal, 1, n), [wal[n + 1] EXCEPT !.op = "Torn"])
    BY ZenonT(30), <1>11 DEF PowerLoss
  <2>2. SubSeq(wal, 1, n) \in Seq(Record) /\ n \in Nat /\ Len(SubSeq(wal, 1, n)) = n
    BY <1>0
  <2>3. synced' \in 0 .. Len(wal')
    <3> DEFINE p == SubSeq(wal, 1, n)
               x == [wal[n + 1] EXCEPT !.op = "Torn"]
    <3>1. p \in Seq(Record) /\ Len(p) = n
      BY ZenonT(30), <2>2
    <3>2. (wal' = p /\ synced' = n) \/ (wal' = Append(p, x) /\ synced' = n + 1)
      BY ZenonT(30), <2>1
    <3> HIDE DEF p, x
    <3>3. Len(Append(p, x)) = n + 1
      BY <3>1
    <3> QED
      BY <2>2, <3>1, <3>2, <3>3
  <2> QED
    BY <1>0, <1>11, <2>3 DEF PowerLoss, Die
<1>12. CASE Load \/ DropOld
  <2>1. wal_old' \in {wal_old, <<>>} /\ UNCHANGED <<snapshot, wal, synced, unvisited, temp>>
    BY ZenonT(30), <1>12 DEF Load, DropOld
  <2>2. <<>> \in Seq(Record)
    OBVIOUS
  <2> QED
    BY ZenonT(30), <1>0, <2>1, <2>2
<1>13. CASE Checkpoint
  BY ZenonT(30), <1>7, <1>8, <1>9, <1>13 DEF Checkpoint
<1> QED
  BY ZenonT(30), <1>1, <1>2, <1>3, <1>4, <1>5, <1>6, <1>10, <1>11, <1>12, <1>13 DEF Next

LEMMA ControlTypeStep == TypeInv /\ [Next]_vars => ControlType'
<1> SUFFICES ASSUME TypeInv, [Next]_vars PROVE ControlType'
  BY ZenonT(30)
<1>0. ControlType /\ pc \in [Threads -> {"idle", "append", "mark", "remove"}]
  BY ZenonT(30) DEF TypeInv, LogInv, LogType
<1> USE DEF ControlType, tasks, checkpointer, Finish
<1>1. CASE UNCHANGED vars
  BY ZenonT(30), <1>0, <1>1 DEF vars
<1>2. ASSUME NEW t \in Threads, NEW e \in Events, Publish(t, e) PROVE ControlType'
  <2>1. CASE Accepts(live, tombs, e)
    <3>1. /\ pc' = [pc EXCEPT ![t] = "append"]
          /\ op' = [op EXCEPT ![t] = "insert"] /\ ev' = [ev EXCEPT ![t] = e]
          /\ UNCHANGED <<dirty, syncer, ckpt>>
      BY ZenonT(30), <1>2, <2>1 DEF Publish, Start
    <3> QED
      BY ZenonT(30), <1>0, <3>1
  <2>2. CASE ~Accepts(live, tombs, e)
    BY ZenonT(30), <1>0, <1>2, <2>2 DEF Publish
  <2> QED
    BY ZenonT(30), <2>1, <2>2
<1>3. ASSUME NEW t \in Threads, NEW e \in Events, Delete(t, e) PROVE ControlType'
  <2>1. /\ pc' = [pc EXCEPT ![t] = "append"]
        /\ op' = [op EXCEPT ![t] = "delete"] /\ ev' = [ev EXCEPT ![t] = e]
        /\ UNCHANGED <<dirty, syncer, ckpt>>
    BY ZenonT(30), <1>3 DEF Delete, Start
  <2> QED
    BY ZenonT(30), <1>0, <2>1
<1>4. ASSUME NEW t \in Threads, WriteRecord(t) PROVE ControlType'
  BY ZenonT(30), <1>0, <1>4 DEF WriteRecord
<1>5. ASSUME NEW t \in Threads, MarkDirty(t) PROVE ControlType'
  BY ZenonT(30), <1>0, <1>5 DEF MarkDirty
<1>6. ASSUME NEW t \in Threads, DeleteById(t) PROVE ControlType'
  BY ZenonT(30), <1>0, <1>6 DEF DeleteById
<1>7. ASSUME NEW e \in Events, Evict(e) PROVE ControlType'
  BY ZenonT(30), <1>0, <1>7 DEF Evict
<1>8. CASE GroupCommit
  BY ZenonT(30), <1>0, <1>8 DEF GroupCommit, ClearFlag, Fsync
<1>9. CASE Rotate \/ RenameSnapshot
  BY ZenonT(30), <1>0, <1>9 DEF Rotate, RenameSnapshot
<1>10. CASE RemoveOld \/ SnapshotFails
  BY ZenonT(30), <1>0, <1>10 DEF RemoveOld, SnapshotFails, CheckpointOver
<1>11. CASE \E e \in Events : Visit(e)
  BY ZenonT(30), <1>0, <1>11 DEF Visit
<1>12. CASE Crash \/ PowerLoss
  BY ZenonT(30), <1>0, <1>12 DEF Crash, PowerLoss, Die
<1>13. CASE Load \/ DropOld
  BY ZenonT(30), <1>0, <1>13 DEF Load, DropOld
<1> QED
  BY ZenonT(30), <1>1, <1>2, <1>3, <1>4, <1>5, <1>6, <1>7, <1>8, <1>9, <1>10, <1>11, <1>12, <1>13
     DEF Next, Checkpoint

LEMMA CountTypeStep == TypeInv /\ [Next]_vars => CountType'
<1> SUFFICES ASSUME TypeInv, [Next]_vars PROVE CountType'
  BY ZenonT(30)
<1>0. CountType /\ MaxCalls \in Nat /\ MaxCheckpoints \in Nat /\ MaxCrashes \in Nat
  BY ZenonT(30), ConstantsAssumption DEF TypeInv
<1> USE DEF CountType, bounds
<1>1. CASE UNCHANGED vars
  BY ZenonT(30), <1>0, <1>1 DEF vars
<1>2. ASSUME NEW t \in Threads, NEW e \in Events, Publish(t, e) \/ Delete(t, e)
      PROVE  CountType'
  BY <1>0, <1>2 DEF Publish, Delete, Idle
<1>3. ASSUME NEW t \in Threads, WriteRecord(t) \/ MarkDirty(t) \/ DeleteById(t)
      PROVE  CountType'
  BY ZenonT(30), <1>0, <1>3 DEF WriteRecord, MarkDirty, DeleteById
<1>4. CASE (\E e \in Events : Evict(e)) \/ GroupCommit
  BY ZenonT(30), <1>0, <1>4 DEF Evict, GroupCommit
<1>5. CASE Checkpoint
  BY <1>0, <1>5 DEF Checkpoint, Rotate, RenameSnapshot, RemoveOld, SnapshotFails, Visit
<1>6. CASE Crash \/ PowerLoss
  BY <1>0, <1>6 DEF Crash, PowerLoss, Die
<1>7. CASE Load \/ DropOld
  BY ZenonT(30), <1>0, <1>7 DEF Load, DropOld
<1> QED
  BY ZenonT(30), <1>1, <1>2, <1>3, <1>4, <1>5, <1>6, <1>7 DEF Next

LEMMA TypeInvStep == TypeInv /\ [Next]_vars => TypeInv'
BY ZenonT(30), LogTypeStep, AloneStep, TrackedStep, RestoredStep, MemoryTypeStep, DiskTypeStep,
   ControlTypeStep, CountTypeStep DEF TypeInv, LogInv

\* The type invariant, with what it says of the history: what an fsync covered was
\* answered as stored, and the fsynced part of wal.log is a part of it.
THEOREM TypeCorrect == Spec => []TypeOK
BY InitTypeInv, TypeInvStep, TypeInvTypeOK, PTL DEF Spec

-----------------------------------------------------------------------------
(* What a restart brings back. *)

\* f is a newer version of the replaceable event e; f is e or a newer version of it.
Newer(f, e) == f \in Versions(Events, e) /\ Wins(f, e)
AtLeast(f, e) == f = e \/ Newer(f, e)

\* No two versions of one replaceable event.
Single(S) == \A e \in S : Versions(S, e) = {}

\* The events that a sequence of records inserts, and the ones it removes; the
\* events of a snapshot.
Inserted(s) == {e \in Events : \E i \in DOMAIN s : s[i] = Rec("Insert", e)}
Killed(s) ==
    {e \in Events : \E i \in DOMAIN s : s[i] \in {Rec("Delete", e), Rec("Tombstone", e)}}
Lines(s) == {e \in Events : \E i \in DOMAIN s : s[i] = e}

LEMMA WinsOrder ==
    ASSUME NEW e \in Events, NEW f \in Events, NEW g \in Events
    PROVE  /\ ~Wins(e, e)
           /\ e # f => Wins(e, f) \/ Wins(f, e)
           /\ ~(Wins(e, f) /\ Wins(f, e))
           /\ Wins(e, f) /\ Wins(f, g) => Wins(e, g)
<1>1. /\ e \in Int /\ f \in Int /\ g \in Int
      /\ CreatedAt[e] \in Int /\ CreatedAt[f] \in Int /\ CreatedAt[g] \in Int
  BY ConstantsAssumption
<1> QED
  BY <1>1 DEF Wins

LEMMA NewerOrder ==
    ASSUME NEW e \in Events, NEW f \in Events, NEW g \in Events
    PROVE  /\ Newer(f, e) <=> /\ f # e /\ KeyOf[e] # None /\ KeyOf[f] = KeyOf[e]
                              /\ Wins(f, e)
           /\ AtLeast(f, e) /\ Newer(g, f) => Newer(g, e)
           /\ Newer(f, e) /\ AtLeast(g, f) => Newer(g, e)
           /\ AtLeast(f, e) /\ AtLeast(g, f) => AtLeast(g, e)
           /\ AtLeast(f, e) /\ AtLeast(e, f) => e = f
<1>1. \A x, y \in Events : Newer(x, y) <=> /\ x # y /\ KeyOf[y] # None /\ KeyOf[x] = KeyOf[y]
                                           /\ Wins(x, y)
  BY ZenonT(30) DEF Newer, Versions
<1>2. ASSUME Newer(f, e), Newer(g, f) PROVE Newer(g, e)
  BY <1>1, <1>2, WinsOrder
<1>3. ~(Newer(f, e) /\ Newer(e, f))
  BY ZenonT(30), <1>1, WinsOrder
<1> QED
  BY ZenonT(30), <1>1, <1>2, <1>3 DEF AtLeast

\* A replay of insertions of events in I gives events in I back, not two versions of
\* one, and none that is tombstoned.
LEMMA ReplaySafe ==
    ASSUME NEW I \in SUBSET Events, NEW s \in Seq(Sound),
           \A i \in 1 .. Len(s) : s[i].op = "Insert" => s[i].id \in I
    PROVE  LET m == Replay(s)
           IN  m.live \cup m.evicted \subseteq I /\ m.live \cap m.tombs = {} /\ Single(m.live)
<1> DEFINE S == {r \in Sound : r.op = "Insert" => r.id \in I}
           P == {m \in Mem : /\ m.live \cup m.evicted \subseteq I
                             /\ m.live \cap m.tombs = {} /\ Single(m.live)}
<1>1. s \in Seq(S)
  <2>1. \A i \in 1 .. Len(s) : s[i] \in S
    OBVIOUS
  <2> HIDE DEF S
  <2> QED
    BY <2>1
<1>2. Nothing \in P
  BY ZenonT(30), NothingType DEF Nothing, Single
<1>3. ASSUME NEW m \in P, NEW r \in S PROVE ReplayOp(m, r) \in P
  <2> DEFINE n == ReplayOp(m, r)
  <2>1. m \in Mem /\ r \in Sound /\ n \in Mem /\ r.id \in Events
    BY ZenonT(30), ReplayOpType
  <2>2. CASE r.op = "Insert"
    <3> DEFINE A == IF Accepts(m.live, m.tombs, r.id)
                      THEN (m.live \ Versions(m.live, r.id)) \cup {r.id} ELSE m.live
    <3>1. n = Ingest(m, r.id)
      BY ZenonT(30), <2>1, <2>2, ReplayOpType
    <3>2. n.tombs = m.tombs /\ n.live \cup n.evicted = m.evicted \cup A /\ n.live \subseteq A
      BY <2>1, <3>1, IngestType
    <3>3. A \subseteq I /\ A \cap m.tombs = {}
      BY ZenonT(30), <2>2 DEF Accepts
    <3>4. Single(A)
      <4>1. m.live \subseteq Events
        BY ZenonT(30), <2>1 DEF Mem
      <4> QED
        BY <2>1, <4>1 DEF Single, Versions
    <3> HIDE DEF A, n
    <3>5. Single(n.live)
      BY ZenonT(30), <3>2, <3>4 DEF Single, Versions
    <3>6. m.evicted \subseteq I
      BY ZenonT(30)
    <3>7. n.live \cup n.evicted \subseteq I /\ n.live \cap n.tombs = {}
      BY ZenonT(30), <3>2, <3>3, <3>6
    <3> QED
      BY ZenonT(30), <2>1, <3>5, <3>7 DEF n
  <2>3. CASE r.op \in {"Delete", "Tombstone"}
    <3>1. /\ n.live = m.live \ {r.id} /\ n.evicted = m.evicted
          /\ n.tombs \subseteq m.tombs \cup {r.id}
      BY ZenonT(30), <2>1, <2>3, ReplayOpType
    <3> HIDE DEF n
    <3>2. Single(n.live)
      BY ZenonT(30), <3>1 DEF Single, Versions
    <3>3. m.live \cup m.evicted \subseteq I /\ m.live \cap m.tombs = {}
      BY ZenonT(30)
    <3>4. n.live \cup n.evicted \subseteq I /\ n.live \cap n.tombs = {}
      BY ZenonT(30), <3>1, <3>3
    <3> QED
      BY ZenonT(30), <2>1, <3>2, <3>4 DEF n
  <2> QED
    BY ZenonT(30), <2>1, <2>2, <2>3, ReplayOpType
<1>4. Replay(s) \in P
  <2> HIDE DEF P, S
  <2> QED
    BY ZenonT(30), <1>1, <1>2, <1>3, ReplayInv
<1> QED
  BY ZenonT(30), <1>4

\* The same of a restart, for the events that the files insert.
LEMMA RestoreSafe ==
    ASSUME NEW lines \in Seq(Events), NEW old \in Seq(Record), NEW new \in Seq(Record),
           ~HasTorn(old), ~HasTorn(new)
    PROVE  LET m == Restore(lines, old, new)
           IN  /\ m \in Mem
               /\ m.live \cup m.evicted \subseteq Lines(lines) \cup Inserted(old) \cup Inserted(new)
               /\ m.live \cap m.tombs = {} /\ Single(m.live)
<1> DEFINE I == Lines(lines) \cup Inserted(old) \cup Inserted(new)
           all == Entries(lines, old, new)
           S == {r \in Sound : r.op = "Insert" => r.id \in I}
<1>1. I \in SUBSET Events
  BY ZenonT(30) DEF Lines, Inserted
<1>2. Insertions(lines) \in Seq(S)
  <2>1. /\ Insertions(lines) \in Seq(Sound) /\ Len(Insertions(lines)) = Len(lines)
        /\ \A i \in 1 .. Len(lines) : Insertions(lines)[i] = Rec("Insert", lines[i])
    BY ZenonT(30), InsertionsSound
  <2>2. \A i \in 1 .. Len(lines) : lines[i] \in I
    BY DEF Lines
  <2> HIDE DEF I
  <2>3. \A i \in 1 .. Len(lines) : Insertions(lines)[i] \in S
    <3> SUFFICES ASSUME NEW i \in 1 .. Len(lines) PROVE Insertions(lines)[i] \in S
      BY ZenonT(30)
    <3>1. Insertions(lines)[i] \in Sound
      BY <2>1
    <3>2. Insertions(lines)[i] = Rec("Insert", lines[i]) /\ lines[i] \in I
      BY <2>1, <2>2, ZenonT(30)
    <3>3. Rec("Insert", lines[i]).id = lines[i]
      BY ZenonT(30) DEF Rec
    <3> QED
      BY ZenonT(30), <3>1, <3>2, <3>3
  <2> HIDE DEF S
  <2> QED
    BY <2>1, <2>3
<1>3. ASSUME NEW s \in Seq(Record), ~HasTorn(s), Inserted(s) \subseteq I
      PROVE  Readable(s) \in Seq(S)
  <2>1. Readable(s) = s /\ s \in Seq(Sound)
    BY ZenonT(30), <1>3, ReadableSound
  <2>2. ASSUME NEW i \in 1 .. Len(s) PROVE s[i] \in S
    <3>1. s[i] \in Sound /\ s[i] \in Record
      BY <2>1
    <3>2. ASSUME s[i].op = "Insert" PROVE s[i].id \in I
      <4>1. s[i] = Rec("Insert", s[i].id) /\ s[i].id \in Events
        BY ZenonT(30), <3>1, <3>2 DEF Record, Rec
      <4>2. s[i].id \in Inserted(s)
        BY <4>1 DEF Inserted
      <4> QED
        BY ZenonT(30), <1>3, <4>2
    <3> QED
      BY ZenonT(30), <3>1, <3>2
  <2> HIDE DEF S
  <2> QED
    BY <2>1, <2>2
<1>4. all \in Seq(S)
  <2>1. Readable(old) \in Seq(S) /\ Readable(new) \in Seq(S)
    BY ZenonT(30), <1>3
  <2> HIDE DEF S
  <2> QED
    BY <1>2, <2>1 DEF Entries
<1>5. all \in Seq(Sound)
  BY ZenonT(30), EntriesSound
<1>6. \A i \in 1 .. Len(all) : all[i].op = "Insert" => all[i].id \in I
  BY <1>4
<1>7. Restore(lines, old, new) = Replay(all)
  BY ZenonT(30) DEF Restore, Entries
<1> HIDE DEF all, I
<1> QED
  BY ZenonT(30), <1>1, <1>5, <1>6, <1>7, ReplaySafe, RestoreType DEF I

\* An event that is inserted, and no version of which from e on is removed, is covered.
LEMMA ReplayCovers ==
    ASSUME NEW e \in Events, NEW s \in Seq(Sound), NEW i \in 1 .. Len(s),
           s[i] = Rec("Insert", e),
           \A j \in 1 .. Len(s) : s[j].op # "Insert" => ~AtLeast(s[j].id, e)
    PROVE  Covers(Replay(s), e)
<1> DEFINE S == {r \in Sound : r.op # "Insert" => ~AtLeast(r.id, e)}
           P == {m \in Mem : e \notin m.tombs}
           Q == {m \in Mem : \E h \in m.live \cup m.evicted : AtLeast(h, e)}
<1>1. s \in Seq(S)
  <2>1. \A j \in 1 .. Len(s) : s[j] \in S
    OBVIOUS
  <2> HIDE DEF S
  <2> QED
    BY <2>1
<1>2. Nothing \in P
  BY ZenonT(30), NothingType DEF Nothing
<1>3. ASSUME NEW m \in P, NEW r \in S PROVE ReplayOp(m, r) \in P
  <2>1. m \in Mem /\ r \in Sound
    BY ZenonT(30)
  <2>2. CASE r.op = "Insert"
    <3>1. ReplayOp(m, r) \in Mem /\ ReplayOp(m, r) = Ingest(m, r.id) /\ r.id \in Events
      BY ZenonT(30), <2>1, <2>2, ReplayOpType
    <3>2. Ingest(m, r.id).tombs = m.tombs
      BY ZenonT(30), <2>1, <3>1, IngestType
    <3> QED
      BY ZenonT(30), <3>1, <3>2
  <2>3. CASE r.op = "Delete"
    BY ZenonT(30), <2>1, <2>3, ReplayOpType
  <2>4. CASE r.op = "Tombstone"
    <3>1. r.id # e
      BY ZenonT(30), <2>4 DEF AtLeast
    <3>2. ReplayOp(m, r) \in Mem /\ ReplayOp(m, r).tombs = m.tombs \cup {r.id}
      BY ZenonT(30), <2>1, <2>4, ReplayOpType
    <3> QED
      BY ZenonT(30), <3>1, <3>2
  <2> QED
    BY ZenonT(30), <2>1, <2>2, <2>3, <2>4, ReplayOpType
<1>4. ASSUME NEW m \in P, NEW r \in S, m \in Q PROVE ReplayOp(m, r) \in Q
  <2> DEFINE n == ReplayOp(m, r)
  <2>1. m \in Mem /\ r \in Sound /\ n \in Mem /\ r.id \in Events
    BY ZenonT(30), ReplayOpType
  <2>2. PICK h \in m.live \cup m.evicted : AtLeast(h, e)
    BY ZenonT(30), <1>4
  <2>3. h \in Events
    BY ZenonT(30), <2>1 DEF Mem
  <2>4. CASE r.op = "Insert"
    <3> DEFINE A == IF Accepts(m.live, m.tombs, r.id)
                      THEN (m.live \ Versions(m.live, r.id)) \cup {r.id} ELSE m.live
    <3>1. n = Ingest(m, r.id)
      BY ZenonT(30), <2>1, <2>4, ReplayOpType
    <3>2. n.live \cup n.evicted = m.evicted \cup A
      BY ZenonT(30), <2>1, <3>1, IngestType
    <3>3. CASE h \in m.evicted \cup A
      BY ZenonT(30), <2>1, <2>2, <3>2, <3>3
    <3>4. CASE h \notin m.evicted \cup A
      <4>1. Accepts(m.live, m.tombs, r.id) /\ h \in Versions(m.live, r.id)
        BY ZenonT(30), <2>2, <3>4
      <4>2. Wins(r.id, h) /\ h # r.id /\ KeyOf[r.id] # None /\ KeyOf[h] = KeyOf[r.id]
        BY ZenonT(30), <4>1 DEF Accepts, Versions
      <4>3. Newer(r.id, h)
        BY ZenonT(30), <2>1, <2>3, <4>2, NewerOrder
      <4>4. AtLeast(r.id, e)
        BY <2>1, <2>2, <2>3, <4>3, NewerOrder DEF AtLeast
      <4>5. r.id \in n.live \cup n.evicted
        BY ZenonT(30), <3>2, <4>1
      <4> QED
        BY ZenonT(30), <2>1, <4>4, <4>5
    <3> QED
      BY ZenonT(30), <3>3, <3>4
  <2>5. CASE r.op \in {"Delete", "Tombstone"}
    <3>1. h # r.id
      BY ZenonT(30), <2>2, <2>5
    <3>2. n.live = m.live \ {r.id} /\ n.evicted = m.evicted
      BY ZenonT(30), <2>1, <2>5, ReplayOpType
    <3> QED
      BY ZenonT(30), <2>1, <2>2, <3>1, <3>2
  <2> QED
    BY ZenonT(30), <2>1, <2>4, <2>5, ReplayOpType
<1>5. ASSUME NEW m \in P PROVE ReplayOp(m, s[i]) \in Q
  <2> DEFINE r == Rec("Insert", e)
             A == IF Accepts(m.live, m.tombs, e)
                    THEN (m.live \ Versions(m.live, e)) \cup {e} ELSE m.live
  <2>1. m \in Mem /\ r \in Sound /\ r.op = "Insert" /\ r.id = e
    BY ZenonT(30) DEF Rec, Sound, Record, Ops
  <2>2. ReplayOp(m, r) \in Mem /\ ReplayOp(m, r) = Ingest(m, e)
    <3> HIDE DEF r
    <3> QED
      BY ZenonT(30), <2>1, ReplayOpType
  <2>3. Ingest(m, e).live \cup Ingest(m, e).evicted = m.evicted \cup A
    BY ZenonT(30), <2>1, IngestType
  <2>4. \E h \in A : AtLeast(h, e)
    <3>1. CASE Accepts(m.live, m.tombs, e)
      BY ZenonT(30), <3>1 DEF AtLeast
    <3>2. CASE e \in m.live
      BY ZenonT(30), <3>2 DEF AtLeast, Accepts
    <3>3. CASE \E f \in Versions(m.live, e) : ~Wins(e, f)
      <4>1. PICK f \in Versions(m.live, e) : ~Wins(e, f)
        BY ZenonT(30), <3>3
      <4>2. f \in Events /\ f \in m.live /\ f # e
        BY ZenonT(30), <4>1 DEF Versions
      <4>3. Newer(f, e)
        BY ZenonT(30), <4>1, <4>2, WinsOrder DEF Newer, Versions
      <4>4. A = m.live
        BY ZenonT(30), <4>1 DEF Accepts
      <4> HIDE DEF A
      <4> QED
        BY ZenonT(30), <4>2, <4>3, <4>4 DEF AtLeast
    <3> QED
      BY ZenonT(30), <3>1, <3>2, <3>3 DEF Accepts
  <2> HIDE DEF A, r
  <2> QED
    BY ZenonT(30), <2>2, <2>3, <2>4 DEF r
<1>6. Replay(s) \in Q
  <2> HIDE DEF P, Q, S
  <2> QED
    BY ZenonT(30), <1>1, <1>2, <1>3, <1>4, <1>5, ReplayReaches
<1> QED
  BY ZenonT(30), <1>6 DEF Covers, AtLeast, Newer

\* The same of a restart.
LEMMA RestoreCovers ==
    ASSUME NEW lines \in Seq(Events), NEW old \in Seq(Record), NEW new \in Seq(Record),
           ~HasTorn(old), ~HasTorn(new),
           NEW e \in Lines(lines) \cup Inserted(old) \cup Inserted(new),
           \A g \in Killed(old) \cup Killed(new) : ~AtLeast(g, e)
    PROVE  Covers(Restore(lines, old, new), e)
<1> DEFINE S == {r \in Sound : r.op # "Insert" => ~AtLeast(r.id, e)}
           ins == Insertions(lines)
           all == ins \o old \o new
           x == Rec("Insert", e)
<1>1. e \in Events
  BY ZenonT(30) DEF Lines, Inserted
<1>2. /\ ins \in Seq(Sound) /\ Len(ins) = Len(lines)
      /\ \A i \in 1 .. Len(lines) : ins[i] = Rec("Insert", lines[i])
  BY ZenonT(30), InsertionsSound
<1>3. Readable(old) = old /\ Readable(new) = new /\ old \in Seq(Sound) /\ new \in Seq(Sound)
  BY ZenonT(30), ReadableSound
<1>4. Restore(lines, old, new) = Replay(all)
  BY ZenonT(30), <1>3 DEF Restore
<1>5. ins \in Seq(S)
  <2>1. ASSUME NEW i \in 1 .. Len(ins) PROVE ins[i] \in S
    <3>1. ins[i] \in Sound /\ ins[i] = Rec("Insert", lines[i])
      BY <1>2
    <3>2. ins[i].op = "Insert"
      BY <3>1 DEF Rec
    <3> QED
      BY ZenonT(30), <3>1, <3>2
  <2> HIDE DEF S, ins
  <2> QED
    BY <1>2, <2>1
<1>6. ASSUME NEW s \in Seq(Sound), \A g \in Killed(s) : ~AtLeast(g, e) PROVE s \in Seq(S)
  <2>1. ASSUME NEW i \in 1 .. Len(s), s[i].op # "Insert" PROVE ~AtLeast(s[i].id, e)
    <3>1. s[i] \in Record /\ s[i].op \in {"Delete", "Tombstone"}
      BY <2>1 DEF Sound, Record, Ops
    <3>2. s[i] = Rec(s[i].op, s[i].id) /\ s[i].id \in Events
      BY ZenonT(30), <3>1 DEF Record, Rec
    <3>3. s[i].id \in Killed(s)
      BY <3>1, <3>2 DEF Killed
    <3> QED
      BY ZenonT(30), <1>6, <3>3
  <2>2. \A i \in 1 .. Len(s) : s[i] \in S
    BY <2>1
  <2> HIDE DEF S
  <2> QED
    BY <2>2
<1>7. all \in Seq(S)
  <2>1. old \in Seq(S) /\ new \in Seq(S)
    BY ZenonT(30), <1>3, <1>6
  <2> HIDE DEF S, ins
  <2> QED
    BY <1>5, <2>1
<1> HIDE DEF ins
<1>8. \E i \in 1 .. Len(all) : all[i] = x
  <2> HIDE DEF x
  <2>1. CASE e \in Lines(lines)
    <3>1. PICK i \in 1 .. Len(lines) : lines[i] = e
      BY <2>1 DEF Lines
    <3>2. ins[i] = x /\ i \in 1 .. Len(ins)
      BY ZenonT(30), <1>2, <3>1 DEF x
    <3>3. i \in 1 .. Len(all) /\ all[i] = ins[i]
      BY <1>2, <1>3, <3>2
    <3> QED
      BY ZenonT(30), <3>2, <3>3
  <2>2. CASE e \in Inserted(old)
    <3>1. PICK i \in 1 .. Len(old) : old[i] = x
      BY <2>2 DEF Inserted, x
    <3>2. Len(ins) + i \in 1 .. Len(all) /\ all[Len(ins) + i] = old[i]
      BY <1>2, <1>3, <3>1
    <3> QED
      BY ZenonT(30), <3>1, <3>2
  <2>3. CASE e \in Inserted(new)
    <3>1. PICK i \in 1 .. Len(new) : new[i] = x
      BY <2>3 DEF Inserted, x
    <3> DEFINE p == ins \o old
    <3>2. p \in Seq(Sound) /\ all = p \o new
      BY <1>2, <1>3
    <3> HIDE DEF p, all
    <3>3. Len(p) + i \in 1 .. Len(all) /\ all[Len(p) + i] = new[i]
      BY <1>3, <3>1, <3>2
    <3> QED
      BY ZenonT(30), <3>1, <3>3
  <2> QED
    BY ZenonT(30), <2>1, <2>2, <2>3
<1>9. PICK i \in 1 .. Len(all) : all[i] = Rec("Insert", e)
  BY ZenonT(30), <1>8
<1>10. all \in Seq(Sound) /\ \A j \in 1 .. Len(all) : all[j].op # "Insert" => ~AtLeast(all[j].id, e)
  <2> HIDE DEF all
  <2>1. \A j \in 1 .. Len(all) : all[j] \in S
    BY <1>7
  <2> QED
    BY <1>7, <2>1
<1> HIDE DEF all
<1> QED
  BY ZenonT(30), <1>1, <1>4, <1>9, <1>10, ReplayCovers

-----------------------------------------------------------------------------
(* The records of a sequence that changes. *)

LEMMA EmptyParts == Inserted(<<>>) = {} /\ Killed(<<>>) = {} /\ Lines(<<>>) = {}
BY DEF Inserted, Killed, Lines

LEMMA AppendParts ==
    ASSUME NEW s \in Seq(Record), NEW r \in Record
    PROVE  /\ Inserted(Append(s, r)) = Inserted(s) \cup {e \in Events : r = Rec("Insert", e)}
           /\ Killed(Append(s, r)) = Killed(s) \cup
                {e \in Events : r \in {Rec("Delete", e), Rec("Tombstone", e)}}
           /\ \A n \in 0 .. Len(s) : SubSeq(Append(s, r), 1, n) = SubSeq(s, 1, n)
<1> DEFINE a == Append(s, r)
<1>1. /\ DOMAIN a = 1 .. Len(s) + 1 /\ DOMAIN s = 1 .. Len(s)
      /\ \A i \in 1 .. Len(s) : a[i] = s[i]
      /\ a[Len(s) + 1] = r
  OBVIOUS
<1>2. \A n \in 0 .. Len(s) : SubSeq(a, 1, n) = SubSeq(s, 1, n)
  OBVIOUS
<1> HIDE DEF a
<1>3. Inserted(a) = Inserted(s) \cup {e \in Events : r = Rec("Insert", e)}
  BY <1>1 DEF Inserted
<1>4. Killed(a) = Killed(s) \cup {e \in Events : r \in {Rec("Delete", e), Rec("Tombstone", e)}}
  BY <1>1 DEF Killed
<1> QED
  BY ZenonT(30), <1>2, <1>3, <1>4 DEF a

LEMMA LinesAppend ==
    ASSUME NEW s \in Seq(Events), NEW e \in Events
    PROVE  Lines(Append(s, e)) = Lines(s) \cup {e}
<1> DEFINE a == Append(s, e)
<1>1. /\ DOMAIN a = 1 .. Len(s) + 1 /\ DOMAIN s = 1 .. Len(s)
      /\ \A i \in 1 .. Len(s) : a[i] = s[i]
      /\ a[Len(s) + 1] = e
  OBVIOUS
<1> HIDE DEF a
<1>2. Lines(a) = Lines(s) \cup {e}
  BY <1>1 DEF Lines
<1> QED
  BY ZenonT(30), <1>2 DEF a

LEMMA TailParts ==
    ASSUME NEW s \in Seq(Record), s # <<>>
    PROVE  /\ Inserted(s) = Inserted(Tail(s)) \cup {e \in Events : Head(s) = Rec("Insert", e)}
           /\ \A i \in DOMAIN Tail(s) : i + 1 \in DOMAIN s /\ Tail(s)[i] = s[i + 1]
<1> DEFINE a == Tail(s)
<1>1. /\ DOMAIN a = 1 .. Len(s) - 1 /\ DOMAIN s = 1 .. Len(s) /\ Len(s) \in Nat \ {0}
      /\ \A i \in 1 .. Len(s) - 1 : a[i] = s[i + 1]
      /\ Head(s) = s[1]
  OBVIOUS
<1> HIDE DEF a
<1>2. \A i \in DOMAIN a : i + 1 \in DOMAIN s /\ a[i] = s[i + 1]
  BY <1>1
<1>3. \A i \in DOMAIN s : i = 1 \/ (i - 1 \in DOMAIN a /\ s[i] = a[i - 1])
  BY <1>1
<1>4. 1 \in DOMAIN s
  BY <1>1
<1>5. Inserted(s) = Inserted(a) \cup {e \in Events : Head(s) = Rec("Insert", e)}
  BY <1>1, <1>2, <1>3, <1>4 DEF Inserted
<1> QED
  BY ZenonT(30), <1>2, <1>5 DEF a

LEMMA PrefixParts ==
    ASSUME NEW s \in Seq(Record), NEW n \in 0 .. Len(s)
    PROVE  /\ SubSeq(s, 1, n) \in Seq(Record) /\ Len(SubSeq(s, 1, n)) = n
           /\ Inserted(SubSeq(s, 1, n)) \subseteq Inserted(s)
           /\ Killed(SubSeq(s, 1, n)) \subseteq Killed(s)
           /\ HasTorn(SubSeq(s, 1, n)) => HasTorn(s)
           /\ \A k \in 0 .. n : Inserted(SubSeq(s, 1, k)) \subseteq Inserted(SubSeq(s, 1, n))
           /\ SubSeq(s, 1, Len(s)) = s
           /\ SubSeq(SubSeq(s, 1, n), 1, n) = SubSeq(s, 1, n)
<1>1. ASSUME NEW k \in 0 .. Len(s)
      PROVE  /\ SubSeq(s, 1, k) \in Seq(Record) /\ Len(SubSeq(s, 1, k)) = k
             /\ DOMAIN SubSeq(s, 1, k) = 1 .. k
             /\ \A i \in 1 .. k : SubSeq(s, 1, k)[i] = s[i]
             /\ 1 .. k \subseteq DOMAIN s
  OBVIOUS
<1>2. SubSeq(s, 1, Len(s)) = s /\ SubSeq(SubSeq(s, 1, n), 1, n) = SubSeq(s, 1, n)
  OBVIOUS
<1>3. ASSUME NEW k \in 0 .. n PROVE Inserted(SubSeq(s, 1, k)) \subseteq Inserted(SubSeq(s, 1, n))
  <2>1. k \in 0 .. Len(s) /\ 1 .. k \subseteq 1 .. n
    OBVIOUS
  <2>2. DOMAIN SubSeq(s, 1, k) \subseteq DOMAIN SubSeq(s, 1, n)
    BY ZenonT(30), <1>1, <2>1
  <2>3. \A i \in DOMAIN SubSeq(s, 1, k) : SubSeq(s, 1, k)[i] = SubSeq(s, 1, n)[i]
    BY ZenonT(30), <1>1, <2>1
  <2> QED
    BY ZenonT(30), <2>2, <2>3 DEF Inserted
<1> DEFINE p == SubSeq(s, 1, n)
<1>4. DOMAIN p \subseteq DOMAIN s /\ \A i \in DOMAIN p : p[i] = s[i]
  BY ZenonT(30), <1>1
<1>5. p \in Seq(Record) /\ Len(p) = n
  BY ZenonT(30), <1>1
<1> HIDE DEF p
<1>6. Inserted(p) \subseteq Inserted(s) /\ Killed(p) \subseteq Killed(s)
  BY ZenonT(30), <1>4 DEF Inserted, Killed
<1>7. HasTorn(p) => HasTorn(s)
  BY ZenonT(30), <1>4 DEF HasTorn
<1> QED
  BY ZenonT(30), <1>2, <1>3, <1>5, <1>6, <1>7 DEF p

-----------------------------------------------------------------------------
(* The calls: what they have still to write. *)

\* The events with an Insert record that is still to be written.
Pending == {e \in Events : \E t \in Threads : e \in Inserted(recs[t])}

\* A delete call that has written its record, and has not yet changed memory.
Recording(t) == pc[t] \in {"mark", "remove"} /\ op[t] = "delete"

\* A record that the call of t may have to write.
OfCall(t, r) ==
    \/ r = Rec("Insert", ev[t]) /\ op[t] = "insert"
    \/ r.op = "Delete" /\ op[t] = "insert" /\ Newer(ev[t], r.id)
    \/ r = Rec("Tombstone", ev[t]) /\ op[t] = "delete"

CallOk(t) ==
    /\ pc[t] = "idle" => recs[t] = <<>>
    /\ pc[t] = "remove" => op[t] = "delete"
    /\ pc[t] # "idle" /\ op[t] = "delete" => ev[t] \in Deletable
    /\ pc[t] = "append" /\ op[t] = "delete" => recs[t] = <<Rec("Tombstone", ev[t])>>
    /\ Recording(t) => recs[t] = <<>>
    /\ \A i \in DOMAIN recs[t] : OfCall(t, recs[t][i])

CallInv == \A t \in Threads : CallOk(t)

LEMMA InitCallInv == Init => CallInv
BY DEF Init, CallInv, CallOk, Recording

LEMMA CallStep == TypeInv /\ CallInv /\ [Next]_vars => CallInv'
<1> SUFFICES ASSUME TypeInv, CallInv, [Next]_vars PROVE CallInv'
  BY ZenonT(30)
<1>0. /\ pc \in [Threads -> {"idle", "append", "mark", "remove"}]
      /\ recs \in [Threads -> Seq(Record)]
      /\ op \in [Threads -> {None, "insert", "delete"}]
      /\ ev \in [Threads -> Events \cup {None}]
      /\ live \subseteq Events
  BY ZenonT(30) DEF TypeInv, LogInv, LogType, ControlType, MemoryType
<1>1. ASSUME UNCHANGED tasks PROVE CallInv'
  BY ZenonT(30), <1>1 DEF tasks, CallInv, CallOk, OfCall, Recording
\* A step of t leaves the other calls alone.
<1>2. ASSUME NEW t \in Threads, CallOk(t)',
             \A u \in Threads \ {t} : /\ pc'[u] = pc[u] /\ op'[u] = op[u]
                                      /\ ev'[u] = ev[u] /\ recs'[u] = recs[u]
      PROVE  CallInv'
  <2>1. ASSUME NEW u \in Threads \ {t} PROVE CallOk(u)'
    <3>1. CallOk(u)
      BY ZenonT(30) DEF CallInv
    <3> QED
      BY <1>2, <3>1 DEF CallOk, OfCall, Recording
  <2> QED
    BY ZenonT(30), <1>2, <2>1 DEF CallInv
<1>3. ASSUME NEW t \in Threads, NEW e \in Events, Publish(t, e) PROVE CallInv'
  <2>1. CASE ~Accepts(live, tombs, e)
    BY ZenonT(30), <1>1, <1>3, <2>1 DEF Publish
  <2>2. CASE Accepts(live, tombs, e)
    <3> DEFINE V == Versions(live, e)
               rs == InsertRecords(e, V)
    <3>1. /\ pc' = [pc EXCEPT ![t] = "append"] /\ op' = [op EXCEPT ![t] = "insert"]
          /\ ev' = [ev EXCEPT ![t] = e] /\ recs' = [recs EXCEPT ![t] = rs]
      BY ZenonT(30), <1>3, <2>2 DEF Publish, Start
    <3>2. \A f \in V : Newer(e, f) /\ f \in Events
      BY ZenonT(30), <1>0, <2>2, NewerOrder DEF Accepts, Versions
    <3>3. \A i \in DOMAIN rs : rs[i] = Rec("Insert", e) \/ \E f \in V : rs[i] = Rec("Delete", f)
      <4> HIDE DEF V
      <4>1. CASE V = {}
        BY <4>1 DEF InsertRecords
      <4>2. CASE V # {}
        <5> DEFINE f == CHOOSE f \in V : TRUE
        <5>1. f \in V /\ rs = <<Rec("Insert", e), Rec("Delete", f)>>
          BY ZenonT(30), <4>2 DEF InsertRecords
        <5>2. ASSUME NEW a, NEW b PROVE \A i \in DOMAIN <<a, b>> : <<a, b>>[i] \in {a, b}
          OBVIOUS
        <5> HIDE DEF f, rs
        <5>3. \A i \in DOMAIN rs : rs[i] \in {Rec("Insert", e), Rec("Delete", f)}
          BY <5>1, <5>2, ZenonT(30)
        <5> QED
          BY <5>1, <5>3, ZenonT(30)
      <4> QED
        BY ZenonT(30), <4>1, <4>2
    <3> HIDE DEF rs, V
    <3>4. pc'[t] = "append" /\ op'[t] = "insert" /\ ev'[t] = e /\ recs'[t] = rs
      BY ZenonT(30), <1>0, <3>1
    <3>5. ASSUME NEW i \in DOMAIN rs
          PROVE  rs[i] = Rec("Insert", e) \/ (rs[i].op = "Delete" /\ Newer(e, rs[i].id))
      BY <3>2, <3>3 DEF Rec
    <3>6. CallOk(t)'
      BY ZenonT(30), <3>4, <3>5 DEF CallOk, OfCall, Recording
    <3> QED
      BY ZenonT(30), <1>0, <1>2, <3>1, <3>6
  <2> QED
    BY ZenonT(30), <2>1, <2>2
<1>4. ASSUME NEW t \in Threads, NEW e \in Events, Delete(t, e) PROVE CallInv'
  <2>1. /\ pc' = [pc EXCEPT ![t] = "append"] /\ op' = [op EXCEPT ![t] = "delete"]
        /\ ev' = [ev EXCEPT ![t] = e] /\ recs' = [recs EXCEPT ![t] = <<Rec("Tombstone", e)>>]
        /\ e \in Deletable
    BY ZenonT(30), <1>4 DEF Delete, Start
  <2>2. /\ pc'[t] = "append" /\ op'[t] = "delete" /\ ev'[t] = e
        /\ recs'[t] = <<Rec("Tombstone", e)>>
    BY ZenonT(30), <1>0, <2>1
  <2>3. \A i \in DOMAIN <<Rec("Tombstone", e)>> : <<Rec("Tombstone", e)>>[i] = Rec("Tombstone", e)
    OBVIOUS
  <2>4. CallOk(t)'
    BY ZenonT(30), <2>1, <2>2, <2>3 DEF CallOk, OfCall, Recording
  <2> QED
    BY ZenonT(30), <1>0, <1>2, <2>1, <2>4
<1>5. ASSUME NEW t \in Threads, WriteRecord(t) PROVE CallInv'
  <2>1. /\ recs[t] # <<>> /\ pc[t] = "append" /\ CallOk(t)
        /\ pc' = [pc EXCEPT ![t] = "mark"] /\ op' = op /\ ev' = ev
        /\ recs' = [recs EXCEPT ![t] = Tail(@)]
    BY ZenonT(30), <1>5 DEF WriteRecord, CallInv, TypeInv, LogInv, LogType
  <2> DEFINE s == recs[t]
  <2>2. s \in Seq(Record) /\ pc'[t] = "mark" /\ recs'[t] = Tail(s)
    BY ZenonT(30), <1>0, <2>1
  <2>3. \A i \in DOMAIN Tail(s) : OfCall(t, Tail(s)[i])
    BY ZenonT(30), <2>1, <2>2, TailParts DEF CallOk
  <2>4. op[t] = "delete" => Tail(s) = <<>>
    <3>1. ASSUME op[t] = "delete" PROVE s = <<Rec("Tombstone", ev[t])>>
      BY ZenonT(30), <2>1, <3>1 DEF CallOk
    <3>2. ASSUME NEW r PROVE Tail(<<r>>) = <<>>
      OBVIOUS
    <3> HIDE DEF s
    <3> QED
      BY ZenonT(30), <3>1, <3>2
  <2>5. CallOk(t)'
    BY <2>1, <2>2, <2>3, <2>4, ZenonT(30) DEF CallOk, OfCall, Recording
  <2> QED
    BY ZenonT(30), <1>0, <1>2, <2>1, <2>5
<1>6. ASSUME NEW t \in Threads, MarkDirty(t) PROVE CallInv'
  <2>1. pc[t] = "mark" /\ CallOk(t)
    BY ZenonT(30), <1>6 DEF MarkDirty, CallInv
  <2>2. CASE /\ recs[t] # <<>> /\ pc' = [pc EXCEPT ![t] = "append"]
             /\ UNCHANGED <<op, ev, recs>>
    <3>1. pc'[t] = "append"
      BY ZenonT(30), <1>0, <2>2
    <3>2. op[t] # "delete"
      BY ZenonT(30), <2>1, <2>2 DEF CallOk, Recording
    <3>3. CallOk(t)'
      BY ZenonT(30), <2>1, <2>2, <3>1, <3>2 DEF CallOk, OfCall, Recording
    <3> QED
      BY ZenonT(30), <1>0, <1>2, <2>2, <3>3
  <2>3. CASE /\ recs[t] = <<>> /\ op[t] = "delete" /\ pc' = [pc EXCEPT ![t] = "remove"]
             /\ UNCHANGED <<op, ev, recs>>
    <3>1. pc'[t] = "remove"
      BY ZenonT(30), <1>0, <2>3
    <3>2. CallOk(t)'
      BY ZenonT(30), <2>1, <2>3, <3>1 DEF CallOk, OfCall, Recording
    <3> QED
      BY ZenonT(30), <1>0, <1>2, <2>3, <3>2
  <2>4. CASE Finish(t)
    BY <1>0, <1>2, <2>4 DEF Finish, CallOk, Recording
  <2> QED
    BY ZenonT(30), <1>6, <2>2, <2>3, <2>4 DEF MarkDirty
<1>7. ASSUME NEW t \in Threads, DeleteById(t) PROVE CallInv'
  BY <1>0, <1>2, <1>7 DEF DeleteById, Finish, CallOk, Recording
<1>8. CASE Crash \/ PowerLoss
  <2>1. pc' = [t \in Threads |-> "idle"] /\ recs' = [t \in Threads |-> <<>>]
    BY ZenonT(30), <1>8 DEF Crash, PowerLoss, Die
  <2>2. ASSUME NEW t \in Threads PROVE CallOk(t)'
    <3>1. pc'[t] = "idle" /\ recs'[t] = <<>>
      BY ZenonT(30), <2>1
    <3>2. \A i \in DOMAIN <<>> : FALSE
      OBVIOUS
    <3>3. \A i \in DOMAIN recs'[t] : OfCall(t, recs[t][i])'
      BY ZenonT(30), <3>1, <3>2
    <3> QED
      BY ZenonT(30), <3>1, <3>3 DEF CallOk, Recording
  <2> QED
    BY ZenonT(30), <2>2 DEF CallInv
<1> QED
  BY ZenonT(30), <1>1, <1>3, <1>4, <1>5, <1>6, <1>7, <1>8
     DEF Next, vars, Checkpoint, Evict, GroupCommit, Rotate, RenameSnapshot, SnapshotFails,
         RemoveOld, Visit, Load, DropOld

\* The call of t has other records to write.
LEMMA PendingStep ==
    ASSUME NEW t \in Threads, NEW s, recs \in [Threads -> Seq(Record)],
           recs' = [recs EXCEPT ![t] = s]
    PROVE  /\ Pending \subseteq Pending' \cup Inserted(recs[t])
           /\ Pending' \subseteq Pending \cup Inserted(s)
           /\ Inserted(s) \subseteq Pending'
<1>1. recs'[t] = s /\ \A u \in Threads \ {t} : recs'[u] = recs[u]
  BY ZenonT(30)
<1>2. Inserted(s) \subseteq Events
  BY ZenonT(30) DEF Inserted
<1> QED
  BY ZenonT(30), <1>1, <1>2 DEF Pending

\* What the steps of a call do to the records to come: the call of a new event has an
\* Insert record to write, no step but the last one ends a recorded deletion.
LEMMA PublishCalls ==
    ASSUME TypeInv, CallInv, NEW t \in Threads, NEW e \in Events, Publish(t, e),
           Accepts(live, tombs, e)
    PROVE  /\ Pending' = Pending \cup {e}
           /\ \A u \in Threads : /\ Recording(u)' = Recording(u)
                                 /\ Recording(u) => ev'[u] = ev[u]
<1> DEFINE V == Versions(live, e)
           rs == InsertRecords(e, V)
<1>1. /\ pc[t] = "idle"
      /\ pc' = [pc EXCEPT ![t] = "append"] /\ op' = [op EXCEPT ![t] = "insert"]
      /\ ev' = [ev EXCEPT ![t] = e] /\ recs' = [recs EXCEPT ![t] = rs]
  BY ZenonT(30) DEF Publish, Idle, Start
<1>2. /\ pc \in [Threads -> {"idle", "append", "mark", "remove"}]
      /\ recs \in [Threads -> Seq(Record)]
      /\ op \in [Threads -> {None, "insert", "delete"}]
      /\ ev \in [Threads -> Events \cup {None}]
  BY ZenonT(30) DEF TypeInv, LogInv, LogType, ControlType
<1>3. Inserted(rs) = {e}
  <2>1. ASSUME NEW a, NEW b
        PROVE  /\ \A i \in DOMAIN <<a>> : <<a>>[i] = a
               /\ \A i \in DOMAIN <<a, b>> : <<a, b>>[i] \in {a, b}
               /\ 1 \in DOMAIN <<a>> /\ 1 \in DOMAIN <<a, b>>
               /\ <<a>>[1] = a /\ <<a, b>>[1] = a
    OBVIOUS
  <2>2. ASSUME NEW f, NEW x \in Events
        PROVE  Rec("Delete", f) # Rec("Insert", x) /\ (Rec("Insert", e) = Rec("Insert", x) => x = e)
    BY ZenonT(30) DEF Rec
  <2>3. PICK f : rs = <<Rec("Insert", e)>> \/ rs = <<Rec("Insert", e), Rec("Delete", f)>>
    BY ZenonT(30) DEF InsertRecords
  <2> HIDE DEF rs
  <2>4. /\ \A i \in DOMAIN rs : rs[i] \in {Rec("Insert", e), Rec("Delete", f)}
        /\ 1 \in DOMAIN rs /\ rs[1] = Rec("Insert", e)
    <3> DEFINE a == Rec("Insert", e)
               b == Rec("Delete", f)
    <3> HIDE DEF a, b
    <3>1. CASE rs = <<a>>
      BY ZenonT(30), <2>1, <3>1 DEF a
    <3>2. CASE rs = <<a, b>>
      BY ZenonT(30), <2>1, <3>2 DEF a, b
    <3> QED
      BY ZenonT(30), <2>3, <3>1, <3>2 DEF a, b
  <2> QED
    BY ZenonT(30), <2>2, <2>4 DEF Inserted
<1> HIDE DEF rs
<1>4. recs[t] = <<>>
  BY ZenonT(30), <1>1 DEF CallInv, CallOk
<1>5. Pending' = Pending \cup {e}
  BY ZenonT(30), <1>1, <1>2, <1>3, <1>4, PendingStep, EmptyParts
<1>6. /\ \A u \in Threads \ {t} : pc'[u] = pc[u] /\ op'[u] = op[u] /\ ev'[u] = ev[u]
      /\ pc'[t] = "append"
  BY ZenonT(30), <1>1, <1>2
<1> QED
  BY ZenonT(30), <1>1, <1>5, <1>6 DEF Recording

LEMMA DeleteCalls ==
    ASSUME TypeInv, CallInv, NEW t \in Threads, NEW e \in Events, Delete(t, e)
    PROVE  /\ Pending' = Pending
           /\ \A u \in Threads : /\ Recording(u)' = Recording(u)
                                 /\ Recording(u) => ev'[u] = ev[u]
<1> DEFINE rs == <<Rec("Tombstone", e)>>
<1>1. /\ pc[t] = "idle"
      /\ pc' = [pc EXCEPT ![t] = "append"] /\ op' = [op EXCEPT ![t] = "delete"]
      /\ ev' = [ev EXCEPT ![t] = e] /\ recs' = [recs EXCEPT ![t] = rs]
  BY ZenonT(30) DEF Delete, Idle, Start
<1>2. /\ pc \in [Threads -> {"idle", "append", "mark", "remove"}]
      /\ recs \in [Threads -> Seq(Record)]
      /\ op \in [Threads -> {None, "insert", "delete"}]
      /\ ev \in [Threads -> Events \cup {None}]
  BY ZenonT(30) DEF TypeInv, LogInv, LogType, ControlType
<1>3. recs[t] = <<>>
  BY ZenonT(30), <1>1 DEF CallInv, CallOk
<1>4. Inserted(rs) = {}
  BY DEF Inserted, Rec
<1> HIDE DEF rs
<1>5. Pending' = Pending
  BY ZenonT(30), <1>1, <1>2, <1>3, <1>4, PendingStep, EmptyParts
<1>6. /\ \A u \in Threads \ {t} : pc'[u] = pc[u] /\ op'[u] = op[u] /\ ev'[u] = ev[u]
      /\ pc'[t] = "append"
  BY ZenonT(30), <1>1, <1>2
<1> QED
  BY ZenonT(30), <1>1, <1>5, <1>6 DEF Recording

LEMMA WriteCalls ==
    ASSUME TypeInv, CallInv, NEW t \in Threads, WriteRecord(t)
    PROVE  LET r == Head(recs[t])
           IN  /\ r \in Sound /\ OfCall(t, r)
               /\ \A x \in Events : r = Rec("Insert", x) => x \in Pending
               /\ Pending \subseteq Pending' \cup {x \in Events : r = Rec("Insert", x)}
               /\ Pending' \subseteq Pending
               /\ \A u \in Threads : /\ Recording(u) => Recording(u)'
                                     /\ Recording(u)' => Recording(u) \/ (u = t /\ op[t] = "delete")
<1> DEFINE r == Head(recs[t])
           New == {x \in Events : r = Rec("Insert", x)}
<1>1. /\ pc[t] = "append" /\ recs' = [recs EXCEPT ![t] = Tail(recs[t])]
      /\ pc' = [pc EXCEPT ![t] = "mark"] /\ op' = op
  BY ZenonT(30) DEF WriteRecord
<1>2. /\ pc \in [Threads -> {"idle", "append", "mark", "remove"}]
      /\ recs \in [Threads -> Seq(Record)] /\ recs[t] \in Seq(Record) /\ recs[t] # <<>>
  BY ZenonT(30), <1>1 DEF TypeInv, LogInv, LogType
<1>3. 1 \in DOMAIN recs[t] /\ r = recs[t][1] /\ r \in Record
  BY <1>2
<1>4. OfCall(t, r)
  BY ZenonT(30), <1>3 DEF CallInv, CallOk
<1>5. r \in Sound
  <2>1. ASSUME NEW o, NEW x PROVE Rec(o, x).op = o
    BY ZenonT(30) DEF Rec
  <2> HIDE DEF r
  <2>2. r.op # "Torn"
    BY <1>4, <2>1 DEF OfCall
  <2> QED
    BY ZenonT(30), <1>3, <2>2 DEF Sound
<1>6. Inserted(recs[t]) = Inserted(Tail(recs[t])) \cup New
  BY ZenonT(30), <1>2, TailParts
<1>7. Inserted(recs[t]) \subseteq Pending
  BY ZenonT(30) DEF Pending, Inserted
<1> HIDE DEF New
<1>8. Pending \subseteq Pending' \cup New /\ Pending' \subseteq Pending
  BY ZenonT(30), <1>1, <1>2, <1>6, <1>7, PendingStep
<1>9. New \subseteq Pending
  BY ZenonT(30), <1>6, <1>7
<1>10. pc'[t] = "mark" /\ \A u \in Threads \ {t} : pc'[u] = pc[u]
  BY ZenonT(30), <1>1, <1>2
<1>11. \A u \in Threads : /\ Recording(u) => Recording(u)'
                          /\ Recording(u)' => Recording(u) \/ (u = t /\ op[t] = "delete")
  BY ZenonT(30), <1>1, <1>10 DEF Recording
<1> HIDE DEF r
<1> QED
  BY ZenonT(30), <1>4, <1>5, <1>8, <1>9, <1>11 DEF New, r

LEMMA MarkCalls ==
    ASSUME TypeInv, CallInv, NEW t \in Threads, MarkDirty(t)
    PROVE  /\ Pending' = Pending
           /\ \A u \in Threads : /\ Recording(u)' = Recording(u)
                                 /\ Recording(u) => ev'[u] = ev[u]
<1>1. /\ pc[t] = "mark" /\ CallOk(t)
      /\ pc \in [Threads -> {"idle", "append", "mark", "remove"}]
      /\ recs \in [Threads -> Seq(Record)]
      /\ op \in [Threads -> {None, "insert", "delete"}]
      /\ ev \in [Threads -> Events \cup {None}]
  BY ZenonT(30) DEF MarkDirty, TypeInv, LogInv, LogType, ControlType, CallInv
<1>2. recs' = recs
  BY <1>1 DEF MarkDirty, Finish
<1>3. \A u \in Threads \ {t} : pc'[u] = pc[u] /\ op'[u] = op[u] /\ ev'[u] = ev[u]
  BY ZenonT(30), <1>1 DEF MarkDirty, Finish
<1>4. Recording(t)' = Recording(t) /\ (Recording(t) => ev'[t] = ev[t])
  <2>1. CASE recs[t] # <<>> /\ pc' = [pc EXCEPT ![t] = "append"] /\ UNCHANGED <<op, ev>>
    <3>1. pc'[t] = "append" /\ op[t] # "delete"
      BY ZenonT(30), <1>1, <2>1 DEF CallOk, Recording
    <3> QED
      BY ZenonT(30), <2>1, <3>1 DEF Recording
  <2>2. CASE op[t] = "delete" /\ pc' = [pc EXCEPT ![t] = "remove"] /\ UNCHANGED <<op, ev>>
    BY ZenonT(30), <1>1, <2>2 DEF Recording
  <2>3. CASE op[t] = "insert" /\ Finish(t)
    BY ZenonT(30), <1>1, <2>3 DEF Recording, Finish
  <2> QED
    BY ZenonT(30), <2>1, <2>2, <2>3 DEF MarkDirty
<1> QED
  BY ZenonT(30), <1>2, <1>3, <1>4 DEF Recording, Pending

LEMMA RemoveCalls ==
    ASSUME TypeInv, CallInv, NEW t \in Threads, DeleteById(t)
    PROVE  /\ Recording(t) /\ ~Recording(t)' /\ Pending' = Pending
           /\ \A u \in Threads \ {t} : Recording(u)' = Recording(u) /\ ev'[u] = ev[u]
<1>1. /\ pc[t] = "remove" /\ CallOk(t) /\ Finish(t)
      /\ pc \in [Threads -> {"idle", "append", "mark", "remove"}]
      /\ recs \in [Threads -> Seq(Record)]
      /\ op \in [Threads -> {None, "insert", "delete"}]
      /\ ev \in [Threads -> Events \cup {None}]
  BY ZenonT(30) DEF DeleteById, TypeInv, LogInv, LogType, ControlType, CallInv
<1>2. Recording(t) /\ recs[t] = <<>>
  BY ZenonT(30), <1>1 DEF CallOk, Recording
<1>3. recs' = recs
  BY ZenonT(30), <1>1, <1>2 DEF Finish
<1>4. /\ pc'[t] = "idle"
      /\ \A u \in Threads \ {t} : pc'[u] = pc[u] /\ op'[u] = op[u] /\ ev'[u] = ev[u]
  BY ZenonT(30), <1>1 DEF Finish
<1> QED
  BY ZenonT(30), <1>2, <1>3, <1>4 DEF Recording, Pending

\* Outside serving no call runs, and none has a record to write.
LEMMA NoCalls ==
    TypeInv /\ CallInv /\ phase # "up" =>
        Pending = {} /\ \A t \in Threads : pc[t] = "idle" /\ ~Recording(t)
<1> SUFFICES ASSUME TypeInv, CallInv, phase # "up"
             PROVE  Pending = {} /\ \A t \in Threads : pc[t] = "idle" /\ ~Recording(t)
  BY ZenonT(30)
<1>1. \A t \in Threads : pc[t] = "idle"
  BY ZenonT(30) DEF TypeInv, LogInv, AloneInStartup
<1>2. \A t \in Threads : recs[t] = <<>>
  BY ZenonT(30), <1>1 DEF CallInv, CallOk
<1> QED
  BY ZenonT(30), <1>1, <1>2, EmptyParts DEF Recording, Pending

LEMMA InFlightHas ==
    ASSUME TypeInv, CallInv
    PROVE  /\ InFlight \subseteq Events /\ Pending \subseteq InFlight
           /\ \A t \in Threads : Recording(t) => ev[t] \in InFlight
<1>1. None \notin Events /\ \A t \in Threads : pc[t] # "idle" => ev[t] \in Events
  BY ZenonT(30), ConstantsAssumption DEF TypeInv, ControlType
<1>2. ASSUME NEW x \in Pending PROVE x \in InFlight
  <2>1. PICK t \in Threads : x \in Events /\ \E i \in DOMAIN recs[t] : recs[t][i] = Rec("Insert", x)
    BY ZenonT(30), <1>2 DEF Pending, Inserted
  <2>2. PICK i \in DOMAIN recs[t] : recs[t][i] = Rec("Insert", x)
    BY ZenonT(30), <2>1
  <2>3. recs[t][i].id = x
    <3>1. Rec("Insert", x).id = x
      BY ZenonT(30) DEF Rec
    <3> QED
      BY ZenonT(30), <2>2, <3>1
  <2> QED
    BY ZenonT(30), <1>1, <2>1, <2>2, <2>3, InFlightIs DEF Concerns
<1>3. ASSUME NEW t \in Threads, Recording(t) PROVE ev[t] \in InFlight
  <2>1. ev[t] \in Events
    BY ZenonT(30), <1>1, <1>3 DEF Recording
  <2> QED
    BY ZenonT(30), <1>1, <2>1, InFlightIs DEF Concerns
<1> QED
  BY ZenonT(30), <1>2, <1>3, InFlightEvents

-----------------------------------------------------------------------------
(* What was deleted does not come back. *)

\* A record behind half a record is not read; behind whole ones it is read last.
LEMMA ReadableAppend ==
    ASSUME NEW s \in Seq(Record), NEW r \in Sound
    PROVE  /\ HasTorn(Append(s, r)) = HasTorn(s)
           /\ Readable(Append(s, r)) = IF HasTorn(s) THEN Readable(s) ELSE Append(Readable(s), r)
<1> DEFINE a == Append(s, r)
           IsCut(x, n) == x[n + 1].op = "Torn" /\ \A i \in 1 .. n : x[i].op # "Torn"
<1>1. r \in Record /\ r.op # "Torn"
  BY ZenonT(30) DEF Sound
<1>2. /\ a \in Seq(Record) /\ Len(a) = Len(s) + 1 /\ Len(s) \in Nat
      /\ DOMAIN a = 1 .. Len(s) + 1 /\ DOMAIN s = 1 .. Len(s)
      /\ \A i \in 1 .. Len(s) : a[i] = s[i]
      /\ a[Len(s) + 1] = r
  BY <1>1
<1> HIDE DEF a
<1>3. HasTorn(a) = HasTorn(s)
  <2>1. \A i \in DOMAIN a : i \in DOMAIN s \/ i = Len(s) + 1
    BY <1>2
  <2>2. DOMAIN s \subseteq DOMAIN a
    BY <1>2
  <2> QED
    BY ZenonT(30), <1>1, <1>2, <2>1, <2>2 DEF HasTorn
<1>4. CASE ~HasTorn(s)
  BY ZenonT(30), <1>3, <1>4 DEF Readable, a
<1>5. CASE HasTorn(s)
  <2> DEFINE I == {i \in 1 .. Len(s) : s[i].op = "Torn"}
  <2>1. I # {} /\ I \in SUBSET Nat
    BY <1>5 DEF HasTorn
  <2>2. PICK k \in I : \A i \in I : k <= i
    <3> HIDE DEF I
    <3> QED
      BY ZenonT(30), <2>1, NatMin
  <2>3. PICK n \in 0 .. Len(s) - 1 : IsCut(s, n)
    <3>1. k - 1 \in 0 .. Len(s) - 1 /\ IsCut(s, k - 1)
      BY <2>2
    <3> QED
      BY ZenonT(30), <3>1
  <2>4. n \in 0 .. Len(a) - 1 /\ IsCut(a, n)
    BY <1>2, <2>3
  <2>5. ASSUME NEW x, NEW c \in Nat, NEW d \in Nat, IsCut(x, c), IsCut(x, d) PROVE c = d
    <3>1. ~(c < d)
      BY <2>5
    <3>2. ~(d < c)
      BY <2>5
    <3> QED
      BY <3>1, <3>2
  <2>6. ASSUME NEW x \in Seq(Record), HasTorn(x), n \in 0 .. Len(x) - 1, IsCut(x, n)
        PROVE  Readable(x) = SubSeq(x, 1, n)
    <3> DEFINE c == CHOOSE c \in 0 .. Len(x) - 1 : IsCut(x, c)
    <3>1. Readable(x) = SubSeq(x, 1, c)
      BY ZenonT(30), <2>6 DEF Readable
    <3> HIDE DEF IsCut
    <3>2. c \in 0 .. Len(x) - 1 /\ IsCut(x, c)
      BY ZenonT(30), <2>6
    <3>3. c = n
      <4> HIDE DEF c
      <4> QED
        BY <2>5, <2>6, <3>2
    <3> QED
      BY ZenonT(30), <3>1, <3>3
  <2> HIDE DEF IsCut
  <2>7. Readable(s) = SubSeq(s, 1, n) /\ Readable(a) = SubSeq(a, 1, n)
    BY ZenonT(30), <1>2, <1>3, <1>5, <2>3, <2>4, <2>6
  <2>8. SubSeq(a, 1, n) = SubSeq(s, 1, n)
    BY <1>1, <2>3, AppendParts DEF a
  <2> QED
    BY ZenonT(30), <1>3, <1>5, <2>7, <2>8 DEF a
<1> QED
  BY ZenonT(30), <1>4, <1>5

\* A written record is replayed by the next restart, unless half a record is before it.
LEMMA RestoredWrite ==
    ASSUME TypeInv, CallInv, NEW t \in Threads, WriteRecord(t)
    PROVE  /\ HasTorn(wal)' = HasTorn(wal)
           /\ restored' = IF HasTorn(wal) THEN restored ELSE ReplayOp(restored, Head(recs[t]))
<1> DEFINE r == Head(recs[t])
           pre == Insertions(snapshot) \o Readable(wal_old)
<1>1. /\ wal' = Append(wal, r) /\ UNCHANGED <<snapshot, wal_old>>
      /\ restored' = Restore(snapshot, wal_old, Append(wal, r))
  BY ZenonT(30) DEF WriteRecord, FilesChange
<1>2. r \in Sound
  BY ZenonT(30), WriteCalls
<1>3. /\ snapshot \in Seq(Events) /\ wal_old \in Seq(Record) /\ wal \in Seq(Record)
      /\ restored = Restore(snapshot, wal_old, wal)
  BY ZenonT(30) DEF TypeInv, DiskType, LogInv, LogType, RestoredIs
<1>4. pre \in Seq(Sound) /\ Readable(wal) \in Seq(Sound)
  BY <1>3, ReadableSound, InsertionsSound
<1> HIDE DEF r
<1>5. /\ HasTorn(Append(wal, r)) = HasTorn(wal)
      /\ Readable(Append(wal, r)) =
           IF HasTorn(wal) THEN Readable(wal) ELSE Append(Readable(wal), r)
  BY ZenonT(30), <1>2, <1>3, ReadableAppend
<1>6. restored = Replay(pre \o Readable(wal)) /\ restored' = Replay(pre \o Readable(Append(wal, r)))
  BY ZenonT(30), <1>1, <1>3 DEF Restore
<1> HIDE DEF pre
<1>7. CASE HasTorn(wal)
  BY ZenonT(30), <1>1, <1>5, <1>6, <1>7
<1>8. CASE ~HasTorn(wal)
  <2> DEFINE q == Readable(wal)
  <2>1. pre \o Append(q, r) = Append(pre \o q, r) /\ pre \o q \in Seq(Sound)
    BY <1>2, <1>4
  <2>2. restored' = Replay(Append(pre \o q, r))
    BY ZenonT(30), <1>5, <1>6, <1>8, <2>1
  <2>3. restored' = ReplayOp(Replay(pre \o q), r)
    BY ZenonT(30), <1>2, <2>1, <2>2, ReplayAppend
  <2> QED
    BY ZenonT(30), <1>1, <1>5, <1>6, <1>8, <2>3 DEF r
<1> QED
  BY ZenonT(30), <1>7, <1>8

\* A replayed record brings x back only if it inserts x and x is not tombstoned.
LEMMA ReplayKeepsAway ==
    ASSUME NEW m \in Mem, NEW r \in Sound, NEW x \in Events, x \notin m.live,
           x \in m.tombs \/ r # Rec("Insert", x)
    PROVE  x \notin ReplayOp(m, r).live /\ m.tombs \subseteq ReplayOp(m, r).tombs
<1>1. CASE r.op = "Insert"
  <2>1. ReplayOp(m, r) = Ingest(m, r.id) /\ r.id \in Events
    BY ZenonT(30), <1>1, ReplayOpType
  <2>2. r = Rec("Insert", r.id)
    BY ZenonT(30), <1>1 DEF Sound, Record, Rec
  <2>3. /\ Ingest(m, r.id).tombs = m.tombs
        /\ Ingest(m, r.id).live \subseteq
             (IF Accepts(m.live, m.tombs, r.id)
                THEN (m.live \ Versions(m.live, r.id)) \cup {r.id} ELSE m.live)
    BY ZenonT(30), <2>1, IngestType
  <2>4. r.id # x \/ ~Accepts(m.live, m.tombs, r.id)
    BY ZenonT(30), <2>2 DEF Accepts
  <2> QED
    BY ZenonT(30), <2>1, <2>3, <2>4
<1>2. CASE r.op \in {"Delete", "Tombstone"}
  BY <1>2, ReplayOpType
<1> QED
  BY ZenonT(30), <1>1, <1>2, ReplayOpType

\* The events that the Tombstone records of a sequence are about; what a replay of a
\* segment inserts and tombstones.
Tombstoned(s) == {e \in Events : \E i \in DOMAIN s : s[i] = Rec("Tombstone", e)}
ReadIn(s) == Inserted(Readable(s))
ReadOut(s) == Tombstoned(Readable(s))

LEMMA JoinedParts ==
    ASSUME NEW a \in Seq(Sound), NEW b \in Seq(Sound)
    PROVE  /\ Inserted(a \o b) = Inserted(a) \cup Inserted(b)
           /\ Tombstoned(a \o b) = Tombstoned(a) \cup Tombstoned(b)
<1> DEFINE c == a \o b
           m == Len(a)
<1>1. /\ DOMAIN a = 1 .. m /\ DOMAIN b = 1 .. Len(b) /\ DOMAIN c = 1 .. m + Len(b)
      /\ \A i \in 1 .. m : c[i] = a[i]
      /\ \A i \in 1 .. Len(b) : c[m + i] = b[i]
      /\ m \in Nat /\ Len(b) \in Nat
  OBVIOUS
<1> HIDE DEF c, m
<1>2. \A i \in DOMAIN a : i \in DOMAIN c /\ c[i] = a[i]
  BY <1>1
<1>3. \A i \in DOMAIN b : m + i \in DOMAIN c /\ c[m + i] = b[i]
  BY <1>1
<1>4. \A i \in DOMAIN c : (i \in DOMAIN a /\ c[i] = a[i]) \/ (i - m \in DOMAIN b /\ c[i] = b[i - m])
  <2> SUFFICES ASSUME NEW i \in DOMAIN c, i \notin DOMAIN a
               PROVE  i - m \in DOMAIN b /\ c[i] = b[i - m]
    BY ZenonT(30), <1>1
  <2>1. i - m \in 1 .. Len(b) /\ m + (i - m) = i
    BY <1>1
  <2> QED
    BY ZenonT(30), <1>1, <2>1
<1>5. Inserted(c) = Inserted(a) \cup Inserted(b)
  BY ZenonT(30), <1>2, <1>3, <1>4 DEF Inserted
<1>6. Tombstoned(c) = Tombstoned(a) \cup Tombstoned(b)
  BY ZenonT(30), <1>2, <1>3, <1>4 DEF Tombstoned
<1> QED
  BY ZenonT(30), <1>5, <1>6 DEF c

\* What is tombstoned, or never inserted, is not there after a replay.
LEMMA ReplayAway ==
    ASSUME NEW s \in Seq(Sound), NEW e \in Events, e \in Tombstoned(s) \/ e \notin Inserted(s)
    PROVE  e \notin Replay(s).live
<1>1. CASE e \in Tombstoned(s)
  <2> DEFINE Q == {m \in Mem : e \in m.tombs}
  <2>1. PICK i \in 1 .. Len(s) : s[i] = Rec("Tombstone", e)
    BY <1>1 DEF Tombstoned
  <2>2. \A m \in Mem, r \in Sound : ReplayOp(m, r) \in Mem
    BY ZenonT(30), ReplayOpType
  <2>3. ASSUME NEW m \in Mem, NEW r \in Sound, m \in Q PROVE ReplayOp(m, r) \in Q
    <3>1. ASSUME r.op = "Insert" PROVE ReplayOp(m, r).tombs = m.tombs
      <4>1. ReplayOp(m, r) = Ingest(m, r.id) /\ r.id \in Events
        BY ZenonT(30), <3>1, ReplayOpType
      <4> QED
        BY ZenonT(30), <4>1, IngestType
    <3>2. m.tombs \subseteq ReplayOp(m, r).tombs
      BY ZenonT(30), <3>1, ReplayOpType
    <3> QED
      BY ZenonT(30), <2>2, <2>3, <3>2
  <2>4. ASSUME NEW m \in Mem PROVE ReplayOp(m, s[i]) \in Q
    <3>1. s[i] \in Sound /\ s[i].op = "Tombstone" /\ s[i].id = e
      BY <2>1 DEF Rec
    <3>2. e \in ReplayOp(m, s[i]).tombs
      BY ZenonT(30), <3>1, ReplayOpType
    <3> QED
      BY ZenonT(30), <2>2, <3>1, <3>2
  <2>5. Replay(s) \in Q
    <3> HIDE DEF Q
    <3> QED
      BY ZenonT(30), <2>2, <2>3, <2>4, NothingType, ReplayReaches
  <2>6. \A i1 \in 1 .. Len(s) : s[i1].id \in Events
    BY DEF Sound, Record
  <2>7. Replay(s).live \cap Replay(s).tombs = {}
    BY ZenonT(30), <2>6, ReplaySafe
  <2> QED
    BY ZenonT(30), <2>5, <2>7
<1>2. CASE e \notin Inserted(s)
  <2> DEFINE S == {r \in Sound : r # Rec("Insert", e)}
             P == {m \in Mem : e \notin m.live}
  <2>1. \A i \in 1 .. Len(s) : s[i] \in S
    BY <1>2 DEF Inserted
  <2>2. s \in Seq(S)
    <3> HIDE DEF S
    <3> QED
      BY <2>1
  <2>3. Nothing \in P
    BY ZenonT(30), NothingType DEF Nothing
  <2>4. ASSUME NEW m \in P, NEW r \in S PROVE ReplayOp(m, r) \in P
    BY ZenonT(30), ReplayOpType, ReplayKeepsAway
  <2>5. Replay(s) \in P
    <3> HIDE DEF P, S
    <3> QED
      BY ZenonT(30), <2>2, <2>3, <2>4, ReplayInv
  <2> QED
    BY ZenonT(30), <2>5
<1> QED
  BY ZenonT(30), <1>1, <1>2

\* The same of a restart.
LEMMA RestoreAway ==
    ASSUME NEW lines \in Seq(Events), NEW old \in Seq(Record), NEW new \in Seq(Record),
           NEW e \in Events,
           \/ e \in ReadOut(old) \cup ReadOut(new)
           \/ e \notin Lines(lines) \cup ReadIn(old) \cup ReadIn(new)
    PROVE  e \notin Restore(lines, old, new).live
<1> DEFINE a == Insertions(lines)
           b == Readable(old)
           c == Readable(new)
<1>1. a \in Seq(Sound) /\ b \in Seq(Sound) /\ c \in Seq(Sound)
  BY ZenonT(30), InsertionsSound, ReadableSound
<1>2. a \o b \in Seq(Sound) /\ (a \o b) \o c \in Seq(Sound)
  <2> HIDE DEF a, b, c
  <2> QED
    BY <1>1
<1>3. Inserted(a) \subseteq Lines(lines)
  <2>1. /\ Len(a) = Len(lines) /\ DOMAIN a = 1 .. Len(lines) /\ DOMAIN lines = 1 .. Len(lines)
        /\ \A i \in 1 .. Len(lines) : a[i] = Rec("Insert", lines[i])
    BY <1>1, InsertionsSound
  <2>2. \A x, y : Rec("Insert", x) = Rec("Insert", y) => x = y
    BY ZenonT(30) DEF Rec
  <2> HIDE DEF a
  <2> QED
    BY ZenonT(30), <2>1, <2>2 DEF Inserted, Lines
<1>4. e \in Tombstoned((a \o b) \o c) \/ e \notin Inserted((a \o b) \o c)
  <2> HIDE DEF a, b, c
  <2>1. /\ Inserted((a \o b) \o c) = Inserted(a) \cup Inserted(b) \cup Inserted(c)
        /\ Tombstoned((a \o b) \o c) = Tombstoned(a) \cup Tombstoned(b) \cup Tombstoned(c)
    BY ZenonT(30), <1>1, <1>2, JoinedParts
  <2>2. ReadIn(old) = Inserted(b) /\ ReadIn(new) = Inserted(c)
        /\ ReadOut(old) = Tombstoned(b) /\ ReadOut(new) = Tombstoned(c)
    BY ZenonT(30) DEF ReadIn, ReadOut, b, c
  <2> QED
    BY ZenonT(30), <1>3, <2>1, <2>2
<1>5. Restore(lines, old, new) = Replay((a \o b) \o c)
  BY ZenonT(30) DEF Restore
<1> HIDE DEF a, b, c
<1> QED
  BY ZenonT(30), <1>2, <1>4, <1>5, ReplayAway

\* An empty segment, and one that gets another record.
LEMMA EmptyRead == /\ Readable(<<>>) = <<>> /\ ReadIn(<<>>) = {} /\ ReadOut(<<>>) = {}
                   /\ ~HasTorn(<<>>)
<1>1. <<>> \in Seq(Record) /\ ~HasTorn(<<>>)
  BY DEF HasTorn
<1>2. Readable(<<>>) = <<>>
  BY ZenonT(30), <1>1, ReadableSound
<1>3. Tombstoned(<<>>) = {}
  BY DEF Tombstoned
<1> QED
  BY ZenonT(30), <1>1, <1>2, <1>3, EmptyParts DEF ReadIn, ReadOut

LEMMA AppendRead ==
    ASSUME NEW s \in Seq(Record), NEW r \in Sound
    PROVE  /\ HasTorn(Append(s, r)) = HasTorn(s)
           /\ HasTorn(s) => Readable(Append(s, r)) = Readable(s)
           /\ ReadOut(s) \subseteq ReadOut(Append(s, r))
           /\ \A e \in Events : e \in ReadIn(Append(s, r)) =>
                e \in ReadIn(s) \/ (r = Rec("Insert", e) /\ ~HasTorn(s))
           /\ \A e \in Events : r = Rec("Tombstone", e) /\ ~HasTorn(s) => e \in ReadOut(Append(s, r))
<1> DEFINE q == Readable(s)
           a == Append(s, r)
<1>1. /\ HasTorn(a) = HasTorn(s)
      /\ Readable(a) = IF HasTorn(s) THEN q ELSE Append(q, r)
  BY ZenonT(30), ReadableAppend
<1>2. q \in Seq(Sound)
  BY ZenonT(30), ReadableSound
<1> HIDE DEF q, a
<1>3. /\ Inserted(Append(q, r)) \subseteq Inserted(q) \cup {e \in Events : r = Rec("Insert", e)}
      /\ Tombstoned(q) \cup {e \in Events : r = Rec("Tombstone", e)} \subseteq Tombstoned(Append(q, r))
  <2>1. /\ DOMAIN Append(q, r) = 1 .. Len(q) + 1 /\ DOMAIN q = 1 .. Len(q)
        /\ \A i \in 1 .. Len(q) : Append(q, r)[i] = q[i]
        /\ Append(q, r)[Len(q) + 1] = r /\ Len(q) \in Nat
    BY <1>2
  <2>2. \A i \in 1 .. Len(q) + 1 : i \in 1 .. Len(q) \/ i = Len(q) + 1
    BY <2>1
  <2>3. 1 .. Len(q) \subseteq 1 .. Len(q) + 1 /\ Len(q) + 1 \in 1 .. Len(q) + 1
    BY <2>1
  <2> QED
    BY ZenonT(30), <2>1, <2>2, <2>3 DEF Inserted, Tombstoned
<1>4. /\ ReadIn(a) = Inserted(Readable(a)) /\ ReadIn(s) = Inserted(q)
      /\ ReadOut(a) = Tombstoned(Readable(a)) /\ ReadOut(s) = Tombstoned(q)
  BY ZenonT(30) DEF ReadIn, ReadOut, q
<1>5. CASE HasTorn(s)
  BY ZenonT(30), <1>1, <1>4, <1>5 DEF a, q
<1>6. CASE ~HasTorn(s)
  BY ZenonT(30), <1>1, <1>3, <1>4, <1>6 DEF a, q
<1> QED
  BY ZenonT(30), <1>5, <1>6

\* e has no copy left that the steps of a checkpoint may bring back.
Uncopied(e) ==
    /\ ckpt = "idle" => e \notin Lines(snapshot)
    /\ ckpt = "scan" =>
         /\ e \notin Lines(temp)
         /\ e \in ReadOut(wal_old) \/ e \notin Lines(snapshot) \cup ReadIn(wal_old)
    /\ ckpt = "remove" =>
         /\ e \notin Lines(snapshot)
         /\ e \in ReadOut(wal_old) \/ e \notin ReadIn(wal_old)

\* The log does not insert e, whatever is still written to it.
Unread(e) == e \notin ReadIn(wal) /\ (HasTorn(wal) \/ e \notin Pending)

\* Away from disk: the next restart does not bring e back, and no checkpoint changes that.
Away(e) == e \in ReadOut(wal) \/ (Unread(e) /\ Uncopied(e))

\* The deletion of t has its record in the log, unless a rotation took it away or half a
\* record is before it.
Recorded(t) == ev[t] \in raced \/ ev[t] \in ReadOut(wal) \/ HasTorn(wal)

DelStart ==
    /\ live \cap tombs = {}
    /\ phase = "loaded" /\ ckpt = "scan" => Lines(temp) \subseteq live
    /\ phase = "loaded" /\ ckpt = "remove" => Lines(snapshot) \subseteq live

DelUp ==
    phase = "up" =>
      /\ ckpt = "idle" => wal_old = <<>>
      /\ HasTorn(wal) => ckpt = "idle" /\ snapshot = <<>> /\ Readable(wal) = <<>>
      /\ \A e \in tombs \ raced : Away(e)
      /\ \A t \in Threads : Recording(t) => Recorded(t)

DelInv == CallInv /\ DelStart /\ DelUp

LEMMA InitDelInv == Init => DelInv
BY ZenonT(30), InitCallInv DEF Init, DelInv, DelStart, DelUp

\* Memory and the copies: what is deleted is not in memory, and startup copies memory.
LEMMA DelStartStep ==
    ASSUME TypeInv, DelInv, [Next]_vars
    PROVE  DelStart'
<1>1. DelStart /\ Lines(<<>>) = {}
  BY ZenonT(30), EmptyParts DEF DelInv
<1>2. ASSUME phase' = "up", live' \cap tombs' = {} PROVE DelStart'
  BY ZenonT(30), <1>2 DEF DelStart
<1>3. ASSUME UNCHANGED <<phase, ckpt, temp, live, tombs, snapshot>> PROVE DelStart'
  BY ZenonT(30), <1>1, <1>3 DEF DelStart, Lines
<1>4. ASSUME NEW t \in Threads, NEW e \in Events, Publish(t, e) PROVE DelStart'
  <2>1. phase' = "up" /\ tombs' = tombs
        /\ (live' = live \/ (e \notin tombs /\ live' = (live \ Versions(live, e)) \cup {e}))
    BY ZenonT(30), <1>4 DEF Publish, Idle, Accepts
  <2>2. live' \cap tombs' = {}
    BY ZenonT(30), <1>1, <2>1 DEF DelStart
  <2> QED
    BY ZenonT(30), <1>2, <2>1, <2>2
<1>5. ASSUME NEW t \in Threads, NEW e \in Events, Delete(t, e) PROVE DelStart'
  BY ZenonT(30), <1>3, <1>5 DEF Delete, memory, disk, checkpointer
<1>6. ASSUME NEW t \in Threads, WriteRecord(t) \/ MarkDirty(t) PROVE DelStart'
  BY ZenonT(30), <1>3, <1>6 DEF WriteRecord, MarkDirty, memory, disk, checkpointer
<1>7. ASSUME NEW t \in Threads, DeleteById(t) PROVE DelStart'
  <2>1. phase' = "up" /\ live' = live \ {ev[t]} /\ tombs' = tombs \cup {ev[t]}
    BY ZenonT(30), <1>7 DEF DeleteById, TypeInv, LogInv, AloneInStartup
  <2>2. live' \cap tombs' = {}
    BY ZenonT(30), <1>1, <2>1 DEF DelStart
  <2> QED
    BY ZenonT(30), <1>2, <2>1, <2>2
<1>8. ASSUME NEW e \in Events, Evict(e) PROVE DelStart'
  <2>1. phase' = "up" /\ live' \subseteq live /\ tombs' = tombs
    BY ZenonT(30), <1>8 DEF Evict
  <2> QED
    BY ZenonT(30), <1>1, <1>2, <2>1 DEF DelStart
<1>9. CASE GroupCommit \/ UNCHANGED vars
  BY ZenonT(30), <1>3, <1>9 DEF GroupCommit, vars, memory, disk, checkpointer
<1>10. CASE Rotate
  <2>1. ckpt' = "scan" /\ temp' = <<>> /\ UNCHANGED <<live, tombs>>
    BY ZenonT(30), <1>10 DEF Rotate, memory
  <2> QED
    BY ZenonT(30), <1>1, <2>1 DEF DelStart
<1>11. ASSUME NEW e \in Events, Visit(e) PROVE DelStart'
  <2>1. /\ ckpt = "scan" /\ UNCHANGED <<phase, ckpt, live, tombs>>
        /\ temp' = IF e \in live THEN Append(temp, e) ELSE temp
    BY ZenonT(30), <1>11 DEF Visit, memory
  <2>2. temp \in Seq(Events)
    BY ZenonT(30) DEF TypeInv, DiskType
  <2>3. e \notin live \/ Lines(temp') = Lines(temp) \cup {e}
    BY ZenonT(30), <2>1, <2>2, LinesAppend
  <2>4. phase = "loaded" => Lines(temp') \subseteq live
    BY ZenonT(30), <1>1, <2>1, <2>3 DEF DelStart
  <2> QED
    BY ZenonT(30), <1>1, <2>1, <2>4 DEF DelStart
<1>12. CASE RenameSnapshot
  <2>1. ckpt = "scan" /\ ckpt' = "remove" /\ UNCHANGED <<phase, live, tombs>> /\ snapshot' = temp
    BY ZenonT(30), <1>12 DEF RenameSnapshot, memory
  <2> QED
    BY ZenonT(30), <1>1, <2>1 DEF DelStart, Lines
<1>13. CASE RemoveOld \/ SnapshotFails
  <2>1. phase' = "up" /\ UNCHANGED <<live, tombs>>
    BY ZenonT(30), <1>13 DEF RemoveOld, SnapshotFails, CheckpointOver, memory
  <2> QED
    BY ZenonT(30), <1>1, <1>2, <2>1 DEF DelStart
<1>14. CASE Crash \/ PowerLoss
  BY ZenonT(30), <1>14 DEF Crash, PowerLoss, Die, DelStart
<1>15. CASE Load
  <2> DEFINE m == Restore(snapshot, wal_old, wal)
             all == Entries(snapshot, wal_old, wal)
  <2>1. live' = m.live /\ tombs' = m.tombs /\ ckpt' = "idle"
    BY ZenonT(30), <1>15 DEF Load, checkpointer, TypeInv, LogInv, AloneInStartup
  <2>2. snapshot \in Seq(Events) /\ wal_old \in Seq(Record) /\ wal \in Seq(Record)
    BY ZenonT(30) DEF TypeInv, DiskType, LogInv, LogType
  <2>3. all \in Seq(Sound)
    BY ZenonT(30), <2>2, EntriesSound
  <2>4. m = Replay(all)
    BY ZenonT(30) DEF Restore, Entries
  <2> HIDE DEF all, m
  <2>5. \A i \in 1 .. Len(all) : all[i].id \in Events
    BY <2>3 DEF Sound, Record
  <2>6. m.live \cap m.tombs = {}
    BY ZenonT(30), <2>3, <2>4, <2>5, ReplaySafe
  <2> QED
    BY ZenonT(30), <2>1, <2>6 DEF DelStart
<1>16. CASE DropOld
  <2>1. UNCHANGED <<live, tombs>> /\ ckpt' \in {"idle", "rotate"}
    BY ZenonT(30), <1>16 DEF DropOld, memory
  <2> QED
    BY ZenonT(30), <1>1, <2>1 DEF DelStart
<1> QED
  BY ZenonT(30), <1>4, <1>5, <1>6, <1>7, <1>8, <1>9, <1>10, <1>11, <1>12, <1>13, <1>14, <1>15, <1>16
     DEF Next, Checkpoint

\* The calls move on, and the files stay as they are.
LEMMA AwaySame ==
    ASSUME UNCHANGED <<wal, wal_old, snapshot, temp, ckpt>>, NEW e, Away(e),
           e \in Pending' => e \in Pending
    PROVE  Away(e)'
<1>1. /\ ReadIn(wal)' = ReadIn(wal) /\ ReadOut(wal)' = ReadOut(wal) /\ HasTorn(wal)' = HasTorn(wal)
      /\ ReadIn(wal_old)' = ReadIn(wal_old) /\ ReadOut(wal_old)' = ReadOut(wal_old)
      /\ Lines(snapshot)' = Lines(snapshot) /\ Lines(temp)' = Lines(temp)
  BY ZenonT(30)
<1> QED
  BY ZenonT(30), <1>1 DEF Away, Unread, Uncopied

LEMMA DelSame ==
    ASSUME DelUp, phase = "up", UNCHANGED <<wal, wal_old, snapshot, temp, ckpt, tombs, raced>>,
           Pending' \subseteq Pending \cup (Events \ tombs),
           \A u \in Threads : Recording(u)' => Recording(u) /\ ev'[u] = ev[u]
    PROVE  DelUp'
<1>1. /\ ckpt = "idle" => wal_old = <<>>
      /\ HasTorn(wal) => ckpt = "idle" /\ snapshot = <<>> /\ Readable(wal) = <<>>
      /\ \A e \in tombs \ raced : Away(e)
      /\ \A t \in Threads : Recording(t) => Recorded(t)
  BY ZenonT(30) DEF DelUp
<1>2. \A e \in tombs \ raced : Away(e)'
  BY ZenonT(30), <1>1, AwaySame
<1>3. \A t \in Threads : Recording(t)' => Recorded(t)'
  BY ZenonT(30), <1>1 DEF Recorded
<1>4. /\ ckpt' = "idle" => wal_old' = <<>>
      /\ HasTorn(wal)' => ckpt' = "idle" /\ snapshot' = <<>> /\ Readable(wal)' = <<>>
  BY ZenonT(30), <1>1
<1> QED
  BY ZenonT(30), <1>2, <1>3, <1>4 DEF DelUp

\* A record is written: it inserts no deleted event, and the one of a deletion is read.
LEMMA DelWrite ==
    ASSUME TypeInv, DelInv, NEW t \in Threads, WriteRecord(t)
    PROVE  DelUp'
<1> DEFINE r == Head(recs[t])
<1>1. /\ phase = "up" /\ UNCHANGED <<phase, tombs, ev, raced, snapshot, wal_old, ckpt, temp>>
      /\ wal' = Append(wal, r)
  BY ZenonT(30) DEF WriteRecord, memory, checkpointer, history, Forget, TypeInv, LogInv, AloneInStartup
<1>2. /\ r \in Sound /\ OfCall(t, r) /\ Pending' \subseteq Pending
      /\ \A x \in Events : r = Rec("Insert", x) => x \in Pending
      /\ \A u \in Threads : Recording(u)' => Recording(u) \/ (u = t /\ op[t] = "delete")
  BY ZenonT(30), WriteCalls DEF DelInv
<1>3. /\ wal \in Seq(Record) /\ tombs \subseteq Events /\ ev[t] \in Events
  BY ZenonT(30) DEF WriteRecord, TypeInv, MemoryType, ControlType, LogInv, LogType
<1> HIDE DEF r
<1>4. /\ HasTorn(wal)' = HasTorn(wal)
      /\ HasTorn(wal) => Readable(wal)' = Readable(wal)
      /\ ReadOut(wal) \subseteq ReadOut(wal)'
      /\ \A e \in Events : e \in ReadIn(wal)' =>
           e \in ReadIn(wal) \/ (r = Rec("Insert", e) /\ ~HasTorn(wal))
      /\ \A e \in Events : r = Rec("Tombstone", e) /\ ~HasTorn(wal) => e \in ReadOut(wal)'
  <2>1. /\ HasTorn(Append(wal, r)) = HasTorn(wal)
        /\ HasTorn(wal) => Readable(Append(wal, r)) = Readable(wal)
        /\ ReadOut(wal) \subseteq ReadOut(Append(wal, r))
        /\ \A e \in Events : e \in ReadIn(Append(wal, r)) =>
             e \in ReadIn(wal) \/ (r = Rec("Insert", e) /\ ~HasTorn(wal))
        /\ \A e \in Events : r = Rec("Tombstone", e) /\ ~HasTorn(wal) => e \in ReadOut(Append(wal, r))
    BY ZenonT(30), <1>2, <1>3, AppendRead
  <2> QED
    BY ZenonT(30), <1>1, <2>1
<1>5. /\ ckpt = "idle" => wal_old = <<>>
      /\ HasTorn(wal) => ckpt = "idle" /\ snapshot = <<>> /\ Readable(wal) = <<>>
      /\ \A e \in tombs \ raced : Away(e)
      /\ \A u \in Threads : Recording(u) => Recorded(u)
  BY ZenonT(30), <1>1 DEF DelInv, DelUp
<1>6. ASSUME NEW e \in tombs \ raced PROVE Away(e)'
  <2>1. e \in Events /\ Away(e)
    BY ZenonT(30), <1>3, <1>5
  <2>2. CASE e \in ReadOut(wal)
    BY ZenonT(30), <1>4, <2>2 DEF Away
  <2>3. CASE Unread(e) /\ Uncopied(e)
    <3>1. Unread(e)'
      BY ZenonT(30), <1>2, <1>4, <2>1, <2>3 DEF Unread
    <3>2. Uncopied(e)'
      <4>1. /\ ReadIn(wal_old)' = ReadIn(wal_old) /\ ReadOut(wal_old)' = ReadOut(wal_old)
            /\ Lines(snapshot)' = Lines(snapshot) /\ Lines(temp)' = Lines(temp)
        BY ZenonT(30), <1>1
      <4> QED
        BY ZenonT(30), <1>1, <2>3, <4>1 DEF Uncopied
    <3> QED
      BY ZenonT(30), <3>1, <3>2 DEF Away
  <2> QED
    BY ZenonT(30), <2>1, <2>2, <2>3 DEF Away
<1>7. ASSUME NEW u \in Threads, Recording(u)' PROVE Recorded(u)'
  <2>1. CASE Recording(u)
    BY ZenonT(30), <1>1, <1>4, <1>5, <2>1 DEF Recorded
  <2>2. CASE u = t /\ op[t] = "delete"
    <3>1. r = Rec("Tombstone", ev[t])
      BY <1>2, <2>2 DEF OfCall, Rec
    <3>2. ev[t] \in ReadOut(wal)' \/ HasTorn(wal)'
      BY ZenonT(30), <1>3, <1>4, <3>1
    <3>3. ev'[u] = ev[t]
      BY ZenonT(30), <1>1, <2>2
    <3> QED
      BY ZenonT(30), <3>2, <3>3 DEF Recorded
  <2> QED
    BY ZenonT(30), <1>2, <1>7, <2>1, <2>2
<1>8. /\ ckpt' = "idle" => wal_old' = <<>>
      /\ HasTorn(wal)' => ckpt' = "idle" /\ snapshot' = <<>> /\ Readable(wal)' = <<>>
  BY ZenonT(30), <1>1, <1>4, <1>5
<1> QED
  BY ZenonT(30), <1>1, <1>6, <1>7, <1>8 DEF DelUp

\* The rotation: what it takes away while a call is about it is in raced.
LEMMA DelRotate ==
    ASSUME TypeInv, DelInv, phase = "up", Rotate
    PROVE  DelUp'
<1>1. /\ ckpt = "idle" /\ ckpt' = "scan" /\ wal_old' = wal /\ wal' = <<>> /\ temp' = <<>>
      /\ UNCHANGED <<tombs, snapshot, recs, pc, op, ev>> /\ raced' = raced \cup Racing
  BY ZenonT(30) DEF Rotate, memory, tasks, TypeInv, LogInv, AloneInStartup
<1>2. Pending' = Pending /\ \A u \in Threads : Recording(u)' = Recording(u)
  BY ZenonT(30), <1>1 DEF Pending, Recording
<1>3. /\ ReadIn(wal)' = {} /\ ReadOut(wal)' = {} /\ ~HasTorn(wal)' /\ Lines(temp)' = {}
      /\ ReadIn(wal_old)' = ReadIn(wal) /\ ReadOut(wal_old)' = ReadOut(wal)
      /\ Lines(snapshot)' = Lines(snapshot)
  BY ZenonT(30), <1>1, EmptyRead, EmptyParts
<1>4. Pending \subseteq InFlight /\ \A u \in Threads : Recording(u) => ev[u] \in InFlight
  BY ZenonT(30), InFlightHas DEF DelInv
<1>5. \A e \in tombs \ raced : Away(e)
  BY ZenonT(30) DEF DelInv, DelUp
<1>6. ASSUME NEW e \in tombs' \ raced' PROVE Away(e)'
  <2>1. e \notin Pending /\ Away(e)
    BY ZenonT(30), <1>1, <1>4, <1>5 DEF Racing
  <2>2. e \in ReadOut(wal) \/ e \notin Lines(snapshot) \cup ReadIn(wal)
    BY ZenonT(30), <1>1, <2>1 DEF Away, Unread, Uncopied
  <2> QED
    BY ZenonT(30), <1>1, <1>2, <1>3, <2>1, <2>2 DEF Away, Unread, Uncopied
<1>7. ASSUME NEW u \in Threads, Recording(u)' PROVE Recorded(u)'
  <2>1. ev[u] \in InFlight /\ op[u] = "delete"
    BY ZenonT(30), <1>2, <1>4, <1>7 DEF Recording
  <2>2. ev[u] \in Racing
    BY ZenonT(30), <2>1 DEF Racing
  <2> QED
    BY ZenonT(30), <1>1, <2>2 DEF Recorded
<1> QED
  BY ZenonT(30), <1>1, <1>3, <1>6, <1>7 DEF DelUp

\* The steps of write_snapshot, which copies no deleted event.
LEMMA DelCopy ==
    ASSUME TypeInv, DelInv, phase = "up", RenameSnapshot \/ \E e \in Events : Visit(e)
    PROVE  DelUp'
<1>1. /\ ckpt = "scan" /\ ckpt' \in {"scan", "remove"} /\ ~HasTorn(wal)
      /\ UNCHANGED <<tombs, raced, wal, wal_old, recs, pc, op, ev>>
      /\ \/ /\ ckpt' = "scan" /\ snapshot' = snapshot
            /\ \E x \in Events : temp' = IF x \in live THEN Append(temp, x) ELSE temp
         \/ ckpt' = "remove" /\ snapshot' = temp
  BY ZenonT(30) DEF RenameSnapshot, Visit, memory, tasks, disk, log, history, DelInv, DelUp
<1>2. Pending' = Pending /\ \A u \in Threads : Recording(u)' = Recording(u)
  BY ZenonT(30), <1>1 DEF Pending, Recording
<1>3. /\ ReadIn(wal)' = ReadIn(wal) /\ ReadOut(wal)' = ReadOut(wal) /\ HasTorn(wal)' = HasTorn(wal)
      /\ ReadIn(wal_old)' = ReadIn(wal_old) /\ ReadOut(wal_old)' = ReadOut(wal_old)
  BY ZenonT(30), <1>1
<1>4. /\ \A e \in tombs \ raced : Away(e)
      /\ \A u \in Threads : Recording(u) => Recorded(u)
      /\ live \cap tombs = {} /\ temp \in Seq(Events)
  BY ZenonT(30) DEF DelInv, DelUp, DelStart, TypeInv, DiskType
<1>5. ASSUME NEW e \in tombs \ raced PROVE Away(e)'
  <2>1. Away(e)
    BY ZenonT(30), <1>4
  <2>2. CASE e \in ReadOut(wal)
    BY ZenonT(30), <1>3, <2>2 DEF Away
  <2>3. CASE Unread(e) /\ Uncopied(e)
    <3>1. Unread(e)'
      BY ZenonT(30), <1>2, <1>3, <2>3 DEF Unread
    <3>2. /\ e \notin Lines(temp)
          /\ e \in ReadOut(wal_old) \/ e \notin Lines(snapshot) \cup ReadIn(wal_old)
      BY ZenonT(30), <1>1, <2>3 DEF Uncopied
    <3>3. CASE ckpt' = "scan" /\ snapshot' = snapshot
      <4>1. PICK x \in Events : temp' = IF x \in live THEN Append(temp, x) ELSE temp
        BY ZenonT(30), <1>1, <3>3
      <4>2. e \notin Lines(temp')
        <5>1. CASE x \in live
          <6>1. Lines(Append(temp, x)) = Lines(temp) \cup {x} /\ temp' = Append(temp, x)
            BY ZenonT(30), <1>4, <4>1, <5>1, LinesAppend
          <6>2. e # x
            BY ZenonT(30), <1>4, <5>1
          <6> QED
            BY ZenonT(30), <3>2, <6>1, <6>2
        <5>2. CASE x \notin live
          BY ZenonT(30), <3>2, <4>1, <5>2
        <5> QED
          BY ZenonT(30), <5>1, <5>2
      <4>3. Lines(snapshot)' = Lines(snapshot)
        BY ZenonT(30), <3>3
      <4>4. Uncopied(e)'
        BY ZenonT(30), <1>3, <3>2, <3>3, <4>2, <4>3 DEF Uncopied
      <4> QED
        BY ZenonT(30), <3>1, <4>4 DEF Away
    <3>4. CASE ckpt' = "remove" /\ snapshot' = temp
      <4>1. Lines(snapshot)' = Lines(temp)
        BY ZenonT(30), <3>4
      <4>2. Uncopied(e)'
        BY ZenonT(30), <1>3, <3>2, <3>4, <4>1 DEF Uncopied
      <4> QED
        BY ZenonT(30), <3>1, <4>2 DEF Away
    <3> QED
      BY ZenonT(30), <1>1, <3>3, <3>4
  <2> QED
    BY ZenonT(30), <2>1, <2>2, <2>3 DEF Away
<1>6. \A u \in Threads : Recording(u)' => Recorded(u)'
  BY ZenonT(30), <1>1, <1>2, <1>3, <1>4 DEF Recorded
<1>7. ckpt' # "idle" /\ ~HasTorn(wal)'
  BY ZenonT(30), <1>1, <1>3
<1> QED
  BY ZenonT(30), <1>1, <1>5, <1>6, <1>7 DEF DelUp

\* A checkpoint beside the calls is over.
LEMMA DelOver ==
    ASSUME TypeInv, DelInv, phase = "up", RemoveOld
    PROVE  DelUp'
<1>1. /\ ckpt = "remove" /\ ckpt' = "idle" /\ wal_old' = <<>> /\ ~HasTorn(wal)
      /\ UNCHANGED <<tombs, raced, wal, snapshot, recs, pc, op, ev>>
  BY ZenonT(30) DEF RemoveOld, CheckpointOver, memory, tasks, log, history, DelInv, DelUp
<1>2. Pending' = Pending /\ \A u \in Threads : Recording(u)' = Recording(u)
  BY ZenonT(30), <1>1 DEF Pending, Recording
<1>3. /\ ReadIn(wal)' = ReadIn(wal) /\ ReadOut(wal)' = ReadOut(wal) /\ HasTorn(wal)' = HasTorn(wal)
      /\ Lines(snapshot)' = Lines(snapshot)
  BY ZenonT(30), <1>1
<1>4. /\ \A e \in tombs \ raced : Away(e)
      /\ \A u \in Threads : Recording(u) => Recorded(u)
  BY ZenonT(30) DEF DelInv, DelUp
<1>5. ASSUME NEW e \in tombs \ raced PROVE Away(e)'
  <2>1. Away(e)
    BY ZenonT(30), <1>4
  <2> QED
    BY ZenonT(30), <1>1, <1>2, <1>3, <2>1 DEF Away, Unread, Uncopied
<1>6. \A u \in Threads : Recording(u)' => Recorded(u)'
  BY ZenonT(30), <1>1, <1>2, <1>3, <1>4 DEF Recorded
<1> QED
  BY ZenonT(30), <1>1, <1>3, <1>5, <1>6 DEF DelUp

\* Startup ends: the files hold what memory has, or nothing that can be read.
LEMMA DelServe ==
    ASSUME TypeInv, DelInv, phase = "loaded", RemoveOld \/ DropOld, phase' = "up"
    PROVE  DelUp'
<1>1. /\ UNCHANGED <<tombs, raced, pc, op, ev, recs, snapshot, wal>>
      /\ wal_old' = <<>> /\ ckpt' = "idle"
  BY ZenonT(30) DEF RemoveOld, CheckpointOver, DropOld, memory, log, tasks, history
<1>2. Pending = {} /\ \A t \in Threads : ~Recording(t)
  BY ZenonT(30), NoCalls DEF DelInv
<1>3. Pending' = {} /\ \A t \in Threads : ~Recording(t)'
  BY ZenonT(30), <1>1, <1>2 DEF Pending, Recording
<1>4. ReadIn(wal)' = ReadIn(wal) /\ Lines(snapshot)' = Lines(snapshot)
  BY ZenonT(30), <1>1
<1>5. ASSUME ReadIn(wal) = {}, Lines(snapshot) \cap tombs = {},
             HasTorn(wal) => snapshot = <<>> /\ Readable(wal) = <<>>
      PROVE  DelUp'
  <2>1. \A e \in tombs' : Away(e)'
    BY ZenonT(30), <1>1, <1>3, <1>4, <1>5 DEF Away, Unread, Uncopied
  <2>2. HasTorn(wal)' => ckpt' = "idle" /\ snapshot' = <<>> /\ Readable(wal)' = <<>>
    BY ZenonT(30), <1>1, <1>5
  <2> QED
    BY ZenonT(30), <1>1, <1>3, <2>1, <2>2 DEF DelUp
<1>6. CASE RemoveOld
  <2>1. wal = <<>> /\ Lines(snapshot) \subseteq live /\ live \cap tombs = {}
    BY ZenonT(30), <1>6 DEF RemoveOld, TypeInv, LogInv, AloneInStartup, DelInv, DelStart
  <2> QED
    BY ZenonT(30), <1>5, <2>1, EmptyRead
<1>7. CASE DropOld
  <2>1. snapshot \o Readable(wal_old) \o Readable(wal) = <<>>
    BY ZenonT(30), <1>7 DEF DropOld
  <2>2. /\ snapshot \in Seq(Events) /\ Readable(wal_old) \in Seq(Sound)
        /\ Readable(wal) \in Seq(Sound)
    BY ZenonT(30), ReadableSound DEF TypeInv, DiskType, LogInv, LogType
  <2>3. snapshot = <<>> /\ Readable(wal) = <<>>
    BY <2>1, <2>2
  <2>4. ReadIn(wal) = {} /\ Lines(snapshot) = {}
    BY ZenonT(30), <2>3, EmptyParts DEF ReadIn
  <2> QED
    BY ZenonT(30), <1>5, <2>3, <2>4
<1> QED
  BY ZenonT(30), <1>6, <1>7

\* delete_by_id: the record is in the log, or a rotation took it away.
LEMMA DelRemove ==
    ASSUME TypeInv, DelInv, NEW t \in Threads, DeleteById(t)
    PROVE  DelUp'
<1>1. /\ phase = "up" /\ UNCHANGED <<raced, wal, wal_old, snapshot, temp, ckpt>>
      /\ tombs' = tombs \cup {ev[t]}
  BY ZenonT(30) DEF DeleteById, disk, log, checkpointer, history, TypeInv, LogInv, AloneInStartup
<1>2. /\ Recording(t) /\ ~Recording(t)' /\ Pending' = Pending
      /\ \A u \in Threads \ {t} : Recording(u)' = Recording(u) /\ ev'[u] = ev[u]
  BY ZenonT(30), RemoveCalls DEF DelInv
<1>3. /\ ckpt = "idle" => wal_old = <<>>
      /\ HasTorn(wal) => ckpt = "idle" /\ snapshot = <<>> /\ Readable(wal) = <<>>
      /\ \A e \in tombs \ raced : Away(e)
      /\ \A u \in Threads : Recording(u) => Recorded(u)
  BY ZenonT(30), <1>1 DEF DelInv, DelUp
<1>4. ev[t] \in raced \/ Away(ev[t])
  <2>1. CASE HasTorn(wal)
    <3>1. ReadIn(wal) = {} /\ Lines(snapshot) = {} /\ ckpt = "idle"
      BY ZenonT(30), <1>3, <2>1, EmptyParts DEF ReadIn
    <3> QED
      BY ZenonT(30), <2>1, <3>1 DEF Away, Unread, Uncopied
  <2>2. CASE ev[t] \in ReadOut(wal)
    BY ZenonT(30), <2>2 DEF Away
  <2> QED
    BY ZenonT(30), <1>2, <1>3, <2>1, <2>2 DEF Recorded
<1>5. \A e \in tombs' \ raced' : Away(e)'
  <2>1. \A e \in tombs' \ raced' : Away(e)
    BY ZenonT(30), <1>1, <1>3, <1>4
  <2> QED
    BY ZenonT(30), <1>1, <1>2, <2>1, AwaySame
<1>6. \A u \in Threads : Recording(u)' => Recorded(u)'
  <2> SUFFICES ASSUME NEW u \in Threads, Recording(u)' PROVE Recorded(u)'
    BY ZenonT(30)
  <2>1. Recorded(u) /\ ev'[u] = ev[u]
    BY ZenonT(30), <1>2, <1>3
  <2>2. ReadOut(wal)' = ReadOut(wal) /\ HasTorn(wal)' = HasTorn(wal) /\ raced' = raced
    BY ZenonT(30), <1>1
  <2> QED
    BY ZenonT(30), <2>1, <2>2 DEF Recorded
<1>7. /\ ckpt' = "idle" => wal_old' = <<>>
      /\ HasTorn(wal)' => ckpt' = "idle" /\ snapshot' = <<>> /\ Readable(wal)' = <<>>
  BY ZenonT(30), <1>1, <1>3
<1> QED
  BY ZenonT(30), <1>5, <1>6, <1>7 DEF DelUp

\* While the relay serves, no step brings a deleted event back to the files that no
\* rotation met in flight.
LEMMA DelUpStep ==
    ASSUME ~IOErrors, TypeInv, DelInv, [Next]_vars
    PROVE  DelUp'
<1>1. ASSUME phase' # "up" PROVE DelUp'
  BY ZenonT(30), <1>1 DEF DelUp
<1>2. ASSUME phase = "up", UNCHANGED <<wal, wal_old, snapshot, temp, ckpt, tombs, raced>>,
             Pending' \subseteq Pending \cup (Events \ tombs),
             \A u \in Threads : Recording(u)' => Recording(u) /\ ev'[u] = ev[u]
      PROVE  DelUp'
  BY ZenonT(30), <1>2, DelSame DEF DelInv
<1>3. ASSUME phase = "up", UNCHANGED <<wal, wal_old, snapshot, temp, ckpt, tombs, raced, tasks>>
      PROVE  DelUp'
  <2>1. Pending' = Pending /\ \A u \in Threads : Recording(u)' = Recording(u) /\ ev'[u] = ev[u]
    BY ZenonT(30), <1>3 DEF tasks, Pending, Recording
  <2> QED
    BY ZenonT(30), <1>2, <1>3, <2>1
<1>4. ASSUME NEW t \in Threads, NEW e \in Events, Publish(t, e) PROVE DelUp'
  <2>1. phase = "up" /\ UNCHANGED <<wal, wal_old, snapshot, temp, ckpt, tombs, raced>>
    BY ZenonT(30), <1>4 DEF Publish, Idle, disk, log, checkpointer, history
  <2>2. CASE ~Accepts(live, tombs, e)
    BY ZenonT(30), <1>3, <1>4, <2>1, <2>2 DEF Publish
  <2>3. CASE Accepts(live, tombs, e)
    <3>1. /\ Pending' = Pending \cup {e}
          /\ \A u \in Threads : Recording(u)' = Recording(u) /\ (Recording(u) => ev'[u] = ev[u])
      BY ZenonT(30), <1>4, <2>3, PublishCalls DEF DelInv
    <3>2. e \notin tombs
      BY ZenonT(30), <2>3 DEF Accepts
    <3> QED
      BY ZenonT(30), <1>2, <2>1, <3>1, <3>2
  <2> QED
    BY ZenonT(30), <2>2, <2>3
<1>5. ASSUME NEW t \in Threads, NEW e \in Events, Delete(t, e) PROVE DelUp'
  <2>1. phase = "up" /\ UNCHANGED <<wal, wal_old, snapshot, temp, ckpt, tombs, raced>>
    BY ZenonT(30), <1>5 DEF Delete, Idle, disk, log, memory, checkpointer, history
  <2> QED
    BY ZenonT(30), <1>2, <1>5, <2>1, DeleteCalls DEF DelInv
<1>6. ASSUME NEW t \in Threads, MarkDirty(t) PROVE DelUp'
  <2>1. phase = "up" /\ UNCHANGED <<wal, wal_old, snapshot, temp, ckpt, tombs, raced>>
    BY ZenonT(30), <1>6 DEF MarkDirty, disk, log, memory, checkpointer, TypeInv, LogInv, AloneInStartup
  <2> QED
    BY ZenonT(30), <1>2, <1>6, <2>1, MarkCalls DEF DelInv
<1>7. ASSUME NEW e \in Events, Evict(e) PROVE DelUp'
  BY ZenonT(30), <1>3, <1>7 DEF Evict, disk, log, checkpointer, Forget
<1>8. CASE GroupCommit \/ UNCHANGED vars
  BY ZenonT(30), <1>1, <1>3, <1>8 DEF GroupCommit, Fsync, ClearFlag, vars, disk, log, memory, history, checkpointer
<1>9. CASE Rotate \/ RenameSnapshot \/ \E e \in Events : Visit(e)
  <2>1. phase' = phase
    BY ZenonT(30), <1>9 DEF Rotate, RenameSnapshot, Visit
  <2> QED
    BY ZenonT(30), <1>1, <1>9, <2>1, DelRotate, DelCopy
<1>10. CASE RemoveOld
  <2>1. phase \in {"up", "loaded"} /\ phase' = "up"
    BY ZenonT(30), <1>10 DEF RemoveOld, CheckpointOver, TypeInv, LogInv, AloneInStartup
  <2> QED
    BY ZenonT(30), <1>10, <2>1, DelOver, DelServe
<1>11. CASE DropOld
  BY ZenonT(30), <1>1, <1>11, DelServe DEF DropOld
<1>12. CASE Crash \/ PowerLoss \/ Load
  BY ZenonT(30), <1>1, <1>12 DEF Crash, PowerLoss, Die, Load
<1>13. ~SnapshotFails
  BY ZenonT(30) DEF SnapshotFails
<1> QED
  BY ZenonT(30), <1>4, <1>5, <1>6, <1>7, <1>8, <1>9, <1>10, <1>11, <1>12, <1>13, DelWrite, DelRemove
     DEF Next, Checkpoint

LEMMA DelInvStep == ~IOErrors /\ TypeInv /\ DelInv /\ [Next]_vars => DelInv'
BY ZenonT(30), CallStep, DelStartStep, DelUpStep DEF DelInv

LEMMA KeptOut == TypeInv /\ DelInv => DeletedKeptOut
<1> SUFFICES ASSUME TypeInv, DelInv, phase = "up", NEW e \in tombs \ raced
             PROVE  e \notin restored.live
  BY ZenonT(30) DEF DeletedKeptOut
<1>1. /\ snapshot \in Seq(Events) /\ wal_old \in Seq(Record) /\ wal \in Seq(Record) /\ e \in Events
      /\ ckpt \in {"idle", "scan", "remove"} /\ restored = Restore(snapshot, wal_old, wal)
  BY ZenonT(30) DEF TypeInv, DiskType, MemoryType, ControlType, LogInv, LogType, AloneInStartup, RestoredIs
<1>2. Away(e) /\ (ckpt = "idle" => wal_old = <<>>)
  BY ZenonT(30) DEF DelInv, DelUp
<1>3. ckpt = "idle" => ReadIn(wal_old) = {}
  BY ZenonT(30), <1>2, EmptyRead
<1>4. \/ e \in ReadOut(wal_old) \cup ReadOut(wal)
      \/ e \notin Lines(snapshot) \cup ReadIn(wal_old) \cup ReadIn(wal)
  BY ZenonT(30), <1>1, <1>2, <1>3 DEF Away, Unread, Uncopied
<1> QED
  BY ZenonT(30), <1>1, <1>4, RestoreAway

\* What a deletion request removed does not come back with a restart, whenever the
\* process dies or the power fails, during startup and beside a checkpoint too, and
\* whatever records are torn, if no rotation of the log met a call about it.  (A snapshot
\* that cannot be written is excluded: the startup after it drops wal.log.old with the
\* Tombstone record in it.)
THEOREM DeletionKept == ASSUME ~IOErrors PROVE Spec => []DeletedKeptOut
<1>1. Init => TypeInv /\ DelInv
  BY ZenonT(30), InitTypeInv, InitDelInv
<1>2. TypeInv /\ DelInv /\ [Next]_vars => TypeInv' /\ DelInv'
  BY ZenonT(30), TypeInvStep, DelInvStep
<1> QED
  BY <1>1, <1>2, KeptOut, PTL DEF Spec

=============================================================================
