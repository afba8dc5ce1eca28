------------------------ MODULE EventIndexRestProofs ------------------------
(***************************************************************************)
(* Proofs about what EventIndex keeps, for every value of its constants:   *)
(* one version per key, and once no call is in flight the secondary sets,  *)
(* the tombstones, and that a deleted event is not stored again.           *)
(***************************************************************************)
EXTENDS EventIndexProofs

-----------------------------------------------------------------------------
(* What a step may do to the shared structures and to the locals. *)

\* What the locals of a thread hold beyond CallShape.
WalkShape ==
    \A t \in Threads :
        /\ pc[t] \notin {"add_set", "un_set", "rm_set"} => idx[t] = 1
        /\ pc[t] = "idle" => op[t] = None /\ ev[t] = None /\ victim[t] = None
        /\ pc[t] \in {"tomb_ids", "tomb_order"} => op[t] = "delete"
        /\ pc[t] # "idle" => op[t] \in {"insert", "evict", "delete"}
        /\ op[t] = "delete" /\ pc[t] \in RemoveLabels => victim[t] = ev[t]

LEMMA WalkShapeInit == Init => WalkShape
BY ZenonT(30) DEF Init, WalkShape, RemoveLabels

\* A step goes on with its call or returns from it.
LEMMA GoesOnOrReturns ==
    ASSUME TypeInv, NEW t \in Threads, Step(t)
    PROVE  \/ op'[t] = op[t] /\ ev'[t] = ev[t] /\ pc[t] # "idle"
           \/ /\ op'[t] = None /\ ev'[t] = None /\ victim'[t] = None
              /\ pc'[t] = "idle" /\ idx'[t] = 1
BY ZenonT(30) DEF Step, Claim, Store, Verify, Undo, CountUp, AddSet, FinalCheck, WinnerCheck,
       CleanupId, CleanupCount, CleanupSet, RemoveId, RemoveCount, RemoveKey,
       RemoveSet, TombstoneId, TombstoneOrder, NextSet, AfterRemove,
       TypeInv, TypeOK, Goto, Return

LEMMA ByIdGrows ==
    ASSUME NEW t \in Threads, Step(t), NEW f \in by_id', f \notin by_id
    PROVE  Store(t) /\ f = ev[t]
BY ZenonT(30) DEF Step, Claim, Store, Verify, Undo, CountUp, AddSet, FinalCheck, WinnerCheck,
       CleanupId, CleanupCount, CleanupSet, RemoveId, RemoveCount, RemoveKey,
       RemoveSet, TombstoneId, TombstoneOrder, indexes

LEMMA ByIdShrinks ==
    ASSUME NEW t \in Threads, Step(t), NEW f \in by_id, f \notin by_id'
    PROVE  \/ Undo(t) /\ f = ev[t]
           \/ CleanupId(t) /\ f = ev[t]
           \/ RemoveId(t) /\ f = victim[t]
BY ZenonT(30) DEF Step, Claim, Store, Verify, Undo, CountUp, AddSet, FinalCheck, WinnerCheck,
       CleanupId, CleanupCount, CleanupSet, RemoveId, RemoveCount, RemoveKey,
       RemoveSet, TombstoneId, TombstoneOrder, indexes

LEMMA SetGrows ==
    ASSUME TypeInv, NEW t \in Threads, Step(t), NEW i \in Indexes,
           NEW f \in secondary'[i], f \notin secondary[i]
    PROVE  AddSet(t) /\ f = ev[t] /\ i = idx[t]
<1>1. CASE AddSet(t)
  BY ZenonT(30), <1>1 DEF AddSet, TypeInv, TypeOK
<1>2. CASE CleanupSet(t) \/ RemoveSet(t)
  BY <1>2 DEF CleanupSet, RemoveSet, TypeInv, TypeOK
<1>3. CASE ~AddSet(t) /\ ~CleanupSet(t) /\ ~RemoveSet(t)
  BY ZenonT(30), <1>3 DEF Step, Claim, Store, Verify, Undo, CountUp, FinalCheck, WinnerCheck,
         CleanupId, CleanupCount, RemoveId, RemoveCount, RemoveKey,
         TombstoneId, TombstoneOrder, indexes
<1> QED
  BY ZenonT(30), <1>1, <1>2, <1>3

LEMMA SetShrinks ==
    ASSUME TypeInv, NEW t \in Threads, Step(t), NEW i \in Indexes,
           NEW f \in secondary[i], f \notin secondary'[i]
    PROVE  /\ i = idx[t] /\ by_id' = by_id
           /\ \/ CleanupSet(t) /\ f = ev[t]
              \/ RemoveSet(t) /\ f = victim[t]
<1>1. CASE AddSet(t)
  BY ZenonT(30), <1>1 DEF AddSet, TypeInv, TypeOK
<1>2. CASE CleanupSet(t) \/ RemoveSet(t)
  BY <1>2 DEF CleanupSet, RemoveSet, TypeInv, TypeOK
<1>3. CASE ~AddSet(t) /\ ~CleanupSet(t) /\ ~RemoveSet(t)
  BY ZenonT(30), <1>3 DEF Step, Claim, Store, Verify, Undo, CountUp, FinalCheck, WinnerCheck,
         CleanupId, CleanupCount, RemoveId, RemoveCount, RemoveKey,
         TombstoneId, TombstoneOrder, indexes
<1> QED
  BY ZenonT(30), <1>1, <1>2, <1>3

LEMMA WalkShapeStep ==
    ASSUME TypeInv, WalkShape, NEW t \in Threads, Step(t)
    PROVE  WalkShape'
<1> SUFFICES ASSUME NEW u \in Threads
             PROVE  (/\ pc[u] \notin {"add_set", "un_set", "rm_set"} => idx[u] = 1
                     /\ pc[u] = "idle" => op[u] = None /\ ev[u] = None /\ victim[u] = None
                     /\ pc[u] \in {"tomb_ids", "tomb_order"} => op[u] = "delete"
                     /\ pc[u] # "idle" => op[u] \in {"insert", "evict", "delete"}
                     /\ op[u] = "delete" /\ pc[u] \in RemoveLabels => victim[u] = ev[u])'
  BY ZenonT(30) DEF WalkShape
<1>1. CASE u # t
  BY <1>1, OthersKeep DEF WalkShape
<1>2. CASE u = t
  <2> USE DEF WalkShape, TypeInv, TypeOK, CallShape, InsertLabels, RemoveLabels, Goto,
          Return, Labels
  <2>1. CASE Claim(t)
    BY <1>2, <2>1 DEF Claim, AfterClaim
  <2>2. CASE Store(t)
    BY <1>2, <2>2 DEF Store
  <2>3. CASE Verify(t)
    BY ZenonT(30), <1>2, <2>3 DEF Verify
  <2>4. CASE Undo(t)
    BY ZenonT(30), <1>2, <2>4 DEF Undo
  <2>5. CASE CountUp(t)
    BY ZenonT(30), <1>2, <2>5 DEF CountUp
  <2>6. CASE AddSet(t)
    BY ZenonT(30), <1>2, <2>6 DEF AddSet, NextSet
  <2>7. CASE FinalCheck(t)
    BY ZenonT(30), <1>2, <2>7 DEF FinalCheck, AfterFinal
  <2>8. CASE WinnerCheck(t)
    BY <1>2, <2>8 DEF WinnerCheck
  <2>9. CASE CleanupId(t)
    BY ZenonT(30), <1>2, <2>9 DEF CleanupId, AfterCleanupId
  <2>10. CASE CleanupCount(t)
    BY ZenonT(30), <1>2, <2>10 DEF CleanupCount
  <2>11. CASE CleanupSet(t)
    BY ZenonT(30), <1>2, <2>11 DEF CleanupSet, NextSet
  <2>12. CASE RemoveId(t)
    BY <1>2, <2>12 DEF RemoveId, AfterRemove
  <2>13. CASE RemoveCount(t)
    BY ZenonT(30), <1>2, <2>13 DEF RemoveCount
  <2>14. CASE RemoveKey(t)
    BY ZenonT(30), <1>2, <2>14 DEF RemoveKey
  <2>15. CASE RemoveSet(t)
    BY <1>2, <2>15 DEF RemoveSet, NextSet, AfterRemove
  <2>16. CASE TombstoneId(t)
    BY <1>2, <2>16 DEF TombstoneId
  <2>17. CASE TombstoneOrder(t)
    BY ZenonT(30), <1>2, <2>17 DEF TombstoneOrder
  <2> QED
    BY ZenonT(30), <2>1, <2>2, <2>3, <2>4, <2>5, <2>6, <2>7, <2>8, <2>9,
       <2>10, <2>11, <2>12, <2>13, <2>14, <2>15, <2>16, <2>17 DEF Step
<1> QED
  BY ZenonT(30), <1>1, <1>2

-----------------------------------------------------------------------------
(* The secondary sets.  The results are about the events outside Republished:  *)
(* they are inserted again only when no call on them runs and they are not     *)
(* stored.  What happens to the others beside them does not matter.            *)

\* t's insert of e has not come to by_id yet.
PreStore(t, e) ==
    op[t] = "insert" /\ ev[t] = e /\ pc[t] \in {"claim", "store"} \cup RemoveLabels

\* t's insert has stored e, and has not filed it in set i yet.
Unfiled(t, e, i) ==
    /\ op[t] = "insert" /\ ev[t] = e
    /\ \/ pc[t] \in {"verify", "undo", "count"}
       \/ pc[t] = "add_set" /\ idx[t] <= i

\* t found e gone from by_id, or took it out, and takes it out of the sets.
Unfiling(t, e) ==
    \/ victim[t] = e /\ pc[t] \in {"rm_count", "rm_key", "rm_set"}
    \/ ev[t] = e /\ pc[t] \in {"un_count", "un_set"}

\* If e is gone from by_id, t still takes it out of set i.
WillUnfile(t, e, i) ==
    \/ ev[t] = e /\ pc[t] \in {"add_set", "final", "un_count"}
    \/ ev[t] = e /\ pc[t] = "un_set" /\ idx[t] <= i
    \/ victim[t] = e /\ pc[t] \in {"rm_count", "rm_key"}
    \/ victim[t] = e /\ pc[t] = "rm_set" /\ idx[t] <= i

\* One insert of an event at a time.
OneInserter ==
    \A t, u \in Threads, e \in Events \ Republished :
        op[t] = "insert" /\ ev[t] = e /\ op[u] = "insert" /\ ev[u] = e => t = u

\* An event that is about to be stored is nowhere, and nobody unfiles it.
NotYetStored ==
    \A t \in Threads, e \in Events \ Republished : PreStore(t, e) =>
        /\ e \notin by_id
        /\ \A i \in Indexes : e \notin secondary[i]
        /\ \A u \in Threads : ~Unfiling(u, e)

\* What is being taken out of the sets is gone from by_id for good.
TakenOut ==
    \A t \in Threads, e \in Events \ Republished : Unfiling(t, e) => e \notin by_id

NotYetFiled ==
    \A t \in Threads, e \in Events \ Republished, i \in Indexes :
        Unfiled(t, e, i) => e \notin secondary[i]

\* A stored event that a set misses is being filed.
Filed ==
    \A e \in Events \ Republished, i \in Indexes :
        e \in by_id /\ e \notin secondary[i] => \E t \in Threads : Unfiled(t, e, i)

\* An event that only a set still holds is being unfiled, or its insert will see to it.
NoOrphan ==
    \A e \in Events \ Republished, i \in Indexes :
        e \in secondary[i] /\ e \notin by_id => \E t \in Threads : WillUnfile(t, e, i)

FilingInv ==
    OneInserter /\ NotYetStored /\ TakenOut /\ NotYetFiled /\ Filed /\ NoOrphan


\* An insert in flight after a step was in flight before it.
LEMMA InsertWasInFlight ==
    ASSUME TypeInv, NEW t \in Threads, Step(t), NEW u \in Threads, NEW e \in Events,
           op'[u] = "insert", ev'[u] = e
    PROVE  op[u] = "insert" /\ ev[u] = e
<1>1. CASE u = t
  BY ZenonT(30), <1>1, GoesOnOrReturns, ConstantsAssumption
<1>2. CASE u # t
  BY ZenonT(30), <1>2, OthersKeep
<1> QED
  BY ZenonT(30), <1>1, <1>2

LEMMA PreStoreBefore ==
    ASSUME TypeInv, WalkShape, NEW t \in Threads, Step(t), NEW u \in Threads, NEW e \in Events,
           PreStore(u, e)'
    PROVE  PreStore(u, e)
<1>1. op[u] = "insert" /\ ev[u] = e
  BY ZenonT(30), InsertWasInFlight DEF PreStore
<1>2. CASE u = t
  <2> SUFFICES pc[t] \in {"claim", "store"} \cup RemoveLabels
    BY ZenonT(30), <1>1, <1>2 DEF PreStore
  <2>1. pc'[t] \in {"claim", "store"} \cup RemoveLabels /\ op[t] = "insert"
    BY ZenonT(30), <1>1, <1>2 DEF PreStore
  <2> QED
    BY ZenonT(30), <2>1 DEF TypeInv, TypeOK, Labels, RemoveLabels, WalkShape, Goto, Return, Step, Claim, Store,
         Verify, Undo, CountUp, AddSet, FinalCheck, WinnerCheck, CleanupId, CleanupCount,
         CleanupSet, RemoveId, RemoveCount, RemoveKey, RemoveSet, TombstoneId,
         TombstoneOrder, NextSet, AfterRemove, AfterFinal, AfterCleanupId
<1>3. CASE u # t
  BY ZenonT(30), <1>1, <1>3, OthersKeep DEF PreStore
<1> QED
  BY ZenonT(30), <1>2, <1>3

\* A call starts to unfile an event in three places.
LEMMA UnfilingBefore ==
    ASSUME TypeInv, WalkShape, NEW t \in Threads, Step(t), NEW u \in Threads, NEW e \in Events,
           Unfiling(u, e)', ~Unfiling(u, e)
    PROVE  /\ u = t
           /\ \/ RemoveId(t) /\ victim[t] = e /\ e \in by_id
              \/ FinalCheck(t) /\ ev[t] = e /\ e \notin by_id
              \/ CleanupId(t) /\ ev[t] = e
<1>1. u = t
  BY ZenonT(30), OthersKeep DEF Unfiling
<1> USE DEF Unfiling, WalkShape, TypeInv, TypeOK, Labels, Goto, Return
<1>2. CASE Claim(t)
  BY ZenonT(30), <1>1, <1>2 DEF Claim, AfterClaim
<1>3. CASE Store(t) \/ Verify(t) \/ Undo(t) \/ CountUp(t)
  BY <1>1, <1>3 DEF Store, Verify, Undo, CountUp
<1>4. CASE AddSet(t)
  BY ZenonT(30), <1>1, <1>4 DEF AddSet, NextSet
<1>5. CASE FinalCheck(t)
  BY <1>1, <1>5 DEF FinalCheck, AfterFinal
<1>6. CASE WinnerCheck(t)
  BY ZenonT(30), <1>1, <1>6 DEF WinnerCheck
<1>7. CASE CleanupId(t)
  BY ZenonT(30), <1>1, <1>7 DEF CleanupId, AfterCleanupId
<1>8. CASE CleanupCount(t)
  BY ZenonT(30), <1>1, <1>8 DEF CleanupCount
<1>9. CASE CleanupSet(t)
  BY ZenonT(30), <1>1, <1>9, ConstantsAssumption DEF CleanupSet, NextSet
<1>10. CASE RemoveId(t)
  BY <1>1, <1>10, ConstantsAssumption DEF RemoveId, AfterRemove
<1>11. CASE RemoveCount(t)
  BY ZenonT(30), <1>1, <1>11 DEF RemoveCount
<1>12. CASE RemoveKey(t)
  BY ZenonT(30), <1>1, <1>12 DEF RemoveKey
<1>13. CASE RemoveSet(t)
  BY ZenonT(30), <1>1, <1>13, ConstantsAssumption DEF RemoveSet, NextSet, AfterRemove
<1>14. CASE TombstoneId(t) \/ TombstoneOrder(t)
  BY ZenonT(30), <1>1, <1>14 DEF TombstoneId, TombstoneOrder
<1> QED
  BY ZenonT(30), <1>2, <1>3, <1>4, <1>5, <1>6, <1>7, <1>8, <1>9,
     <1>10, <1>11, <1>12, <1>13, <1>14 DEF Step

LEMMA NotYetStoredStep ==
    ASSUME TypeInv, WalkShape, FilingInv, NEW t \in Threads, Step(t)
    PROVE  NotYetStored'
<1> SUFFICES ASSUME NEW u \in Threads, NEW e \in Events, e \notin Republished,
                    PreStore(u, e)'
             PROVE  /\ e \notin by_id'
                    /\ \A i \in Indexes : e \notin secondary'[i]
                    /\ \A w \in Threads : ~Unfiling(w, e)'
  BY ZenonT(30) DEF NotYetStored, Indexes
<1>1. PreStore(u, e)
  BY ZenonT(30), PreStoreBefore
<1>2. /\ e \notin by_id
      /\ \A i \in Indexes : e \notin secondary[i]
      /\ \A w \in Threads : ~Unfiling(w, e)
  BY ZenonT(30), <1>1 DEF FilingInv, NotYetStored
<1>3. op[t] = "insert" /\ ev[t] = e => u = t
  BY ZenonT(30), <1>1 DEF PreStore, FilingInv, OneInserter
<1>4. ev[t] = e /\ pc[t] \in InsertLabels => u = t
  BY ZenonT(30), <1>3 DEF TypeInv, CallShape
<1>5. e \notin by_id'
  <2> SUFFICES ASSUME e \in by_id' PROVE FALSE
    BY ZenonT(30)
  <2>1. Store(t) /\ e = ev[t]
    BY ZenonT(30), <1>2, ByIdGrows
  <2>2. u = t
    BY ZenonT(30), <1>4, <2>1 DEF Store, InsertLabels
  <2> QED
    BY ZenonT(30), <1>2, <2>1, <2>2 DEF Store, PreStore, Goto, RemoveLabels, TypeInv, TypeOK
<1>6. ASSUME NEW i \in Indexes, e \in secondary'[i] PROVE FALSE
  <2>1. AddSet(t) /\ e = ev[t]
    BY ZenonT(30), <1>2, <1>6, SetGrows
  <2>2. u = t
    BY ZenonT(30), <1>4, <2>1 DEF AddSet, InsertLabels
  <2> QED
    BY ZenonT(30), <1>1, <2>1, <2>2 DEF AddSet, PreStore, RemoveLabels
<1>7. ASSUME NEW w \in Threads, Unfiling(w, e)' PROVE FALSE
  <2>1. \/ RemoveId(t) /\ victim[t] = e /\ e \in by_id
        \/ FinalCheck(t) /\ ev[t] = e
        \/ CleanupId(t) /\ ev[t] = e
    BY ZenonT(30), <1>2, <1>7, UnfilingBefore
  <2>2. (FinalCheck(t) \/ CleanupId(t)) /\ ev[t] = e
    BY ZenonT(30), <1>2, <2>1
  <2>3. u = t
    BY ZenonT(30), <1>4, <2>2 DEF FinalCheck, CleanupId, InsertLabels
  <2> QED
    BY ZenonT(30), <1>1, <2>2, <2>3 DEF FinalCheck, CleanupId, PreStore, RemoveLabels
<1> QED
  BY ZenonT(30), <1>5, <1>6, <1>7

LEMMA TakenOutStep ==
    ASSUME TypeInv, WalkShape, FilingInv, NEW t \in Threads, Step(t)
    PROVE  TakenOut'
<1> SUFFICES ASSUME NEW u \in Threads, NEW e \in Events, e \notin Republished,
                    Unfiling(u, e)', e \in by_id'
             PROVE  FALSE
  BY ZenonT(30) DEF TakenOut
<1>1. CASE Unfiling(u, e)
  <2>1. Store(t) /\ e = ev[t]
    BY ZenonT(30), <1>1, ByIdGrows DEF FilingInv, TakenOut
  <2>2. PreStore(t, e)
    BY ZenonT(30), <2>1 DEF Store, PreStore, TypeInv, CallShape, InsertLabels
  <2> QED
    BY ZenonT(30), <1>1, <2>2 DEF FilingInv, NotYetStored
<1>2. CASE ~Unfiling(u, e)
  <2>1. \/ RemoveId(t) /\ victim[t] = e
        \/ FinalCheck(t) /\ ev[t] = e /\ e \notin by_id
        \/ CleanupId(t) /\ ev[t] = e
    BY ZenonT(30), <1>2, UnfilingBefore
  <2> QED
    BY ZenonT(30), <2>1 DEF RemoveId, FinalCheck, CleanupId, indexes
<1> QED
  BY ZenonT(30), <1>1, <1>2

LEMMA NotYetFiledStep ==
    ASSUME TypeInv, WalkShape, FilingInv, NEW t \in Threads, Step(t)
    PROVE  NotYetFiled'
<1> SUFFICES ASSUME NEW u \in Threads, NEW e \in Events, e \notin Republished,
                    NEW i \in Indexes,
                    Unfiled(u, e, i)', e \in secondary'[i]
             PROVE  FALSE
  BY ZenonT(30) DEF NotYetFiled, Indexes
<1>1. op[u] = "insert" /\ ev[u] = e
  BY ZenonT(30), InsertWasInFlight DEF Unfiled
<1>2. CASE e \notin secondary[i]
  <2>1. AddSet(t) /\ e = ev[t] /\ i = idx[t]
    BY ZenonT(30), <1>2, SetGrows
  <2>2. u = t
    BY ZenonT(30), <1>1, <2>1 DEF FilingInv, OneInserter, AddSet, TypeInv, CallShape, InsertLabels
  <2>3. \/ pc'[t] = pc[t] /\ idx'[t] = idx[t] + 1
        \/ pc'[t] = "final"
    BY ZenonT(30), <2>1 DEF AddSet, NextSet, Goto, TypeInv, TypeOK
  <2>4. idx[t] \in Nat /\ pc[t] = "add_set"
    BY <2>1 DEF AddSet, TypeInv, TypeOK, Indexes
  <2>5. ~(idx[t] + 1 <= i)
    BY <2>1, <2>4
  <2> QED
    BY ZenonT(30), <2>2, <2>3, <2>4, <2>5 DEF Unfiled
<1>3. CASE e \in secondary[i]
  <2>1. ~Unfiled(u, e, i) /\ ~PreStore(u, e)
    BY ZenonT(30), <1>3 DEF FilingInv, NotYetFiled, NotYetStored
  <2>2. u = t
    BY ZenonT(30), <2>1, OthersKeep DEF Unfiled
  <2>3. idx[t] \in Nat /\ i \in Nat
    BY DEF TypeInv, TypeOK, Indexes
  <2>4. pc[t] \notin {"claim", "store", "verify", "undo", "count"} \cup RemoveLabels
    BY ZenonT(30), <1>1, <2>1, <2>2 DEF Unfiled, PreStore
  <2>5. pc[t] = "add_set" => ~(idx[t] <= i)
    BY ZenonT(30), <1>1, <2>1, <2>2 DEF Unfiled
  <2>6. pc'[t] \in {"verify", "undo", "count", "add_set"}
    BY ZenonT(30), <2>2 DEF Unfiled
  <2>7. AddSet(t)
    BY ZenonT(30), <2>4, <2>6 DEF RemoveLabels, TypeInv, TypeOK, Labels, Goto, Return, Step, Claim, Store,
         Verify, Undo, CountUp, FinalCheck, WinnerCheck, CleanupId, CleanupCount,
         CleanupSet, RemoveId, RemoveCount, RemoveKey, RemoveSet, TombstoneId,
         TombstoneOrder, NextSet, AfterRemove, AfterFinal, AfterCleanupId
  <2>8. pc[t] = "add_set" /\ (pc'[t] = "final" \/ (pc'[t] = "add_set" /\ idx'[t] = idx[t] + 1))
    BY ZenonT(30), <2>7 DEF AddSet, NextSet, Goto, TypeInv, TypeOK
  <2>9. ~(idx[t] + 1 <= i)
    BY <2>3, <2>5, <2>8
  <2> QED
    BY ZenonT(30), <2>2, <2>6, <2>8, <2>9 DEF Unfiled
<1> QED
  BY ZenonT(30), <1>2, <1>3

\* A walk that has set i before it either is at set i or has it before it after the
\* next step.
LEMMA WalkOn ==
    ASSUME TypeInv, NEW t \in Threads, NEW i \in Indexes, idx[t] <= i, i # idx[t]
    PROVE  /\ ~IsLastSet(idx[t])
           /\ NextSet(t) => /\ idx'[t] <= i
                            /\ pc'[t] = pc[t] /\ op'[t] = op[t] /\ ev'[t] = ev[t]
                            /\ victim'[t] = victim[t]
<1>1. idx[t] \in 1 .. NumIndexes /\ i \in 1 .. NumIndexes /\ NumIndexes \in Nat
  BY ZenonT(30), ConstantsAssumption DEF TypeInv, TypeOK, Indexes
<1>2. ~IsLastSet(idx[t])
  BY <1>1 DEF IsLastSet
<1>3. ASSUME NextSet(t) PROVE idx'[t] = idx[t] + 1
  BY ZenonT(30), <1>3 DEF NextSet, TypeInv, TypeOK
<1>4. idx[t] + 1 <= i
  BY <1>1
<1> QED
  BY ZenonT(30), <1>2, <1>3, <1>4 DEF NextSet

LEMMA FiledStep ==
    ASSUME TypeInv, WalkShape, FilingInv, NEW t \in Threads, Step(t)
    PROVE  Filed'
<1> SUFFICES ASSUME NEW e \in Events, e \notin Republished,
                    NEW i \in Indexes, e \in by_id', e \notin secondary'[i]
             PROVE  \E u \in Threads : Unfiled(u, e, i)'
  BY ZenonT(30) DEF Filed, Indexes
<1>1. CASE e \notin by_id
  <2>1. Store(t) /\ e = ev[t]
    BY ZenonT(30), <1>1, ByIdGrows
  <2>2. op'[t] = "insert" /\ ev'[t] = e /\ pc'[t] \in {"verify", "count"}
    BY ZenonT(30), <1>1, <2>1 DEF Store, Goto, TypeInv, TypeOK, CallShape, InsertLabels
  <2> QED
    BY ZenonT(30), <2>2 DEF Unfiled
<1>2. CASE e \in by_id /\ e \in secondary[i]
  <2>1. Unfiling(t, e) /\ by_id' = by_id
    BY ZenonT(30), <1>2, SetShrinks DEF Unfiling, CleanupSet, RemoveSet
  <2> QED
    BY ZenonT(30), <1>2, <2>1 DEF FilingInv, TakenOut
<1>3. CASE e \in by_id /\ e \notin secondary[i]
  <2>1. PICK u \in Threads : Unfiled(u, e, i)
    BY ZenonT(30), <1>3 DEF FilingInv, Filed
  <2>2. CASE u # t
    <3>1. Unfiled(u, e, i)'
      BY ZenonT(30), <2>1, <2>2, OthersKeep DEF Unfiled
    <3> QED
      BY ZenonT(30), <3>1
  <2>3. CASE u = t
    <3> SUFFICES Unfiled(t, e, i)'
      BY ZenonT(30)
    <3>1. op[t] = "insert" /\ ev[t] = e
      BY ZenonT(30), <2>1, <2>3 DEF Unfiled
    <3>2. CASE pc[t] \in {"verify", "undo"}
      <4>1. Verify(t) \/ Undo(t)
        BY ZenonT(30), <3>2 DEF Step, Claim, Store, CountUp, AddSet, FinalCheck, WinnerCheck, CleanupId,
             CleanupCount, CleanupSet, RemoveId, RemoveCount, RemoveKey, RemoveSet,
             TombstoneId, TombstoneOrder
      <4> QED
        BY ZenonT(30), <3>1, <4>1 DEF Verify, Undo, Unfiled, Goto, TypeInv, TypeOK
    <3>3. CASE pc[t] = "count"
      <4>1. CountUp(t)
        BY ZenonT(30), <3>3 DEF Step, Claim, Store, Verify, Undo, AddSet, FinalCheck, WinnerCheck,
             CleanupId, CleanupCount, CleanupSet, RemoveId, RemoveCount, RemoveKey,
             RemoveSet, TombstoneId, TombstoneOrder
      <4>2. idx[t] = 1 /\ 1 <= i
        BY <3>3 DEF WalkShape, Indexes
      <4> QED
        BY ZenonT(30), <3>1, <4>1, <4>2 DEF CountUp, Unfiled, Goto, TypeInv, TypeOK
    <3>4. CASE pc[t] = "add_set"
      <4>1. AddSet(t) /\ idx[t] <= i
        BY ZenonT(30), <2>1, <2>3, <3>4 DEF Unfiled, Step, Claim, Store, Verify, Undo, CountUp,
             FinalCheck, WinnerCheck, CleanupId, CleanupCount, CleanupSet, RemoveId,
             RemoveCount, RemoveKey, RemoveSet, TombstoneId, TombstoneOrder
      <4>2. i # idx[t]
        BY ZenonT(30), <3>1, <4>1 DEF AddSet, TypeInv, TypeOK
      <4>3. NextSet(t)
        BY ZenonT(30), <4>1, <4>2, WalkOn DEF AddSet
      <4> QED
        BY ZenonT(30), <3>1, <3>4, <4>1, <4>2, <4>3, WalkOn DEF Unfiled
    <3> QED
      BY ZenonT(30), <2>1, <2>3, <3>2, <3>3, <3>4 DEF Unfiled
  <2> QED
    BY ZenonT(30), <2>2, <2>3
<1> QED
  BY ZenonT(30), <1>1, <1>2, <1>3

LEMMA NoOrphanStep ==
    ASSUME TypeInv, WalkShape, FilingInv, NEW t \in Threads, Step(t)
    PROVE  NoOrphan'
<1> SUFFICES ASSUME NEW e \in Events, e \notin Republished,
                    NEW i \in Indexes, e \in secondary'[i], e \notin by_id'
             PROVE  \E u \in Threads : WillUnfile(u, e, i)'
  BY ZenonT(30) DEF NoOrphan, Indexes
<1>0. 1 <= i
  BY DEF Indexes
<1>1. CASE e \notin secondary[i]
  <2>1. AddSet(t) /\ e = ev[t]
    BY ZenonT(30), <1>1, SetGrows
  <2>2. ev'[t] = e /\ pc'[t] \in {"add_set", "final"}
    BY ZenonT(30), <2>1 DEF AddSet, NextSet, Goto, TypeInv, TypeOK
  <2> QED
    BY ZenonT(30), <2>2 DEF WillUnfile
<1>2. CASE e \in secondary[i] /\ e \in by_id
  <2>1. CASE Undo(t) /\ e = ev[t]
    <3>1. Unfiled(t, e, i)
      BY ZenonT(30), <2>1 DEF Undo, Unfiled, TypeInv, CallShape, InsertLabels
    <3> QED
      BY ZenonT(30), <1>2, <3>1 DEF FilingInv, NotYetFiled
  <2>2. CASE CleanupId(t) /\ e = ev[t]
    <3>1. ev'[t] = e /\ pc'[t] = "un_count"
      BY ZenonT(30), <1>2, <2>2 DEF CleanupId, AfterCleanupId, Goto, TypeInv, TypeOK
    <3> QED
      BY ZenonT(30), <3>1 DEF WillUnfile
  <2>3. CASE RemoveId(t) /\ e = victim[t]
    <3>1. victim'[t] = e /\ pc'[t] = "rm_count"
      BY ZenonT(30), <1>2, <2>3 DEF RemoveId, Goto, TypeInv, TypeOK
    <3> QED
      BY ZenonT(30), <3>1 DEF WillUnfile
  <2> QED
    BY ZenonT(30), <1>2, <2>1, <2>2, <2>3, ByIdShrinks
<1>3. CASE e \in secondary[i] /\ e \notin by_id
  <2>1. PICK u \in Threads : WillUnfile(u, e, i)
    BY ZenonT(30), <1>3 DEF FilingInv, NoOrphan
  <2>2. CASE u # t
    <3>1. WillUnfile(u, e, i)'
      BY ZenonT(30), <2>1, <2>2, OthersKeep DEF WillUnfile
    <3> QED
      BY ZenonT(30), <3>1
  <2>3. CASE u = t
    <3> SUFFICES WillUnfile(t, e, i)'
      BY ZenonT(30)
    <3>1. CASE AddSet(t)
      BY ZenonT(30), <2>1, <2>3, <3>1 DEF AddSet, NextSet, WillUnfile, Goto, TypeInv, TypeOK
    <3>2. CASE FinalCheck(t)
      <4>1. ev[t] = e /\ idx[t] = 1
        BY ZenonT(30), <2>1, <2>3, <3>2 DEF FinalCheck, WillUnfile, WalkShape
      <4>2. ev'[t] = e /\ idx'[t] = 1 /\ pc'[t] = "un_set"
        BY ZenonT(30), <1>3, <3>2, <4>1 DEF FinalCheck, AfterFinal, Goto, TypeInv, TypeOK
      <4> QED
        BY ZenonT(30), <1>0, <4>2 DEF WillUnfile
    <3>3. CASE CleanupCount(t)
      <4>1. ev[t] = e /\ idx[t] = 1
        BY ZenonT(30), <2>1, <2>3, <3>3 DEF CleanupCount, WillUnfile, WalkShape
      <4>2. ev'[t] = e /\ idx'[t] = 1 /\ pc'[t] = "un_set"
        BY ZenonT(30), <3>3, <4>1 DEF CleanupCount, Goto, TypeInv, TypeOK
      <4> QED
        BY ZenonT(30), <1>0, <4>2 DEF WillUnfile
    <3>4. CASE RemoveCount(t) \/ RemoveKey(t)
      <4>1. victim[t] = e /\ idx[t] = 1
        BY ZenonT(30), <2>1, <2>3, <3>4 DEF RemoveCount, RemoveKey, WillUnfile, WalkShape
      <4>2. victim'[t] = e /\ idx'[t] = 1 /\ pc'[t] \in {"rm_key", "rm_set"}
        BY ZenonT(30), <3>4, <4>1 DEF RemoveCount, RemoveKey, Goto, TypeInv, TypeOK
      <4> QED
        BY ZenonT(30), <1>0, <4>2 DEF WillUnfile
    <3>5. CASE CleanupSet(t) \/ RemoveSet(t)
      <4>1. /\ CleanupSet(t) => ev[t] = e /\ pc[t] = "un_set"
            /\ RemoveSet(t) => victim[t] = e /\ pc[t] = "rm_set"
        BY ZenonT(30), <2>1, <2>3, <3>5 DEF CleanupSet, RemoveSet, WillUnfile
      <4>2. idx[t] <= i
        BY ZenonT(30), <2>1, <2>3, <3>5 DEF CleanupSet, RemoveSet, WillUnfile
      <4>3. i # idx[t]
        BY <3>5, <4>1 DEF CleanupSet, RemoveSet, TypeInv, TypeOK
      <4>4. NextSet(t)
        BY ZenonT(30), <3>5, <4>2, <4>3, WalkOn DEF CleanupSet, RemoveSet
      <4> QED
        BY ZenonT(30), <3>5, <4>1, <4>2, <4>3, <4>4, WalkOn DEF WillUnfile
    <3> QED
      BY ZenonT(30), <2>1, <2>3, <3>1, <3>2, <3>3, <3>4, <3>5 DEF WillUnfile, Step, Claim, Store, Verify,
         Undo, CountUp, WinnerCheck, CleanupId, RemoveId, TombstoneId, TombstoneOrder
  <2> QED
    BY ZenonT(30), <2>2, <2>3
<1> QED
  BY ZenonT(30), <1>1, <1>2, <1>3

LEMMA OneInserterStep ==
    ASSUME TypeInv, FilingInv, NEW t \in Threads, Step(t)
    PROVE  OneInserter'
<1> SUFFICES ASSUME NEW u \in Threads, NEW w \in Threads, NEW e \in Events, e \notin Republished,
                    op'[u] = "insert", ev'[u] = e, op'[w] = "insert", ev'[w] = e
             PROVE  u = w
  BY ZenonT(30) DEF OneInserter
<1>1. op[u] = "insert" /\ ev[u] = e /\ op[w] = "insert" /\ ev[w] = e
  BY ZenonT(30), InsertWasInFlight
<1> QED
  BY ZenonT(30), <1>1 DEF FilingInv, OneInserter

\* A call that starts leaves what the other calls hold alone.
LEMMA WalkShapeCall ==
    ASSUME TypeInv, WalkShape, NEW t \in Threads, NEW e \in Events,
           Insert(t, e) \/ Evict(t, e) \/ Delete(t, e)
    PROVE  WalkShape'
<1> SUFFICES ASSUME NEW u \in Threads
             PROVE  (/\ pc[u] \notin {"add_set", "un_set", "rm_set"} => idx[u] = 1
                     /\ pc[u] = "idle" => op[u] = None /\ ev[u] = None /\ victim[u] = None
                     /\ pc[u] \in {"tomb_ids", "tomb_order"} => op[u] = "delete"
                     /\ pc[u] # "idle" => op[u] \in {"insert", "evict", "delete"}
                     /\ op[u] = "delete" /\ pc[u] \in RemoveLabels => victim[u] = ev[u])'
  BY ZenonT(30) DEF WalkShape
<1>0. CallBegins(t, e)
  BY ZenonT(30), CallOthers
<1>1. CASE u = t
  BY ZenonT(30), <1>0, <1>1 DEF CallBegins, WalkShape, RemoveLabels
<1>2. CASE u # t
  BY ZenonT(30), <1>0, <1>2 DEF CallBegins, WalkShape
<1> QED
  BY ZenonT(30), <1>1, <1>2

LEMMA FilingCall ==
    ASSUME TypeInv, WalkShape, FilingInv, NEW t \in Threads, NEW e \in Events,
           Insert(t, e) \/ Evict(t, e) \/ Delete(t, e)
    PROVE  FilingInv'
<1> DEFINE Starts == pc'[t] \in {"claim", "store"} /\ op'[t] = "insert" /\ ev'[t] = e
                     /\ victim'[t] = None
<1>0. CallBegins(t, e)
  BY ZenonT(30), CallOthers
<1>1. Starts /\ e \notin Republished =>
          e \notin by_id /\ \A u \in Threads : ev[u] # e /\ victim[u] # e
  <2>1. Starts => Insert(t, e)
    BY ZenonT(30), <1>0 DEF CallBegins
  <2> QED
    BY ZenonT(30), <2>1 DEF Insert
<1>2. \A u \in Threads, f \in Events :
          op'[u] = "insert" /\ ev'[u] = f =>
              \/ op[u] = "insert" /\ ev[u] = f /\ pc'[u] = pc[u]
              \/ u = t /\ Starts /\ f = e
  BY ZenonT(30), <1>0 DEF CallBegins
<1>3. \A u \in Threads, f \in Events : PreStore(u, f)' =>
          PreStore(u, f) \/ (u = t /\ Starts /\ f = e)
  BY ZenonT(30), <1>2 DEF PreStore
<1>4. \A u \in Threads, f \in Events : Unfiling(u, f)' => Unfiling(u, f)
  BY ZenonT(30), <1>0 DEF CallBegins, Unfiling
<1>5. \A u \in Threads, f \in Events, i \in Indexes : Unfiled(u, f, i)' => Unfiled(u, f, i)
  BY ZenonT(30), <1>0 DEF CallBegins, Unfiled
<1>6. \A u \in Threads, f \in Events, i \in Indexes : Unfiled(u, f, i) => Unfiled(u, f, i)'
  BY ZenonT(30), <1>0 DEF CallBegins, Unfiled
<1>7. \A u \in Threads, f \in Events, i \in Indexes : WillUnfile(u, f, i) => WillUnfile(u, f, i)'
  BY ZenonT(30), <1>0 DEF CallBegins, WillUnfile
<1>8. by_id' = by_id /\ secondary' = secondary
  BY ZenonT(30), <1>0 DEF CallBegins
<1>9. Starts /\ e \notin Republished =>
          (\A i \in Indexes : e \notin secondary[i]) /\ \A u \in Threads : ~Unfiling(u, e)
  BY ZenonT(30), <1>1 DEF FilingInv, NoOrphan, WillUnfile, Unfiling
<1>10. OneInserter'
  BY ZenonT(30), <1>1, <1>2 DEF FilingInv, OneInserter
<1>11. NotYetStored'
  <2> SUFFICES ASSUME NEW u \in Threads, NEW f \in Events, f \notin Republished,
                      PreStore(u, f)'
               PROVE  /\ f \notin by_id'
                      /\ \A i \in Indexes : f \notin secondary'[i]
                      /\ \A w \in Threads : ~Unfiling(w, f)'
    BY ZenonT(30) DEF NotYetStored, Indexes
  <2>1. CASE PreStore(u, f)
    BY ZenonT(30), <1>4, <1>8, <2>1 DEF FilingInv, NotYetStored
  <2>2. CASE u = t /\ Starts /\ f = e
    BY ZenonT(30), <1>1, <1>4, <1>8, <1>9, <2>2
  <2> QED
    BY ZenonT(30), <1>3, <2>1, <2>2
<1>12. TakenOut'
  BY ZenonT(30), <1>4, <1>8 DEF FilingInv, TakenOut
<1>13. NotYetFiled'
  BY ZenonT(30), <1>5, <1>8 DEF FilingInv, NotYetFiled, Indexes
<1>14. Filed'
  <2> SUFFICES ASSUME NEW f \in Events, f \notin Republished,
                      NEW i \in Indexes, f \in by_id', f \notin secondary'[i]
               PROVE  \E u \in Threads : Unfiled(u, f, i)'
    BY ZenonT(30) DEF Filed, Indexes
  <2>1. PICK u \in Threads : Unfiled(u, f, i)
    BY ZenonT(30), <1>8 DEF FilingInv, Filed
  <2> QED
    BY ZenonT(30), <1>6, <2>1
<1>15. NoOrphan'
  <2> SUFFICES ASSUME NEW f \in Events, f \notin Republished,
                      NEW i \in Indexes, f \in secondary'[i], f \notin by_id'
               PROVE  \E u \in Threads : WillUnfile(u, f, i)'
    BY ZenonT(30) DEF NoOrphan, Indexes
  <2>1. PICK u \in Threads : WillUnfile(u, f, i)
    BY ZenonT(30), <1>8 DEF FilingInv, NoOrphan
  <2> QED
    BY ZenonT(30), <1>7, <2>1
<1> QED
  BY ZenonT(30), <1>10, <1>11, <1>12, <1>13, <1>14, <1>15 DEF FilingInv

RestInv == TypeInv /\ WalkShape /\ FilingInv

LEMMA RestInvInit == Init => RestInv
<1> SUFFICES ASSUME Init PROVE RestInv
  BY ZenonT(30)
<1>1. FilingInv
  BY ZenonT(30), ConstantsAssumption DEF Init, FilingInv, OneInserter, NotYetStored, TakenOut, NotYetFiled,
       Filed, NoOrphan, PreStore, Unfiling, Unfiled, WillUnfile
<1> QED
  BY ZenonT(30), <1>1, InitTypeInv, WalkShapeInit DEF RestInv

LEMMA RestInvStep == RestInv /\ [Next]_vars => RestInv'
<1> SUFFICES ASSUME RestInv, [Next]_vars PROVE RestInv'
  BY ZenonT(30)
<1>1. TypeInv'
  BY ZenonT(30), TypeInvStep DEF RestInv
<1>2. WalkShape' /\ FilingInv'
  <2>1. CASE UNCHANGED vars
    <3>1. UNCHANGED <<by_id, secondary, pc, op, ev, victim, idx>>
      BY ZenonT(30), <2>1 DEF vars, indexes, locals
    <3>2. WalkShape'
      BY ZenonT(30), <3>1 DEF RestInv, WalkShape
    <3>3. OneInserter' /\ NotYetStored' /\ TakenOut'
      BY ZenonT(30), <3>1 DEF RestInv, FilingInv, OneInserter, NotYetStored, TakenOut, PreStore, Unfiling
    <3>4. NotYetFiled' /\ Filed' /\ NoOrphan'
      BY <3>1 DEF RestInv, FilingInv, NotYetFiled, Filed, NoOrphan, Unfiled, WillUnfile
    <3> QED
      BY ZenonT(30), <3>2, <3>3, <3>4 DEF FilingInv
  <2>2. ASSUME NEW t \in Threads, NEW e \in Events,
               Insert(t, e) \/ Evict(t, e) \/ Delete(t, e)
        PROVE  WalkShape' /\ FilingInv'
    BY ZenonT(30), <2>2, WalkShapeCall, FilingCall DEF RestInv
  <2>3. ASSUME NEW t \in Threads, Step(t)
        PROVE  WalkShape' /\ FilingInv'
    BY ZenonT(30), <2>3, WalkShapeStep, OneInserterStep, NotYetStoredStep, TakenOutStep, NotYetFiledStep,
       FiledStep, NoOrphanStep DEF RestInv, FilingInv
  <2> QED
    BY ZenonT(30), <2>1, <2>2, <2>3 DEF Next
<1> QED
  BY ZenonT(30), <1>1, <1>2 DEF RestInv

\* Whatever inserts, replacements, evictions and deletions interleave, once no call is
\* in flight an event that is published again only once it is neither stored nor held
\* by a call is in every secondary set if it is stored and in none if it is not: the
\* final check of insert and its cleanup undo every race with internal_remove.
THEOREM IndexesMatch == Spec => []IndexesMatchAtRest
<1>1. Init => RestInv
  BY ZenonT(30), RestInvInit
<1>2. RestInv /\ [Next]_vars => RestInv'
  BY ZenonT(30), RestInvStep
<1>3. RestInv => IndexesMatchAtRest
  <2> SUFFICES ASSUME RestInv, Quiescent, NEW e \in Events \ Republished, NEW i \in Indexes
               PROVE  e \in secondary[i] <=> e \in by_id
    BY ZenonT(30) DEF IndexesMatchAtRest
  <2>1. \A t \in Threads : ~Unfiled(t, e, i) /\ ~WillUnfile(t, e, i)
    BY ZenonT(30) DEF Quiescent, Unfiled, WillUnfile
  <2> QED
    BY ZenonT(30), <2>1 DEF RestInv, FilingInv, Filed, NoOrphan
<1> QED
  BY <1>1, <1>2, <1>3, PTL DEF Spec

-----------------------------------------------------------------------------
(* Replaceable events.  delete_by_id drops the entry of a key whatever version *)
(* it names by then, so these results are about histories in which a version   *)
(* that is deleted is the only one of its key and is not inserted again beside *)
(* a call on it.                                                               *)

DeletedAlone ==
    \A e \in Deletable : IsReplaceable(e) =>
        e \notin Republished /\ \A f \in Events : KeyOf[f] = KeyOf[e] => f = e

DeleteShape ==
    \A t \in Threads :
        op[t] = "delete" /\ pc[t] \in RemoveLabels => victim[t] \in Deletable

StaleInv == RestInv /\ DeleteShape /\ StaleVersionHasOwner

LEMMA DeleteShapeStep ==
    ASSUME TypeInv, DeleteShape, [Next]_vars
    PROVE  DeleteShape'
<1> USE DEF TypeInv, TypeOK, DeleteShape, RemoveLabels, Goto, Return, Labels
<1>1. CASE UNCHANGED vars
  BY ZenonT(30), <1>1 DEF vars, locals
<1>2. ASSUME NEW t \in Threads, NEW e \in Events, Insert(t, e) \/ Evict(t, e) \/ Delete(t, e)
      PROVE  DeleteShape'
  BY <1>2 DEF Insert, Evict, Delete, Call, locals
<1>3. ASSUME NEW t \in Threads, Step(t) PROVE DeleteShape'
  <2> SUFFICES ASSUME NEW u \in Threads, op'[u] = "delete", pc'[u] \in RemoveLabels
               PROVE  victim'[u] \in Deletable
    BY ZenonT(30)
  <2>1. u # t => UNCHANGED <<op[u], pc[u], victim[u]>>
    BY ZenonT(30), <1>3, OthersStay
  <2>2. CASE u = t
    <3>1. pc[t] \notin InsertLabels
      BY ZenonT(30), <1>3, <2>2 DEF CallShape, InsertLabels, Step, Claim, Store, Verify, Undo, CountUp,
             AddSet, FinalCheck, WinnerCheck, CleanupId, CleanupCount, CleanupSet, RemoveId,
             RemoveCount, RemoveKey, RemoveSet, TombstoneId, TombstoneOrder, NextSet
    <3>2. RemoveId(t) \/ RemoveCount(t) \/ RemoveKey(t) \/ RemoveSet(t)
            \/ TombstoneId(t) \/ TombstoneOrder(t)
      BY ZenonT(30), <1>3, <3>1 DEF InsertLabels, Step, Claim, Store, Verify, Undo, CountUp, AddSet,
             FinalCheck, WinnerCheck, CleanupId, CleanupCount, CleanupSet
    <3> QED
      BY ZenonT(30), <2>2, <3>2 DEF RemoveId, RemoveCount, RemoveKey, RemoveSet, TombstoneId,
             TombstoneOrder, AfterRemove, NextSet
  <2> QED
    BY ZenonT(30), <2>1, <2>2
<1> QED
  BY ZenonT(30), <1>1, <1>2, <1>3 DEF Next

LEMMA StepStale ==
    ASSUME DeletedAlone, TypeInv, TakenOut, DeleteShape, StaleVersionHasOwner,
           NEW t \in Threads, Step(t)
    PROVE  StaleVersionHasOwner'
<1> SUFFICES ASSUME NEW e \in by_id', IsReplaceable(e), by_replaceable'[KeyOf[e]] # e
             PROVE  \E u \in Threads : OwnsStale(u, e)'
  BY ZenonT(30) DEF StaleVersionHasOwner, IsReplaceable
<1> USE DEF TypeInv, TypeOK, Goto, Return, indexes
<1>1. CASE e \in by_id /\ by_replaceable[KeyOf[e]] # e
  \* e was stale before the step: it has an owner, which keeps it or removes it.
  <2>1. PICK u \in Threads : OwnsStale(u, e)
    BY ZenonT(30), <1>1 DEF StaleVersionHasOwner
  <2>2. CASE u # t
    BY <2>1, <2>2, OthersStay DEF OwnsStale
  <2>3. CASE u = t
    <3>1. CASE pc[t] = "rm_id"
      <4>1. RemoveId(t) /\ victim[t] = e
        BY ZenonT(30), <2>1, <2>3, <3>1 DEF OwnsStale, Step, Claim, Store, Verify, Undo, CountUp, AddSet,
               FinalCheck, WinnerCheck, CleanupId, CleanupCount, CleanupSet, RemoveId,
               RemoveCount, RemoveKey, RemoveSet, TombstoneId, TombstoneOrder
      <4> QED
        BY ZenonT(30), <4>1 DEF RemoveId
    <3>2. CASE pc[t] # "rm_id"
      <4>1. ev[t] = e /\ op[t] = "insert"
        BY ZenonT(30), <2>1, <2>3, <3>2 DEF OwnsStale
      <4>2. Verify(t) \/ Undo(t) \/ CountUp(t) \/ AddSet(t) \/ FinalCheck(t)
              \/ WinnerCheck(t) \/ CleanupId(t)
        BY ZenonT(30), <2>1, <2>3, <3>2 DEF OwnsStale, Step, Claim, Store, CleanupCount, CleanupSet,
               RemoveId, RemoveCount, RemoveKey, RemoveSet, TombstoneId, TombstoneOrder
      <4>3. CASE Verify(t)
        BY ZenonT(30), <4>1, <4>3 DEF Verify, OwnsStale
      <4>4. CASE Undo(t)
        BY ZenonT(30), <4>1, <4>4 DEF Undo
      <4>5. CASE CountUp(t)
        BY ZenonT(30), <4>1, <4>5 DEF CountUp, OwnsStale
      <4>6. CASE AddSet(t)
        BY ZenonT(30), <4>1, <4>6 DEF AddSet, NextSet, OwnsStale
      <4>7. CASE FinalCheck(t)
        BY ZenonT(30), <4>1, <4>7 DEF FinalCheck, AfterFinal, OwnsStale
      <4>8. CASE WinnerCheck(t)
        BY ZenonT(30), <1>1, <4>1, <4>8 DEF WinnerCheck, IsStillWinner, OwnsStale
      <4>9. CASE CleanupId(t)
        BY ZenonT(30), <4>1, <4>9 DEF CleanupId
      <4> QED
        BY ZenonT(30), <4>2, <4>3, <4>4, <4>5, <4>6, <4>7, <4>8, <4>9
    <3> QED
      BY ZenonT(30), <3>1, <3>2
  <2> QED
    BY ZenonT(30), <2>2, <2>3
<1>2. CASE e \notin by_id
  \* The step stored e: the insert has both verifications before it.
  <2>1. Store(t)
    BY ZenonT(30), <1>2 DEF Step, Claim, Verify, Undo, CountUp, AddSet, FinalCheck, WinnerCheck,
           CleanupId, CleanupCount, CleanupSet, RemoveId, RemoveCount, RemoveKey,
           RemoveSet, TombstoneId, TombstoneOrder
  <2>2. ev[t] = e /\ op[t] = "insert" /\ Goto(t, "verify") /\ UNCHANGED <<op, ev, victim>>
    BY ZenonT(30), <1>2, <2>1 DEF Store, CallShape, InsertLabels
  <2> QED
    BY ZenonT(30), <2>2 DEF OwnsStale
<1>3. CASE e \in by_id /\ by_replaceable[KeyOf[e]] = e
  \* The step replaced e: the insert that claimed the entry removes e next.
  <2>1. Claim(t) \/ RemoveKey(t)
    BY ZenonT(30), <1>3 DEF Step, Store, Verify, Undo, CountUp, AddSet, FinalCheck, WinnerCheck,
           CleanupId, CleanupCount, CleanupSet, RemoveId, RemoveCount,
           RemoveSet, TombstoneId, TombstoneOrder
  <2>2. CASE Claim(t)
    <3>1. by_replaceable' # by_replaceable
      BY ZenonT(30), <1>3
    <3>2. KeyOf[ev[t]] = KeyOf[e]
      <4>1. KeyOf[e] \in Keys
        BY ZenonT(30), <1>3, ConstantsAssumption DEF IsReplaceable
      <4>2. by_replaceable' = [by_replaceable EXCEPT ![KeyOf[ev[t]]] = ev[t]]
        BY ZenonT(30), <2>2, <3>1 DEF Claim
      <4> QED
        BY ZenonT(30), <1>3, <4>1, <4>2
    <3>3. victim' = [victim EXCEPT ![t] = e] /\ Goto(t, "rm_id")
      BY <1>3, <2>2, <3>1, <3>2, ConstantsAssumption DEF Claim, AfterClaim
    <3> QED
      BY ZenonT(30), <3>3 DEF OwnsStale
  <2>3. CASE RemoveKey(t)
    \* Only a delete_by_id drops an entry, of an event that it has taken out already.
    <3> DEFINE v == victim[t]
    <3>1. v \in Deletable /\ v \in Events /\ IsReplaceable(v)
      BY ZenonT(30), <2>3, ConstantsAssumption DEF RemoveKey, CallShape, DeleteShape, RemoveLabels
    <3>2. KeyOf[e] = KeyOf[v]
      <4>1. KeyOf[e] \in Keys
        BY ZenonT(30), <1>3, ConstantsAssumption DEF IsReplaceable
      <4>2. by_replaceable' = [by_replaceable EXCEPT ![KeyOf[v]] = None]
        BY ZenonT(30), <2>3 DEF RemoveKey
      <4> QED
        BY ZenonT(30), <1>3, <4>1, <4>2
    <3>3. e = v /\ v \notin Republished
      BY ZenonT(30), <1>3, <3>1, <3>2 DEF DeletedAlone
    <3>4. Unfiling(t, e)
      BY ZenonT(30), <2>3, <3>3 DEF RemoveKey, Unfiling
    <3> QED
      BY ZenonT(30), <1>3, <3>1, <3>3, <3>4 DEF TakenOut
  <2> QED
    BY ZenonT(30), <2>1, <2>2, <2>3
<1> QED
  BY ZenonT(30), <1>1, <1>2, <1>3

LEMMA StaleInvStep ==
    ASSUME DeletedAlone
    PROVE  StaleInv /\ [Next]_vars => StaleInv'
<1> SUFFICES ASSUME StaleInv, [Next]_vars PROVE StaleInv'
  BY ZenonT(30)
<1>1. RestInv' /\ DeleteShape'
  BY ZenonT(30), RestInvStep, DeleteShapeStep DEF StaleInv, RestInv
<1>2. StaleVersionHasOwner'
  <2>1. CASE UNCHANGED vars
    BY ZenonT(30), <2>1 DEF StaleInv, StaleVersionHasOwner, OwnsStale, IsReplaceable, vars, indexes, locals
  <2>2. ASSUME NEW t \in Threads, NEW e \in Events,
               Insert(t, e) \/ Evict(t, e) \/ Delete(t, e)
        PROVE  StaleVersionHasOwner'
    <3>1. pc[t] = "idle" /\ UNCHANGED <<by_id, by_replaceable>>
      BY ZenonT(30), <2>2 DEF Insert, Evict, Delete, indexes
    <3>2. \A u \in Threads : u # t => UNCHANGED <<pc[u], op[u], ev[u], victim[u]>>
      BY ZenonT(30), <2>2 DEF Insert, Evict, Delete, Call, Goto, locals, StaleInv, RestInv, TypeInv, TypeOK
    <3> QED
      BY <3>1, <3>2 DEF StaleInv, StaleVersionHasOwner, OwnsStale, IsReplaceable
  <2> QED
    BY ZenonT(30), <2>1, <2>2, StepStale DEF Next, StaleInv, RestInv, FilingInv
<1> QED
  BY ZenonT(30), <1>1, <1>2 DEF StaleInv

\* If a deleted version is the only one of its key, insert's two verifications leave no
\* stale version behind, whatever inserts, evictions and deletions run: every stored
\* version that is not the current one has a call in flight that deals with it.
THEOREM StaleOwned ==
    ASSUME DeletedAlone
    PROVE  Spec => []StaleVersionHasOwner
<1>1. Init => StaleInv
  BY ZenonT(30), RestInvInit DEF Init, StaleInv, DeleteShape, StaleVersionHasOwner, RemoveLabels
<1>2. StaleInv /\ [Next]_vars => StaleInv'
  BY ZenonT(30), StaleInvStep
<1>3. StaleInv => StaleVersionHasOwner
  BY ZenonT(30) DEF StaleInv
<1> QED
  BY <1>1, <1>2, <1>3, PTL DEF Spec

\* Under the same condition at most one version of a key is stored once no call
\* is in flight.
THEOREM OneVersion ==
    ASSUME DeletedAlone
    PROVE  Spec => []OneVersionAtRest
<1>1. StaleVersionHasOwner => OneVersionAtRest
  BY ZenonT(30) DEF StaleVersionHasOwner, OneVersionAtRest, Quiescent, OwnsStale, IsReplaceable
<1> QED
  BY <1>1, StaleOwned, PTL

-----------------------------------------------------------------------------
(* The tombstones. *)

InOrder(e) == \E i \in DOMAIN tomb_order : tomb_order[i] = e

\* The ids that are recorded but not queued yet belong to different calls, and none
\* of them is in the queue.
PendingDistinct ==
    \A t \in Threads : pc[t] = "tomb_order" =>
        /\ ev[t] \in Events /\ ~InOrder(ev[t])
        /\ \A u \in Threads : pc[u] = "tomb_order" /\ ev[u] = ev[t] => t = u

TombInv == TypeInv /\ TombstonesBounded /\ PendingDistinct

\* Only Tombstones::insert touches the tombstones.
LEMMA TombstonesTouched ==
    ASSUME TypeInv, NEW t \in Threads, Step(t), ~TombstoneId(t), ~TombstoneOrder(t)
    PROVE  /\ UNCHANGED tombstones
           /\ pc[t] \notin {"tomb_order"} /\ pc'[t] # "tomb_order"
<1>1. pc[t] # "tomb_order" /\ UNCHANGED tombstones
  BY ZenonT(30) DEF Step, Claim, Store, Verify, Undo, CountUp, AddSet, FinalCheck, WinnerCheck,
     CleanupId, CleanupCount, CleanupSet, RemoveId, RemoveCount, RemoveKey, RemoveSet
<1>2. pc'[t] # "tomb_order"
  BY ZenonT(30), <1>1 DEF Step, Claim, Store, Verify, Undo, CountUp, AddSet, FinalCheck, WinnerCheck,
     CleanupId, CleanupCount, CleanupSet, RemoveId, RemoveCount, RemoveKey, RemoveSet,
     AfterClaim, AfterFinal, AfterCleanupId, AfterRemove, NextSet, Goto, Return,
     TypeInv, TypeOK, Labels
<1> QED
  BY ZenonT(30), <1>1, <1>2

LEMMA TombStutter ==
    ASSUME TombInv, UNCHANGED tombstones,
           \A u \in Threads : /\ pc'[u] = "tomb_order" <=> pc[u] = "tomb_order"
                              /\ pc[u] = "tomb_order" => ev'[u] = ev[u]
    PROVE  TombstonesBounded' /\ PendingDistinct'
<1>1. {ev'[t] : t \in {u \in Threads : pc'[u] = "tomb_order"}}
        = {ev[t] : t \in {u \in Threads : pc[u] = "tomb_order"}}
  BY ZenonT(30)
<1>2. TombstonesBounded'
  BY ZenonT(30), <1>1 DEF TombInv, TombstonesBounded, tombstones
<1>3. PendingDistinct'
  BY ZenonT(30) DEF TombInv, PendingDistinct, InOrder, tombstones
<1> QED
  BY ZenonT(30), <1>2, <1>3

LEMMA TombIdStep ==
    ASSUME TombInv, NEW t \in Threads, TombstoneId(t)
    PROVE  TombstonesBounded' /\ PendingDistinct'
<1>1. ev[t] \in Events /\ pc \in [Threads -> Labels] /\ ev \in [Threads -> Events \cup {None}]
  BY ZenonT(30) DEF TombInv, TypeInv, TypeOK, CallShape, TombstoneId
<1>2. CASE ev[t] \in tomb_ids
  <2>1. \A u \in Threads : /\ pc'[u] = "tomb_order" <=> pc[u] = "tomb_order"
                           /\ pc[u] = "tomb_order" => ev'[u] = ev[u]
    BY ZenonT(30), <1>1, <1>2 DEF TombstoneId, Return, Goto
  <2> QED
    BY ZenonT(30), <1>2, <2>1, TombStutter DEF TombstoneId, tombstones
<1>3. CASE ev[t] \notin tomb_ids
  <2>1. /\ tomb_order' = tomb_order /\ ev' = ev /\ tomb_ids' = tomb_ids \cup {ev[t]}
        /\ pc[t] = "tomb_ids" /\ pc'[t] = "tomb_order"
        /\ \A u \in Threads : u # t => pc'[u] = pc[u]
    BY ZenonT(30), <1>1, <1>3 DEF TombstoneId, Goto
  <2>2. {ev'[w] : w \in {u \in Threads : pc'[u] = "tomb_order"}}
          = {ev[w] : w \in {u \in Threads : pc[u] = "tomb_order"}} \cup {ev[t]}
    BY ZenonT(30), <2>1
  <2>3. TombstonesBounded'
    BY <2>1, <2>2 DEF TombInv, TombstonesBounded
  <2>4. ~InOrder(ev[t]) /\ \A u \in Threads : pc[u] = "tomb_order" => ev[u] # ev[t]
    BY ZenonT(30), <1>3 DEF TombInv, TombstonesBounded, InOrder
  <2>5. PendingDistinct'
    BY ZenonT(30), <1>1, <2>1, <2>4 DEF TombInv, PendingDistinct, InOrder
  <2> QED
    BY ZenonT(30), <2>3, <2>5
<1> QED
  BY ZenonT(30), <1>2, <1>3

LEMMA TombOrderStep ==
    ASSUME TombInv, NEW t \in Threads, TombstoneOrder(t)
    PROVE  TombstonesBounded' /\ PendingDistinct'
<1> DEFINE e == ev[t]
           n == Len(tomb_order) + 1
           all == Append(tomb_order, e)
           cut == IF Len(all) > MaxTombstones THEN Len(all) - MaxTombstones ELSE 0
           others == {u \in Threads : pc[u] = "tomb_order" /\ u # t}
<1>1. /\ tomb_order' = SubSeq(all, cut + 1, Len(all))
      /\ tomb_ids' = tomb_ids \ Forgotten(all)
      /\ pc[t] = "tomb_order" /\ Return(t)
  BY ZenonT(30) DEF TombstoneOrder
<1>2. /\ tomb_order \in Seq(Events) /\ e \in Events /\ MaxTombstones \in Nat \ {0}
      /\ Len(tomb_order) \in Nat /\ Len(tomb_order) <= MaxTombstones
  BY <1>1, ConstantsAssumption DEF TombInv, TypeInv, TypeOK, CallShape, TombstonesBounded
<1>3. /\ all \in Seq(Events) /\ Len(all) = n /\ all[n] = e /\ n \in Nat
      /\ \A j \in 1 .. n - 1 : all[j] = tomb_order[j]
  BY <1>2
<1>4. DOMAIN tomb_order = 1 .. n - 1 /\ DOMAIN all = 1 .. n
  BY <1>2, <1>3
<1>5. \A i, j \in 1 .. n : all[i] = all[j] => i = j
  <2>1. \A j \in 1 .. n - 1 : all[j] # e
    BY ZenonT(30), <1>1, <1>3, <1>4 DEF TombInv, PendingDistinct, InOrder
  <2>2. \A i, j \in 1 .. n - 1 : all[i] = all[j] => i = j
    BY ZenonT(30), <1>3, <1>4 DEF TombInv, TombstonesBounded
  <2>3. \A j \in 1 .. n : j \in 1 .. n - 1 \/ j = n
    BY <1>3
  <2> QED
    BY ZenonT(30), <1>3, <2>1, <2>2, <2>3
<1>6. cut \in Nat /\ cut <= 1 /\ (n <= MaxTombstones => cut = 0) /\ n - cut <= MaxTombstones
  BY <1>2, <1>3
<1> HIDE DEF n, all, cut
<1>7. /\ Len(tomb_order') = n - cut /\ DOMAIN tomb_order' = 1 .. n - cut
      /\ \A j \in 1 .. n - cut : tomb_order'[j] = all[j + cut]
  <2>1. cut + 1 \in 1 .. Len(all) + 1 /\ n \in (cut + 1) - 1 .. Len(all)
    BY <1>2, <1>3, <1>6 DEF n
  <2>2. /\ tomb_order' \in Seq(Events)
        /\ Len(tomb_order') = n - (cut + 1) + 1
        /\ \A j \in 1 .. n - (cut + 1) + 1 : tomb_order'[j] = all[(cut + 1) + j - 1]
    BY <1>1, <1>3, <2>1
  <2>3. n - (cut + 1) + 1 = n - cut
    BY <1>3, <1>6
  <2>4. \A j \in 1 .. n - cut : (cut + 1) + j - 1 = j + cut
    BY <1>3, <1>6
  <2>5. DOMAIN tomb_order' = 1 .. Len(tomb_order')
    BY <2>2
  <2> QED
    BY ZenonT(30), <2>2, <2>3, <2>4, <2>5
<1>8. Forgotten(all) = {all[j] : j \in 1 .. cut}
  <2>1. CASE n > MaxTombstones
    BY ZenonT(30), <1>3, <2>1 DEF Forgotten, cut
  <2>2. CASE ~(n > MaxTombstones)
    <3>1. cut = 0 /\ \A j \in Int : ~(j \in 1 .. n - MaxTombstones)
      BY <1>2, <1>3, <2>2 DEF cut
    <3> QED
      BY <1>2, <1>3, <3>1 DEF Forgotten
  <2> QED
    BY ZenonT(30), <2>1, <2>2
<1>9. /\ \A u \in Threads : pc'[u] = "tomb_order" <=> u \in others
      /\ \A u \in others : ev'[u] = ev[u]
  BY ZenonT(30), <1>1 DEF Return, Goto, TombInv, TypeInv, TypeOK
<1>10. \A u \in others : ev[u] # e /\ \A j \in 1 .. n : ev[u] # all[j]
  <2> SUFFICES ASSUME NEW u \in others PROVE ev[u] # e /\ \A j \in 1 .. n : ev[u] # all[j]
    BY ZenonT(30)
  <2>1. ev[u] # e /\ ~InOrder(ev[u])
    BY ZenonT(30), <1>1 DEF TombInv, PendingDistinct
  <2>2. \A j \in 1 .. n : j \in 1 .. n - 1 \/ j = n
    BY <1>3
  <2> QED
    BY ZenonT(30), <1>3, <1>4, <2>1, <2>2 DEF InOrder
<1>11. \A i, j \in DOMAIN tomb_order' : tomb_order'[i] = tomb_order'[j] => i = j
  <2> SUFFICES ASSUME NEW i \in 1 .. n - cut, NEW j \in 1 .. n - cut,
                      all[i + cut] = all[j + cut]
               PROVE  i = j
    BY ZenonT(30), <1>7
  <2>1. i + cut \in 1 .. n /\ j + cut \in 1 .. n
    BY <1>3, <1>6
  <2> QED
    BY <1>3, <1>5, <1>6, <2>1
<1>12. {tomb_order'[j] : j \in DOMAIN tomb_order'} = {all[j] : j \in cut + 1 .. n}
  <2>1. \A j \in 1 .. n - cut : j + cut \in cut + 1 .. n
    BY <1>3, <1>6
  <2>2. \A j \in cut + 1 .. n : j - cut \in 1 .. n - cut /\ (j - cut) + cut = j
    BY <1>3, <1>6
  <2> QED
    BY <1>7, <2>1, <2>2
<1>13. tomb_ids = {all[j] : j \in 1 .. n} \cup {ev[u] : u \in others}
  <2>1. {tomb_order[j] : j \in DOMAIN tomb_order} = {all[j] : j \in 1 .. n - 1}
    BY ZenonT(30), <1>3, <1>4
  <2>2. {ev[w] : w \in {u \in Threads : pc[u] = "tomb_order"}} = {ev[u] : u \in others} \cup {e}
    BY ZenonT(30), <1>1
  <2>3. {all[j] : j \in 1 .. n} = {all[j] : j \in 1 .. n - 1} \cup {all[n]}
    <3>1. \A j \in 1 .. n : j \in 1 .. n - 1 \/ j = n
      BY <1>3
    <3>2. n \in 1 .. n /\ \A j \in 1 .. n - 1 : j \in 1 .. n
      BY <1>2, <1>3 DEF n
    <3> QED
      BY ZenonT(30), <3>1, <3>2
  <2> QED
    BY ZenonT(30), <1>3, <2>1, <2>2, <2>3 DEF TombInv, TombstonesBounded
<1>14. tomb_ids' = {all[j] : j \in cut + 1 .. n} \cup {ev[u] : u \in others}
  <2>1. \A j \in 1 .. n : j \in 1 .. cut \/ j \in cut + 1 .. n
    BY <1>3, <1>6
  <2>2. \A j \in 1 .. cut : j \in 1 .. n /\ j \notin cut + 1 .. n
    BY <1>2, <1>3, <1>6 DEF n
  <2>3. \A j \in cut + 1 .. n : j \in 1 .. n /\ j \notin 1 .. cut
    BY <1>3, <1>6
  <2>4. \A j \in cut + 1 .. n : all[j] \notin Forgotten(all)
    BY ZenonT(30), <1>5, <1>8, <2>2, <2>3
  <2>5. \A u \in others : ev[u] \notin Forgotten(all)
    BY ZenonT(30), <1>8, <1>10, <2>2
  <2>6. \A j \in 1 .. cut : all[j] \in Forgotten(all)
    BY ZenonT(30), <1>8
  <2> QED
    BY ZenonT(30), <1>1, <1>13, <2>1, <2>3, <2>4, <2>5, <2>6
<1>15. {ev'[w] : w \in {u \in Threads : pc'[u] = "tomb_order"}} = {ev[u] : u \in others}
  BY ZenonT(30), <1>9
<1>16. TombstonesBounded'
  BY ZenonT(30), <1>6, <1>7, <1>11, <1>12, <1>14, <1>15 DEF TombstonesBounded
<1>17. PendingDistinct'
  <2> SUFFICES ASSUME NEW u \in others
               PROVE  /\ ev[u] \in Events
                      /\ \A j \in DOMAIN tomb_order' : tomb_order'[j] # ev[u]
                      /\ \A w \in others : ev[w] = ev[u] => u = w
    BY ZenonT(30), <1>9 DEF PendingDistinct, InOrder
  <2>1. \A j \in 1 .. n - cut : j + cut \in 1 .. n
    BY <1>3, <1>6
  <2>2. \A j \in DOMAIN tomb_order' : tomb_order'[j] # ev[u]
    BY ZenonT(30), <1>7, <1>10, <2>1
  <2> QED
    BY ZenonT(30), <2>2 DEF TombInv, PendingDistinct
<1> QED
  BY ZenonT(30), <1>16, <1>17

LEMMA TombInvStep == TombInv /\ [Next]_vars => TombInv'
<1> SUFFICES ASSUME TombInv, [Next]_vars PROVE TombInv'
  BY ZenonT(30)
<1>1. TypeInv'
  BY ZenonT(30), TypeInvStep DEF TombInv
<1>2. CASE UNCHANGED vars
  BY ZenonT(30), <1>1, <1>2, TombStutter DEF TombInv, vars, locals
<1>3. ASSUME NEW t \in Threads, NEW e \in Events, Insert(t, e) \/ Evict(t, e) \/ Delete(t, e)
      PROVE  TombInv'
  <2>1. UNCHANGED tombstones
    BY ZenonT(30), <1>3 DEF Insert, Evict, Delete
  <2>2. \A u \in Threads : /\ pc'[u] = "tomb_order" <=> pc[u] = "tomb_order"
                           /\ pc[u] = "tomb_order" => ev'[u] = ev[u]
    BY ZenonT(30), <1>3, CallOthers DEF CallBegins, TombInv
  <2> QED
    BY ZenonT(30), <1>1, <2>1, <2>2, TombStutter DEF TombInv
<1>4. ASSUME NEW t \in Threads, Step(t) PROVE TombInv'
  <2>1. CASE ~TombstoneId(t) /\ ~TombstoneOrder(t)
    <3>1. UNCHANGED tombstones /\ pc[t] # "tomb_order" /\ pc'[t] # "tomb_order"
      BY ZenonT(30), <1>4, <2>1, TombstonesTouched DEF TombInv
    <3>2. \A u \in Threads : /\ pc'[u] = "tomb_order" <=> pc[u] = "tomb_order"
                             /\ pc[u] = "tomb_order" => ev'[u] = ev[u]
      BY ZenonT(30), <1>4, <3>1, OthersKeep DEF TombInv
    <3> QED
      BY ZenonT(30), <1>1, <3>1, <3>2, TombStutter DEF TombInv
  <2> QED
    BY ZenonT(30), <1>1, <2>1, TombIdStep, TombOrderStep DEF TombInv
<1> QED
  BY ZenonT(30), <1>2, <1>3, <1>4 DEF Next

LEMMA TombInvInit == Init => TombInv
<1> SUFFICES ASSUME Init PROVE TombInv
  BY ZenonT(30)
<1>1. Len(tomb_order) = 0 /\ DOMAIN tomb_order = {} /\ MaxTombstones \in Nat
  BY ConstantsAssumption DEF Init
<1>2. \A t \in Threads : pc[t] # "tomb_order"
  BY ZenonT(30) DEF Init
<1>3. TombstonesBounded
  BY <1>1, <1>2 DEF Init, TombstonesBounded
<1> QED
  BY ZenonT(30), <1>2, <1>3, InitTypeInv DEF TombInv, PendingDistinct

\* Whatever deletions run together, Tombstones::insert keeps the queue and the id set
\* in step: the queue has no id twice and never more than the cap, and every id of
\* the set is queued or about to be queued by the call that recorded it.
THEOREM TombstonesKept == Spec => []TombstonesBounded
<1>1. Init => TombInv
  BY ZenonT(30), TombInvInit
<1>2. TombInv /\ [Next]_vars => TombInv'
  BY ZenonT(30), TombInvStep
<1>3. TombInv => TombstonesBounded
  BY ZenonT(30) DEF TombInv
<1> QED
  BY <1>1, <1>2, <1>3, PTL DEF Spec

-----------------------------------------------------------------------------
(* Deleted events. *)

\* The count that insert reads first is 0 only while no id is queued.
CountSeen == tomb_order # <<>> => tomb_count # 0

DeletedInv == TypeInv /\ WalkShape /\ TombInv /\ CountSeen

LEMMA CountSeenStep ==
    ASSUME DeletedInv, TombInv', NEW t \in Threads, Step(t)
    PROVE  CountSeen'
<1>0. TypeInv
  BY ZenonT(30) DEF DeletedInv
<1>1. CASE TombstoneOrder(t)
  <2> SUFFICES ASSUME tomb_order' # <<>> PROVE tomb_count' # 0
    BY ZenonT(30) DEF CountSeen
  <2>1. tomb_count' = Cardinality(tomb_ids')
    BY ZenonT(30), <1>1 DEF TombstoneOrder
  <2>2. tomb_order' \in Seq(Events) /\ tomb_ids' \subseteq Events
    BY ZenonT(30) DEF TombInv, TypeInv, TypeOK
  <2>3. 1 \in DOMAIN tomb_order'
    BY <2>2
  <2>4. tomb_order'[1] \in tomb_ids'
    BY ZenonT(30), <2>3 DEF TombInv, TombstonesBounded
  <2>5. IsFiniteSet(tomb_ids')
    BY ZenonT(30), <2>2, ConstantsAssumption, FS_Subset
  <2> QED
    BY ZenonT(30), <2>1, <2>4, <2>5, FS_EmptySet
<1>2. CASE TombstoneId(t)
  BY ZenonT(30), <1>2 DEF TombstoneId, DeletedInv, CountSeen
<1>3. CASE ~TombstoneId(t) /\ ~TombstoneOrder(t)
  BY ZenonT(30), <1>0, <1>3, TombstonesTouched DEF tombstones, DeletedInv, CountSeen
<1> QED
  BY ZenonT(30), <1>1, <1>2, <1>3

\* DeletedForGood, in the terms of the lemmas.
LEMMA ForGood ==
    ASSUME NEW e \in Events
    PROVE  e \in DeletedForGood <=>
               InOrder(e) /\ e \notin by_id /\ \A t \in Threads : ~PreStore(t, e)
BY ZenonT(30) DEF DeletedForGood, InOrder, PreStore, RemoveLabels

LEMMA ForGoodNext == (\A e \in Events :
    e \in DeletedForGood <=>
        InOrder(e) /\ e \notin by_id /\ \A t \in Threads : ~PreStore(t, e))'
<1>1. \A e \in Events :
          e \in DeletedForGood <=>
              InOrder(e) /\ e \notin by_id /\ \A t \in Threads : ~PreStore(t, e)
  BY ZenonT(30), ForGood
<1> QED
  BY <1>1, PTL

\* No step and no call brings an event back whose tombstone is queued.
LEMMA OutStep ==
    ASSUME DeletedInv, NEW t \in Threads, Step(t), NEW e \in Events,
           e \notin by_id, \A u \in Threads : ~PreStore(u, e)
    PROVE  e \notin by_id' /\ \A u \in Threads : ~PreStore(u, e)'
<1>1. TypeInv /\ WalkShape
  BY ZenonT(30) DEF DeletedInv
<1>2. \A u \in Threads : ~PreStore(u, e)'
  BY ZenonT(30), <1>1, PreStoreBefore
<1>3. ASSUME e \in by_id' PROVE FALSE
  <2>1. Store(t) /\ e = ev[t]
    BY ZenonT(30), <1>1, <1>3, ByIdGrows
  <2> QED
    BY ZenonT(30), <1>1, <2>1 DEF Store, PreStore, TypeInv, CallShape, InsertLabels
<1> QED
  BY ZenonT(30), <1>2, <1>3

LEMMA OutCall ==
    ASSUME DeletedInv, NEW t \in Threads, NEW f \in Events,
           Insert(t, f) \/ Evict(t, f) \/ Delete(t, f),
           NEW e \in Events, InOrder(e), e \notin by_id, \A u \in Threads : ~PreStore(u, e)
    PROVE  e \notin by_id' /\ \A u \in Threads : ~PreStore(u, e)'
<1>1. CallBegins(t, f)
  BY ZenonT(30), CallOthers DEF DeletedInv
<1>2. IsTombstoned(e)
  <2>1. PICK i \in DOMAIN tomb_order : tomb_order[i] = e
    BY ZenonT(30) DEF InOrder
  <2>2. e \in tomb_ids
    BY ZenonT(30), <2>1 DEF DeletedInv, TombInv, TombstonesBounded
  <2>3. DOMAIN <<>> = {}
    OBVIOUS
  <2>4. tomb_order # <<>>
    BY ZenonT(30), <2>1, <2>3
  <2> QED
    BY ZenonT(30), <2>2, <2>4 DEF DeletedInv, CountSeen, IsTombstoned
<1>3. by_id' = by_id
  BY ZenonT(30), <1>1 DEF CallBegins
<1>4. \A u \in Threads : ~PreStore(u, e)'
  <2> SUFFICES ASSUME NEW u \in Threads, PreStore(u, e)' PROVE FALSE
    BY ZenonT(30)
  <2>1. CASE u = t
    BY ZenonT(30), <1>1, <1>2, <2>1 DEF CallBegins, PreStore
  <2>2. CASE u # t
    BY ZenonT(30), <1>1, <2>2 DEF CallBegins, PreStore
  <2> QED
    BY ZenonT(30), <2>1, <2>2
<1> QED
  BY ZenonT(30), <1>3, <1>4

LEMMA DeletedInvStep == DeletedInv /\ [Next]_vars => DeletedInv'
<1> SUFFICES ASSUME DeletedInv, [Next]_vars PROVE DeletedInv'
  BY ZenonT(30)
<1>1. TypeInv' /\ TombInv'
  BY ZenonT(30), TypeInvStep, TombInvStep DEF DeletedInv
<1>2. CASE UNCHANGED vars
  <2>1. UNCHANGED <<tomb_order, tomb_count, pc, op, ev, victim, idx>>
    BY ZenonT(30), <1>2 DEF vars, tombstones, locals
  <2>2. WalkShape'
    BY ZenonT(30), <2>1 DEF DeletedInv, WalkShape
  <2> QED
    BY ZenonT(30), <1>1, <2>1, <2>2 DEF DeletedInv, CountSeen
<1>3. ASSUME NEW t \in Threads, Step(t) PROVE DeletedInv'
  BY ZenonT(30), <1>1, <1>3, WalkShapeStep, CountSeenStep DEF DeletedInv
<1>4. ASSUME NEW t \in Threads, NEW e \in Events,
             Insert(t, e) \/ Evict(t, e) \/ Delete(t, e)
      PROVE  DeletedInv'
  <2>1. UNCHANGED tombstones
    BY ZenonT(30), <1>4 DEF Insert, Evict, Delete
  <2>2. CountSeen'
    BY ZenonT(30), <2>1 DEF DeletedInv, CountSeen, tombstones
  <2> QED
    BY ZenonT(30), <1>1, <1>4, <2>2, WalkShapeCall DEF DeletedInv
<1> QED
  BY ZenonT(30), <1>2, <1>3, <1>4 DEF Next

\* Whoever publishes it again and whatever else runs, an event whose deletion is over
\* (recorded, not stored, no insert of it past the tombstone check) stays out for as
\* long as its tombstone is kept.
THEOREM StaysOut == Spec => DeletedStaysOut
<1>1. Init => DeletedInv
  BY ZenonT(30), TombInvInit, InitTypeInv, WalkShapeInit DEF Init, DeletedInv, CountSeen
<1>2. DeletedInv /\ [Next]_vars => DeletedInv'
  BY ZenonT(30), DeletedInvStep
<1>3. DeletedInv /\ [Next]_vars =>
          [\A e \in DeletedForGood :
             e \in {tomb_order[i] : i \in DOMAIN tomb_order}' => e \in DeletedForGood']_vars
  <2> SUFFICES ASSUME DeletedInv, Next, NEW e \in DeletedForGood,
                      e \in {tomb_order[i] : i \in DOMAIN tomb_order}'
               PROVE  e \in DeletedForGood'
    BY ZenonT(30)
  <2>1. e \in Events
    <3>1. tomb_order \in Seq(Events)
      BY ZenonT(30) DEF DeletedInv, TypeInv, TypeOK
    <3>2. \A i \in DOMAIN tomb_order : tomb_order[i] \in Events
      BY <3>1
    <3> QED
      BY ZenonT(30), <3>2 DEF DeletedForGood
  <2>2. InOrder(e) /\ e \notin by_id /\ \A t \in Threads : ~PreStore(t, e)
    BY ZenonT(30), <2>1, ForGood
  <2>3. e \notin by_id' /\ \A t \in Threads : ~PreStore(t, e)'
    BY ZenonT(30), <2>1, <2>2, OutStep, OutCall DEF Next
  <2>4. InOrder(e)'
    BY ZenonT(30) DEF InOrder
  <2> QED
    BY ZenonT(30), <2>1, <2>3, <2>4, ForGoodNext
<1> QED
  BY <1>1, <1>2, <1>3, PTL DEF Spec, DeletedStaysOut

=============================================================================
