-------------------------- MODULE EventIndexProofs --------------------------
(***************************************************************************)
(* Proofs about EventIndex for every value of its constants: its types,    *)
(* that no two calls wait on each other, and that the event and the memory *)
(* counters are exact.                                                     *)
(***************************************************************************)
EXTENDS EventIndex, FiniteSetTheorems, WellFoundedInduction, TLAPS

InsertLabels == {"claim", "store", "verify", "undo", "count", "add_set", "final",
                 "winner", "un_id", "un_count", "un_set"}
RemoveLabels == {"rm_id", "rm_count", "rm_key", "rm_set"}

\* What the locals of a thread hold, by the step it takes next.
CallShape ==
    \A t \in Threads :
        /\ pc[t] # "idle" => ev[t] \in Events
        /\ pc[t] \in InsertLabels => op[t] = "insert"
        /\ pc[t] \in RemoveLabels => victim[t] \in Events
        /\ pc[t] \in RemoveLabels /\ op[t] = "insert" => IsReplaceable(ev[t])
        /\ pc[t] \in {"claim", "verify", "undo", "winner", "un_id"} => IsReplaceable(ev[t])
        /\ pc[t] = "rm_key" => op[t] = "delete" /\ IsReplaceable(victim[t])

TypeInv == TypeOK /\ CallShape

LEMMA InitTypeInv == Init => TypeInv
<1> SUFFICES ASSUME Init PROVE TypeInv
  OBVIOUS
<1>1. TypeOK
  BY ConstantsAssumption DEF Init, TypeOK, Indexes, Labels
<1>2. CallShape
  BY ZenonT(30) DEF Init, CallShape, InsertLabels, RemoveLabels
<1> QED
  BY <1>1, <1>2 DEF TypeInv

LEMMA CallTypeInv ==
    ASSUME TypeInv, NEW t \in Threads, NEW e \in Events,
           Insert(t, e) \/ Evict(t, e) \/ Delete(t, e)
    PROVE  TypeInv'
<1> USE ConstantsAssumption DEF TypeInv, TypeOK, indexes, tombstones, counters, locals,
        history, Call, Goto, Labels
<1>1. CASE Insert(t, e)
  <2>1. TypeOK'
    <3>1. /\ offered' \in {offered, offered \cup {e}}
          /\ \/ UNCHANGED locals
             \/ Call(t, "insert", e, None) /\ (Goto(t, "claim") \/ Goto(t, "store"))
          /\ UNCHANGED <<indexes, tombstones, counters, drift, drift_bytes>>
      BY <1>1, Zenon DEF Insert
    <3>2. offered' \subseteq Events
      BY <3>1
    <3>3. CASE UNCHANGED locals
      BY ZenonT(30), <3>1, <3>2, <3>3
    <3>4. CASE Call(t, "insert", e, None) /\ (Goto(t, "claim") \/ Goto(t, "store"))
      BY ZenonT(30), <3>1, <3>2, <3>4
    <3> QED
      BY ZenonT(30), <3>1, <3>3, <3>4
  <2>2. CallShape'
    BY <1>1 DEF Insert, CallShape, InsertLabels, RemoveLabels, IsReplaceable
  <2> QED
    BY ZenonT(30), <2>1, <2>2
<1>2. CASE Evict(t, e)
  <2>1. TypeOK'
    BY <1>2 DEF Evict
  <2>2. CallShape'
    BY ZenonT(30), <1>2 DEF Evict, CallShape, InsertLabels, RemoveLabels, IsReplaceable
  <2> QED
    BY <2>1, <2>2
<1>3. CASE Delete(t, e)
  <2>1. TypeOK'
    BY ZenonT(30), <1>3 DEF Delete
  <2>2. CallShape'
    BY <1>3 DEF Delete, CallShape, InsertLabels, RemoveLabels, IsReplaceable
  <2> QED
    BY <2>1, <2>2
<1> QED
  BY ZenonT(30), <1>1, <1>2, <1>3

\* The two halves of TypeOK: what the threads share, and their locals.
SharedOK ==
    /\ by_id \subseteq Events
    /\ secondary \in [Indexes -> SUBSET Events]
    /\ by_replaceable \in [Keys -> Events \cup {None}]
    /\ tomb_ids \subseteq Events
    /\ tomb_order \in Seq(Events)
    /\ tomb_count \in Nat
    /\ event_count \in Int /\ memory_bytes \in Int
    /\ offered \subseteq Events
    /\ drift \in Nat /\ drift_bytes \in Nat

LocalsOK ==
    /\ pc \in [Threads -> Labels]
    /\ op \in [Threads -> {None, "insert", "evict", "delete"}]
    /\ ev \in [Threads -> Events \cup {None}]
    /\ victim \in [Threads -> Events \cup {None}]
    /\ idx \in [Threads -> Indexes]

LEMMA TypeHalves == TypeOK <=> SharedOK /\ LocalsOK
BY DEF TypeOK, SharedOK, LocalsOK

LEMMA StepSharedOK ==
    ASSUME TypeInv, NEW t \in Threads, Step(t)
    PROVE  SharedOK'
<1> USE ConstantsAssumption, TypeHalves DEF TypeInv, SharedOK, LocalsOK, CallShape,
        InsertLabels, RemoveLabels, IsReplaceable, indexes, tombstones, counters, history
<1>1. CASE Claim(t)
  BY <1>1 DEF Claim
<1>2. CASE Store(t)
  BY <1>2 DEF Store
<1>3. CASE Verify(t)
  BY ZenonT(30), <1>3 DEF Verify
<1>4. CASE Undo(t)
  <2>1. Size[ev[t]] \in Nat
    BY ZenonT(30), <1>4 DEF Undo
  <2>2. drift' \in Nat /\ drift_bytes' \in Nat /\ by_id' \subseteq Events
    BY <1>4, <2>1 DEF Undo
  <2> QED
    BY <1>4, <2>2 DEF Undo
<1>5. CASE CountUp(t)
  BY <1>5 DEF CountUp
<1>6. CASE AddSet(t)
  BY <1>6 DEF AddSet
<1>7. CASE FinalCheck(t)
  BY <1>7 DEF FinalCheck
<1>8. CASE WinnerCheck(t)
  BY <1>8 DEF WinnerCheck
<1>9. CASE CleanupId(t)
  BY <1>9 DEF CleanupId
<1>10. CASE CleanupCount(t)
  <2>1. Size[ev[t]] \in Nat
    BY ZenonT(30), <1>10 DEF CleanupCount
  <2> QED
    BY <1>10, <2>1 DEF CleanupCount
<1>11. CASE CleanupSet(t)
  BY ZenonT(30), <1>11 DEF CleanupSet
<1>12. CASE RemoveId(t)
  BY ZenonT(30), <1>12 DEF RemoveId
<1>13. CASE RemoveCount(t)
  BY <1>13 DEF RemoveCount, RemovedSize
<1>14. CASE RemoveKey(t)
  BY ZenonT(30), <1>14 DEF RemoveKey
<1>15. CASE RemoveSet(t)
  BY ZenonT(30), <1>15 DEF RemoveSet
<1>16. CASE TombstoneId(t)
  BY ZenonT(30), <1>16 DEF TombstoneId
<1>17. CASE TombstoneOrder(t)
  <2> DEFINE all == Append(tomb_order, ev[t])
             cut == IF Len(all) > MaxTombstones THEN Len(all) - MaxTombstones ELSE 0
  <2>1. ev[t] \in Events
    BY <1>17 DEF TombstoneOrder
  <2>2. all \in Seq(Events) /\ cut \in Nat /\ cut <= Len(all)
    BY <2>1
  <2>3. SubSeq(all, cut + 1, Len(all)) \in Seq(Events)
    BY <2>2
  <2>4. tomb_ids' \subseteq Events /\ tomb_count' = Cardinality(tomb_ids')
    BY <1>17 DEF TombstoneOrder
  <2>5. tomb_count' \in Nat
    BY ZenonT(30), <2>4, FS_Subset, FS_CardinalityType
  <2> QED
    BY ZenonT(30), <1>17, <2>3, <2>4, <2>5 DEF TombstoneOrder
<1> QED
  BY ZenonT(30), <1>1, <1>2, <1>3, <1>4, <1>5, <1>6, <1>7, <1>8, <1>9,
     <1>10, <1>11, <1>12, <1>13, <1>14, <1>15, <1>16, <1>17 DEF Step

\* What insert finds when it takes its by_replaceable entry.
LEMMA ClaimFacts ==
    ASSUME TypeInv, NEW t \in Threads, pc[t] = "claim"
    PROVE  /\ ev[t] \in Events /\ KeyOf[ev[t]] \in Keys /\ op[t] = "insert"
           /\ by_replaceable[KeyOf[ev[t]]] \in Events \cup {None}
BY ZenonT(30), ConstantsAssumption DEF TypeInv, TypeOK, CallShape, IsReplaceable, InsertLabels

LEMMA StepLocalsOK ==
    ASSUME TypeInv, NEW t \in Threads, Step(t)
    PROVE  LocalsOK'
<1> USE ConstantsAssumption, TypeHalves DEF TypeInv, LocalsOK, Goto, Return, Labels, locals
<1>0. 1 \in Indexes
  BY DEF Indexes
<1>1. CASE Claim(t)
  <2> DEFINE old == by_replaceable[KeyOf[ev[t]]]
  <2>1. old \in Events \cup {None}
    BY <1>1, ClaimFacts DEF Claim
  <2>2. CASE Return(t)
    BY <1>0, <2>2
  <2>3. CASE /\ victim' = [victim EXCEPT ![t] = old]
             /\ Goto(t, AfterClaim(old)) /\ UNCHANGED <<op, ev, idx>>
    BY ZenonT(30), <2>1, <2>3 DEF AfterClaim
  <2> QED
    BY ZenonT(30), <1>1, <2>2, <2>3 DEF Claim
<1>2. CASE Store(t)
  BY ZenonT(30), <1>0, <1>2 DEF Store
<1>3. CASE Verify(t)
  BY ZenonT(30), <1>0, <1>3 DEF Verify
<1>4. CASE Undo(t)
  BY <1>0, <1>4 DEF Undo
<1>5. CASE CountUp(t)
  BY ZenonT(30), <1>0, <1>5 DEF CountUp
<1>6. CASE AddSet(t)
  BY <1>0, <1>6 DEF AddSet, NextSet, IsLastSet, Indexes
<1>7. CASE FinalCheck(t)
  BY ZenonT(30), <1>0, <1>7 DEF FinalCheck, AfterFinal
<1>8. CASE WinnerCheck(t)
  BY <1>0, <1>8 DEF WinnerCheck
<1>9. CASE CleanupId(t)
  BY <1>0, <1>9 DEF CleanupId, AfterCleanupId
<1>10. CASE CleanupCount(t)
  BY ZenonT(30), <1>0, <1>10 DEF CleanupCount
<1>11. CASE CleanupSet(t)
  BY <1>0, <1>11 DEF CleanupSet, NextSet, IsLastSet, Indexes
<1>12. CASE RemoveId(t)
  BY ZenonT(30), <1>0, <1>12 DEF RemoveId, AfterRemove
<1>13. CASE RemoveCount(t)
  BY ZenonT(30), <1>0, <1>13 DEF RemoveCount, RemovedSize, SkipReplaceable
<1>14. CASE RemoveKey(t)
  BY ZenonT(30), <1>0, <1>14 DEF RemoveKey
<1>15. CASE RemoveSet(t)
  BY <1>0, <1>15 DEF RemoveSet, NextSet, IsLastSet, AfterRemove, Indexes
<1>16. CASE TombstoneId(t)
  BY ZenonT(30), <1>0, <1>16 DEF TombstoneId
<1>17. CASE TombstoneOrder(t)
  BY ZenonT(30), <1>0, <1>17 DEF TombstoneOrder
<1> QED
  BY ZenonT(30), <1>1, <1>2, <1>3, <1>4, <1>5, <1>6, <1>7, <1>8, <1>9,
     <1>10, <1>11, <1>12, <1>13, <1>14, <1>15, <1>16, <1>17 DEF Step

LEMMA StepCallShape ==
    ASSUME TypeInv, NEW t \in Threads, Step(t)
    PROVE  CallShape'
<1> USE ConstantsAssumption DEF TypeInv, TypeOK, CallShape, InsertLabels, RemoveLabels,
        IsReplaceable, Goto, Return, Labels, locals
<1>1. CASE Claim(t)
  <2> DEFINE old == by_replaceable[KeyOf[ev[t]]]
  <2>1. /\ ev[t] \in Events /\ KeyOf[ev[t]] \in Keys /\ op[t] = "insert"
        /\ old \in Events \cup {None}
    BY ZenonT(30), <1>1, ClaimFacts DEF Claim
  <2>2. CASE Return(t)
    BY ZenonT(30), <2>2
  <2>3. CASE /\ victim' = [victim EXCEPT ![t] = old]
             /\ Goto(t, AfterClaim(old)) /\ UNCHANGED <<op, ev, idx>>
    BY ZenonT(30), <2>1, <2>3 DEF AfterClaim
  <2> QED
    BY ZenonT(30), <1>1, <2>2, <2>3 DEF Claim
<1>2. CASE Store(t)
  BY <1>2 DEF Store
<1>3. CASE Verify(t)
  BY ZenonT(30), <1>3 DEF Verify
<1>4. CASE Undo(t)
  BY ZenonT(30), <1>4 DEF Undo
<1>5. CASE CountUp(t)
  BY ZenonT(30), <1>5 DEF CountUp
<1>6. CASE AddSet(t)
  BY <1>6 DEF AddSet, NextSet, IsLastSet
<1>7. CASE FinalCheck(t)
  BY <1>7 DEF FinalCheck, AfterFinal
<1>8. CASE WinnerCheck(t)
  BY <1>8 DEF WinnerCheck
<1>9. CASE CleanupId(t)
  BY ZenonT(30), <1>9 DEF CleanupId, AfterCleanupId
<1>10. CASE CleanupCount(t)
  BY ZenonT(30), <1>10 DEF CleanupCount
<1>11. CASE CleanupSet(t)
  BY <1>11 DEF CleanupSet, NextSet, IsLastSet
<1>12. CASE RemoveId(t)
  BY <1>12 DEF RemoveId, AfterRemove
<1>13. CASE RemoveCount(t)
  BY ZenonT(30), <1>13 DEF RemoveCount, RemovedSize, SkipReplaceable
<1>14. CASE RemoveKey(t)
  BY ZenonT(30), <1>14 DEF RemoveKey
<1>15. CASE RemoveSet(t)
  BY <1>15 DEF RemoveSet, NextSet, IsLastSet, AfterRemove
<1>16. CASE TombstoneId(t)
  BY <1>16 DEF TombstoneId
<1>17. CASE TombstoneOrder(t)
  BY <1>17 DEF TombstoneOrder
<1> QED
  BY ZenonT(30), <1>1, <1>2, <1>3, <1>4, <1>5, <1>6, <1>7, <1>8, <1>9,
     <1>10, <1>11, <1>12, <1>13, <1>14, <1>15, <1>16, <1>17 DEF Step

LEMMA TypeInvStep == TypeInv /\ [Next]_vars => TypeInv'
<1> SUFFICES ASSUME TypeInv, [Next]_vars PROVE TypeInv'
  OBVIOUS
<1>1. CASE UNCHANGED vars
  <2>1. TypeOK'
    BY <1>1 DEF TypeInv, TypeOK, vars, indexes, tombstones, counters, locals, history
  <2>2. CallShape'
    BY <1>1 DEF TypeInv, CallShape, IsReplaceable, vars, locals
  <2> QED
    BY <2>1, <2>2 DEF TypeInv
<1>2. ASSUME NEW t \in Threads, Step(t) PROVE TypeInv'
  <2>1. SharedOK'
    BY <1>2, StepSharedOK
  <2>2. LocalsOK'
    BY <1>2, StepLocalsOK
  <2>3. CallShape'
    BY <1>2, StepCallShape
  <2> QED
    BY <2>1, <2>2, <2>3 DEF TypeInv, TypeOK, SharedOK, LocalsOK
<1> QED
  BY <1>1, <1>2, CallTypeInv DEF Next

\* Every reachable state of the index is of its type: in particular the walks
\* over the secondary sets end at by_oldest and never run past it.
THEOREM TypeCorrect == Spec => []TypeOK
<1>1. Spec => []TypeInv
  BY InitTypeInv, TypeInvStep, PTL DEF Spec
<1> QED
  BY <1>1, PTL DEF TypeInv

-----------------------------------------------------------------------------
(* Deadlock freedom: a thread that keeps an entry locked waits for none. *)

\* The invariant of locals is enough: only insert keeps an entry, only around
\* internal_remove, and that waits for an entry in delete_by_id alone.
LEMMA TypeInvNoDeadlock == TypeInv => NoDeadlock
<1> SUFFICES ASSUME TypeInv, NEW t \in Threads, pc[t] # "idle"
             PROVE  \E u \in Threads : pc[u] # "idle" /\ EntryFree(EntryWaitedFor(u))
  BY DEF NoDeadlock
<1>1. CASE \E u \in Threads, k \in Keys \cup {None} : HoldsEntry(u, k)
  <2>1. PICK u \in Threads, k \in Keys \cup {None} : HoldsEntry(u, k)
    BY <1>1
  <2>2. pc[u] # "idle" /\ EntryWaitedFor(u) = None
    BY <2>1 DEF HoldsEntry, EntryWaitedFor, TypeInv, CallShape
  <2>3. EntryFree(None)
    BY DEF EntryFree, HoldsEntry, TypeInv, CallShape, RemoveLabels, IsReplaceable
  <2> QED
    BY <2>2, <2>3
<1>2. CASE ~ \E u \in Threads, k \in Keys \cup {None} : HoldsEntry(u, k)
  <2>1. EntryWaitedFor(t) \in Keys \cup {None}
    BY ZenonT(30), ConstantsAssumption DEF EntryWaitedFor, TypeInv, TypeOK, CallShape, RemoveLabels
  <2> QED
    BY <1>2, <2>1 DEF EntryFree
<1> QED
  BY <1>1, <1>2

\* insert, remove and delete_by_id never wait for each other in a cycle, for any
\* number of threads, events and keys.
THEOREM DeadlockFree == Spec => []NoDeadlock
<1>1. Spec => []TypeInv
  BY InitTypeInv, TypeInvStep, PTL DEF Spec
<1> QED
  BY <1>1, TypeInvNoDeadlock, PTL

-----------------------------------------------------------------------------
(* The event counter. *)

\* The full account: what the counters lost for good is in drift and drift_bytes, the
\* fetch_sub's that no fetch_add answers (insert undoes a store that another call has
\* already removed and discounted).
CountExact ==
    event_count = Cardinality(by_id) - Cardinality(Uncounted)
                    + Cardinality(Undiscounted) - drift

MemoryExact ==
    memory_bytes = SumFunctionOnSet(Size, by_id)
                    - SumFunction([t \in Threads |-> OwedBytes(t)]) - drift_bytes

\* 1 if a thread at label l is in Uncounted, and in Undiscounted.
Owes(l) == IF l \in {"verify", "undo", "count"} THEN 1 ELSE 0
Overpays(l) == IF l \in {"rm_count", "un_count"} THEN 1 ELSE 0

\* Two sets of threads that differ at most in t differ in size by at most one.
LEMMA MoveOne ==
    ASSUME NEW A \in SUBSET Threads, NEW B \in SUBSET Threads, NEW t \in Threads,
           \A u \in Threads \ {t} : u \in A <=> u \in B
    PROVE  /\ Cardinality(A) \in Nat /\ Cardinality(B) \in Nat
           /\ Cardinality(B) = Cardinality(A) + (IF t \in B THEN 1 ELSE 0)
                                             - (IF t \in A THEN 1 ELSE 0)
<1>1. IsFiniteSet(A) /\ IsFiniteSet(B)
  BY ConstantsAssumption, FS_Subset
<1>2. Cardinality(A) \in Nat /\ Cardinality(B) \in Nat
  BY <1>1, FS_CardinalityType
<1>3. CASE t \in B /\ t \notin A
  <2>1. B = A \cup {t}
    BY <1>3
  <2> QED
    BY <1>1, <1>2, <1>3, <2>1, FS_AddElement
<1>4. CASE t \notin B /\ t \in A
  <2>1. B = A \ {t}
    BY <1>4
  <2> QED
    BY <1>1, <1>2, <1>4, <2>1, FS_RemoveElement
<1>5. CASE (t \in A) <=> (t \in B)
  <2>1. B = A
    BY <1>5
  <2> QED
    BY <1>2, <1>5, <2>1
<1> QED
  BY <1>3, <1>4, <1>5

\* What a step from pc[t] to l does to the two sets of CountExact.
LEMMA GotoCount ==
    ASSUME TypeInv, NEW t \in Threads, NEW l, Goto(t, l)
    PROVE  /\ Cardinality(Uncounted) \in Nat /\ Cardinality(Undiscounted) \in Nat
           /\ Cardinality(Uncounted') = Cardinality(Uncounted) + Owes(l) - Owes(pc[t])
           /\ Cardinality(Undiscounted')
                 = Cardinality(Undiscounted) + Overpays(l) - Overpays(pc[t])
<1>1. /\ Uncounted \in SUBSET Threads /\ Uncounted' \in SUBSET Threads
      /\ \A u \in Threads \ {t} : u \in Uncounted <=> u \in Uncounted'
      /\ Owes(pc[t]) = (IF t \in Uncounted THEN 1 ELSE 0)
      /\ Owes(l) = (IF t \in Uncounted' THEN 1 ELSE 0)
  BY DEF TypeInv, TypeOK, Goto, Uncounted, Owes
<1>2. /\ Undiscounted \in SUBSET Threads /\ Undiscounted' \in SUBSET Threads
      /\ \A u \in Threads \ {t} : u \in Undiscounted <=> u \in Undiscounted'
      /\ Overpays(pc[t]) = (IF t \in Undiscounted THEN 1 ELSE 0)
      /\ Overpays(l) = (IF t \in Undiscounted' THEN 1 ELSE 0)
  BY DEF TypeInv, TypeOK, Goto, Undiscounted, Overpays
<1>3. /\ Cardinality(Uncounted) \in Nat
      /\ Cardinality(Uncounted') = Cardinality(Uncounted) + Owes(l) - Owes(pc[t])
  BY <1>1, MoveOne
<1>4. /\ Cardinality(Undiscounted) \in Nat
      /\ Cardinality(Undiscounted')
            = Cardinality(Undiscounted) + Overpays(l) - Overpays(pc[t])
  BY <1>2, MoveOne
<1> QED
  BY <1>3, <1>4

\* A step that leaves by_id and the counter alone, between labels that count alike.
LEMMA NeutralMove ==
    ASSUME TypeInv, CountExact, NEW t \in Threads, NEW l, Goto(t, l),
           Owes(l) = Owes(pc[t]), Overpays(l) = Overpays(pc[t]),
           UNCHANGED <<by_id, event_count, drift>>
    PROVE  CountExact'
<1>1. /\ Cardinality(Uncounted) \in Nat /\ Cardinality(Undiscounted) \in Nat
      /\ Owes(l) \in Int /\ Overpays(l) \in Int
  BY GotoCount DEF Owes, Overpays
<1>2. Cardinality(Uncounted') = Cardinality(Uncounted)
  BY <1>1, GotoCount
<1>3. Cardinality(Undiscounted') = Cardinality(Undiscounted)
  BY <1>1, GotoCount
<1> QED
  BY <1>2, <1>3 DEF CountExact

LEMMA StayPut ==
    ASSUME CountExact, UNCHANGED <<pc, by_id, event_count, drift>>
    PROVE  CountExact'
BY DEF CountExact, Uncounted, Undiscounted

\* by_id is finite; adding or removing one id changes its size by one.
LEMMA ByIdSize ==
    ASSUME TypeInv, NEW e \in Events
    PROVE  /\ Cardinality(by_id) \in Nat
           /\ e \notin by_id => Cardinality(by_id \cup {e}) = Cardinality(by_id) + 1
           /\ e \in by_id => Cardinality(by_id \ {e}) = Cardinality(by_id) - 1
<1>1. IsFiniteSet(by_id)
  BY ZenonT(30), ConstantsAssumption, FS_Subset DEF TypeInv, TypeOK
<1> QED
  BY ZenonT(30), <1>1, FS_CardinalityType, FS_AddElement, FS_RemoveElement

LEMMA CallCount ==
    ASSUME TypeInv, CountExact, NEW t \in Threads, NEW e \in Events,
           Insert(t, e) \/ Evict(t, e) \/ Delete(t, e)
    PROVE  CountExact'
<1> USE DEF Owes, Overpays, indexes, counters, history, locals
<1>1. CASE Insert(t, e)
  <2>1. CASE UNCHANGED locals
    BY ZenonT(30), <1>1, <2>1, StayPut DEF Insert
  <2>2. CASE Goto(t, IF IsReplaceable(e) THEN "claim" ELSE "store")
    BY ZenonT(30), <1>1, <2>2, NeutralMove DEF Insert
  <2> QED
    BY ZenonT(30), <1>1, <2>1, <2>2 DEF Insert
<1>2. CASE Evict(t, e)
  BY <1>2, NeutralMove DEF Evict
<1>3. CASE Delete(t, e)
  BY <1>3, NeutralMove DEF Delete
<1> QED
  BY ZenonT(30), <1>1, <1>2, <1>3

\* A step whose changes of by_id, the counter, the drift and t's label cancel.
LEMMA BalancedMove ==
    ASSUME TypeInv, TypeInv', CountExact, NEW t \in Threads, NEW l, Goto(t, l),
           event_count' = event_count + Cardinality(by_id') - Cardinality(by_id)
                            - Owes(l) + Owes(pc[t]) + Overpays(l) - Overpays(pc[t])
                            - drift' + drift
    PROVE  CountExact'
<1>1. /\ Owes(l) \in Int /\ Overpays(l) \in Int /\ Owes(pc[t]) \in Int
      /\ Overpays(pc[t]) \in Int
  BY DEF Owes, Overpays
<1>2. Cardinality(by_id) \in Nat /\ Cardinality(by_id') \in Nat
  BY ZenonT(30), ConstantsAssumption, FS_Subset, FS_CardinalityType DEF TypeInv, TypeOK
<1>3. event_count \in Int /\ drift \in Nat /\ drift' \in Nat
  BY DEF TypeInv, TypeOK
<1>4. /\ Cardinality(Uncounted) \in Nat /\ Cardinality(Undiscounted) \in Nat
      /\ Cardinality(Uncounted') = Cardinality(Uncounted) + Owes(l) - Owes(pc[t])
      /\ Cardinality(Undiscounted')
            = Cardinality(Undiscounted) + Overpays(l) - Overpays(pc[t])
  BY ZenonT(30), GotoCount
<1> QED
  BY <1>1, <1>2, <1>3, <1>4 DEF CountExact

LEMMA StepCount ==
    ASSUME TypeInv, TypeInv', CountExact, NEW t \in Threads, Step(t)
    PROVE  CountExact'
<1> USE DEF Owes, Overpays, indexes, counters, history, Return
<1>0. ev[t] \in Events /\ (pc[t] \in RemoveLabels => victim[t] \in Events)
  BY ZenonT(30) DEF TypeInv, CallShape, Step, Claim, Store, Verify, Undo, CountUp, AddSet,
         FinalCheck, WinnerCheck, CleanupId, CleanupCount, CleanupSet, RemoveId,
         RemoveCount, RemoveKey, RemoveSet, TombstoneId, TombstoneOrder
<1>t. /\ event_count \in Int /\ drift \in Nat
      /\ Cardinality(by_id) \in Nat
  BY ZenonT(30), <1>0, ByIdSize DEF TypeInv, TypeOK
<1>1. CASE Claim(t)
  <2>1. \E l \in {"idle", "store", "rm_id"} : Goto(t, l)
    BY <1>1 DEF Claim, AfterClaim
  <2> QED
    BY ZenonT(30), <1>1, <2>1, NeutralMove DEF Claim
<1>2. CASE Store(t)
  <2>1. CASE ev[t] \in by_id
    <3>1. by_id' = by_id
      BY ZenonT(30), <1>2, <2>1 DEF Store
    <3> QED
      BY ZenonT(30), <1>2, <2>1, <3>1, NeutralMove DEF Store
  <2>2. CASE ev[t] \notin by_id
    <3>1. PICK l \in {"verify", "count"} : Goto(t, l)
      BY ZenonT(30), <1>2, <2>2 DEF Store
    <3>2. Cardinality(by_id') = Cardinality(by_id) + 1
      BY ZenonT(30), <1>0, <1>2, <2>2, ByIdSize DEF Store
    <3> QED
      <4>1. pc[t] = "store" /\ event_count' = event_count /\ drift' = drift
        BY <1>2 DEF Store
      <4> QED
        BY <1>t, <3>1, <3>2, <4>1, BalancedMove
  <2> QED
    BY ZenonT(30), <2>1, <2>2
<1>3. CASE Verify(t)
  <2>1. \E l \in {"count", "undo"} : Goto(t, l)
    BY ZenonT(30), <1>3 DEF Verify
  <2> QED
    BY ZenonT(30), <1>3, <2>1, NeutralMove DEF Verify
<1>4. CASE Undo(t)
  <2>1. CASE ev[t] \in by_id
    <3>1. Cardinality(by_id') = Cardinality(by_id) - 1 /\ drift' = drift
      BY ZenonT(30), <1>0, <1>4, <2>1, ByIdSize DEF Undo
    <3>2. pc[t] = "undo" /\ event_count' = event_count /\ Goto(t, "idle")
      BY <1>4 DEF Undo
    <3> QED
      BY <1>t, <3>1, <3>2, BalancedMove
  <2>2. CASE ev[t] \notin by_id
    <3>1. by_id' = by_id /\ drift' = drift + 1
      BY ZenonT(30), <1>4, <2>2 DEF Undo
    <3>2. pc[t] = "undo" /\ event_count' = event_count /\ Goto(t, "idle")
      BY <1>4 DEF Undo
    <3> QED
      BY <1>t, <3>1, <3>2, BalancedMove
  <2> QED
    BY <2>1, <2>2
<1>5. CASE CountUp(t)
  BY <1>t, <1>5, BalancedMove DEF CountUp
<1>6. CASE AddSet(t)
  BY ZenonT(30), <1>6, NeutralMove, StayPut DEF AddSet, NextSet
<1>7. CASE FinalCheck(t)
  <2>1. \E l \in {"idle", "un_set", "winner"} : Goto(t, l)
    BY ZenonT(30), <1>7 DEF FinalCheck, AfterFinal
  <2> QED
    BY ZenonT(30), <1>7, <2>1, NeutralMove DEF FinalCheck
<1>8. CASE WinnerCheck(t)
  BY ZenonT(30), <1>8, NeutralMove DEF WinnerCheck
<1>9. CASE CleanupId(t)
  <2>1. CASE ev[t] \in by_id
    <3>1. Cardinality(by_id') = Cardinality(by_id) - 1 /\ Goto(t, "un_count")
      BY ZenonT(30), <1>0, <1>9, <2>1, ByIdSize DEF CleanupId, AfterCleanupId
    <3> QED
      <4>1. pc[t] = "un_id" /\ event_count' = event_count /\ drift' = drift
        BY ZenonT(30), <1>9 DEF CleanupId
      <4> QED
        BY <1>t, <3>1, <4>1, BalancedMove
  <2>2. CASE ev[t] \notin by_id
    <3>1. by_id' = by_id /\ Goto(t, "un_set")
      BY ZenonT(30), <1>9, <2>2 DEF CleanupId, AfterCleanupId
    <3> QED
      BY ZenonT(30), <1>9, <3>1, NeutralMove DEF CleanupId
  <2> QED
    BY <2>1, <2>2
<1>10. CASE CleanupCount(t)
  BY <1>t, <1>10, BalancedMove DEF CleanupCount
<1>11. CASE CleanupSet(t)
  BY ZenonT(30), <1>11, NeutralMove, StayPut DEF CleanupSet, NextSet
<1>12. CASE RemoveId(t)
  <2>1. CASE victim[t] \in by_id
    <3>1. Cardinality(by_id') = Cardinality(by_id) - 1 /\ Goto(t, "rm_count")
      BY ZenonT(30), <1>0, <1>12, <2>1, ByIdSize DEF RemoveId, RemoveLabels
    <3> QED
      BY <1>t, <1>12, <3>1, BalancedMove DEF RemoveId
  <2>2. CASE victim[t] \notin by_id
    <3>1. by_id' = by_id /\ \E l \in {"idle", "store", "tomb_ids"} : Goto(t, l)
      BY ZenonT(30), <1>12, <2>2 DEF RemoveId, AfterRemove
    <3> QED
      BY ZenonT(30), <1>12, <3>1, NeutralMove DEF RemoveId
  <2> QED
    BY <2>1, <2>2
<1>13. CASE RemoveCount(t)
  <2>1. PICK l \in {"rm_key", "rm_set"} : Goto(t, l)
    BY ZenonT(30), <1>13 DEF RemoveCount
  <2> QED
    BY <1>t, <1>13, <2>1, BalancedMove DEF RemoveCount
<1>14. CASE RemoveKey(t)
  BY <1>14, NeutralMove DEF RemoveKey
<1>15. CASE RemoveSet(t)
  <2>1. UNCHANGED pc \/ \E l \in {"idle", "store", "tomb_ids"} : Goto(t, l)
    BY ZenonT(30), <1>15 DEF RemoveSet, NextSet, AfterRemove
  <2> QED
    BY ZenonT(30), <1>15, <2>1, NeutralMove, StayPut DEF RemoveSet
<1>16. CASE TombstoneId(t)
  BY ZenonT(30), <1>16, NeutralMove DEF TombstoneId
<1>17. CASE TombstoneOrder(t)
  BY <1>17, NeutralMove DEF TombstoneOrder
<1> QED
  BY ZenonT(30), <1>1, <1>2, <1>3, <1>4, <1>5, <1>6, <1>7, <1>8, <1>9,
     <1>10, <1>11, <1>12, <1>13, <1>14, <1>15, <1>16, <1>17 DEF Step

LEMMA CountAccount == Spec => [](TypeInv /\ CountExact)
<1>1. Init => TypeInv /\ CountExact
  <2>1. Init => CountExact
    <3>1. Init => /\ by_id = {} /\ Uncounted = {} /\ Undiscounted = {}
                  /\ event_count = 0 /\ drift = 0
      BY DEF Init, Uncounted, Undiscounted
    <3> QED
      BY <3>1, FS_EmptySet DEF CountExact
  <2> QED
    BY <2>1, InitTypeInv
<1>2. TypeInv /\ CountExact /\ [Next]_vars => (TypeInv /\ CountExact)'
  <2> SUFFICES ASSUME TypeInv, CountExact, [Next]_vars PROVE (TypeInv /\ CountExact)'
    OBVIOUS
  <2>1. TypeInv'
    BY TypeInvStep
  <2>2. CASE UNCHANGED vars
    BY <2>1, <2>2, StayPut DEF vars, indexes, counters, locals, history
  <2> QED
    BY <2>1, <2>2, StepCount, CallCount DEF Next
<1> QED
  BY <1>1, <1>2, PTL DEF Spec

\* event_count never exceeds the number of stored events, up to the calls that are
\* between by_id and the counter: no interleaving counts an event twice.
THEOREM NeverOverCounted == Spec => []CountNotOver
<1>1. TypeInv /\ CountExact => CountNotOver
  <2> SUFFICES ASSUME TypeInv, CountExact PROVE CountNotOver
    OBVIOUS
  <2>1. IsFiniteSet(by_id) /\ IsFiniteSet(Uncounted) /\ IsFiniteSet(Undiscounted)
    BY ConstantsAssumption, FS_Subset DEF TypeInv, TypeOK, Uncounted, Undiscounted
  <2>2. /\ Cardinality(by_id) \in Nat /\ Cardinality(Uncounted) \in Nat
        /\ Cardinality(Undiscounted) \in Nat /\ drift \in Nat
    BY <2>1, FS_CardinalityType DEF TypeInv, TypeOK
  <2> QED
    BY <2>2 DEF CountExact, CountNotOver
<1> QED
  BY <1>1, CountAccount, PTL

-----------------------------------------------------------------------------
(* Induction. *)

LEMMA NatLess ==
    \E R : /\ \A x, y : <<x, y>> \in R <=> x \in Nat /\ y \in Nat /\ x < y
           /\ IsWellFoundedOn(R, Nat)
<1> DEFINE R == OpToRel(<, Nat)
<1>1. \A x, y : <<x, y>> \in R <=> x \in Nat /\ y \in Nat /\ x < y
  BY DEF OpToRel
<1>2. IsWellFoundedOn(R, Nat)
  BY ZenonT(30), NatLessThanWellFounded
<1> HIDE DEF R
<1> QED
  BY <1>1, <1>2

\* A set of natural numbers that is not empty has a least element.
LEMMA NatMin ==
    ASSUME NEW T \in SUBSET Nat, T # {}
    PROVE  \E x \in T : \A y \in T : x <= y
<1>1. PICK R : /\ \A x, y : <<x, y>> \in R <=> x \in Nat /\ y \in Nat /\ x < y
               /\ IsWellFoundedOn(R, Nat)
  BY NatLess
<1>2. T \subseteq Nat
  OBVIOUS
<1>3. \E x \in T : \A y \in T : ~ (<<y, x>> \in R)
  <2>1. IsWellFoundedOn(R, Nat)
    BY <1>1
  <2> HIDE <1>1
  <2> QED
    BY <2>1, <1>2, WFMin, Zenon
<1>4. PICK x \in T : \A y \in T : ~ (<<y, x>> \in R)
  BY <1>3
<1>5. \A y \in T : ~ (y < x)
  BY <1>1, <1>2, <1>4, Zenon
<1>6. \A y \in T : x <= y
  BY <1>2, <1>5
<1> QED
  BY <1>6

\* Induction, with a set in the place of a predicate.
LEMMA NatInd ==
    ASSUME NEW T, 0 \in T, \A n \in Nat : n \in T => n + 1 \in T
    PROVE  \A n \in Nat : n \in T
<1> DEFINE B == {n \in Nat : n \notin T}
<1> SUFFICES ASSUME B # {} PROVE FALSE
  OBVIOUS
<1>1. PICK x \in B : \A y \in B : x <= y
  <2>1. B \in SUBSET Nat
    OBVIOUS
  <2> HIDE DEF B
  <2> QED
    BY <2>1, NatMin
<1>2. x # 0 /\ x \in Nat
  OBVIOUS
<1>3. x - 1 \in Nat /\ x - 1 \notin B
  BY <1>1, <1>2
<1>4. (x - 1) + 1 \in T
  BY <1>3
<1> QED
  BY <1>2, <1>4

\* A set of natural numbers up to n that is not empty has a largest element.

-----------------------------------------------------------------------------
(* Sums over finite sets. *)

Pick1(s) == CHOOSE x \in s : TRUE

\* it is the table of the sums of f over the sets of D.
SumTable(it, f, D) ==
    it = [s \in D |-> IF s = {} THEN 0 ELSE f[Pick1(s)] + it[s \ {Pick1(s)}]]

UpTo(S, n) == {s \in SUBSET S : Cardinality(s) <= n}

LEMMA Smaller ==
    ASSUME NEW S, IsFiniteSet(S), NEW n \in Nat, NEW s \in UpTo(S, n + 1), NEW x \in s
    PROVE  s \ {x} \in UpTo(S, n) /\ IsFiniteSet(s)
<1>1. IsFiniteSet(s) /\ s \in SUBSET S /\ Cardinality(s) <= n + 1
  BY ZenonT(30), FS_Subset DEF UpTo
<1>2. Cardinality(s \ {x}) = Cardinality(s) - 1 /\ Cardinality(s) \in Nat
  BY <1>1, FS_RemoveElement, FS_CardinalityType
<1> QED
  BY <1>1, <1>2 DEF UpTo

LEMMA UpToZero ==
    ASSUME NEW S, IsFiniteSet(S), NEW s \in UpTo(S, 0)
    PROVE  s = {}
<1>1. IsFiniteSet(s) /\ s \in SUBSET S /\ Cardinality(s) <= 0
  BY FS_Subset DEF UpTo
<1>2. Cardinality(s) \in Nat
  BY <1>1, FS_CardinalityType
<1>3. Cardinality(s) = 0
  BY <1>1, <1>2
<1> QED
  BY <1>1, <1>3, FS_EmptySet

LEMMA SumTableUpTo ==
    ASSUME NEW f, NEW S, IsFiniteSet(S), NEW n \in Nat
    PROVE  \E it : SumTable(it, f, UpTo(S, n))
<1> DEFINE T == {m \in Nat : \E it : SumTable(it, f, UpTo(S, m))}
<1>1. 0 \in T
  <2> DEFINE it == [s \in UpTo(S, 0) |-> 0]
  <2>1. \A s \in UpTo(S, 0) : s = {}
    BY UpToZero
  <2>2. SumTable(it, f, UpTo(S, 0))
    BY <2>1 DEF SumTable
  <2> QED
    BY <2>2
<1>2. ASSUME NEW m \in Nat, m \in T PROVE m + 1 \in T
  <2>1. PICK g : SumTable(g, f, UpTo(S, m))
    BY ZenonT(30), <1>2
  <2> DEFINE D == UpTo(S, m + 1)
             h == [s \in D |-> IF s = {} THEN 0 ELSE f[Pick1(s)] + g[s \ {Pick1(s)}]]
             hh == [s \in D |-> IF s = {} THEN 0 ELSE f[Pick1(s)] + h[s \ {Pick1(s)}]]
  <2>2. \A s \in UpTo(S, m) : h[s] = g[s]
    <3> SUFFICES ASSUME NEW s \in UpTo(S, m) PROVE h[s] = g[s]
      BY ZenonT(30)
    <3>1. s \in D
      <4>1. s \in SUBSET S /\ Cardinality(s) <= m /\ IsFiniteSet(s)
        BY FS_Subset DEF UpTo
      <4>2. Cardinality(s) \in Nat
        BY ZenonT(30), <4>1, FS_CardinalityType
      <4> QED
        BY <4>1, <4>2 DEF UpTo
    <3>2. h[s] = IF s = {} THEN 0 ELSE f[Pick1(s)] + g[s \ {Pick1(s)}]
      BY <3>1
    <3>3. g[s] = IF s = {} THEN 0 ELSE f[Pick1(s)] + g[s \ {Pick1(s)}]
      BY ZenonT(30), <2>1 DEF SumTable
    <3> QED
      BY <3>2, <3>3
  <2>3. \A s \in D : s # {} => s \ {Pick1(s)} \in UpTo(S, m)
    BY ZenonT(30), Smaller DEF Pick1
  <2>4. \A s \in D : s # {} => h[s \ {Pick1(s)}] = g[s \ {Pick1(s)}]
    <3> HIDE DEF h, D
    <3> QED
      BY ZenonT(30), <2>2, <2>3
  <2>5. \A s \in D : h[s] = hh[s]
    <3> SUFFICES ASSUME NEW s \in D PROVE h[s] = hh[s]
      BY ZenonT(30)
    <3>1. h[s] = IF s = {} THEN 0 ELSE f[Pick1(s)] + g[s \ {Pick1(s)}]
      BY ZenonT(30)
    <3>2. hh[s] = IF s = {} THEN 0 ELSE f[Pick1(s)] + h[s \ {Pick1(s)}]
      <4> HIDE DEF h
      <4> QED
        BY ZenonT(30)
    <3> HIDE DEF h, hh
    <3> QED
      BY <2>4, <3>1, <3>2
  <2>6. h = [s \in D |-> h[s]]
    BY ZenonT(30)
  <2>7. hh = [s \in D |-> hh[s]]
    <3> HIDE DEF h
    <3> QED
      OBVIOUS
  <2>8. h = hh
    <3> HIDE DEF h, hh, D
    <3> QED
      BY <2>5, <2>6, <2>7
  <2>9. SumTable(h, f, D)
    <3> HIDE DEF h, D
    <3> QED
      BY ZenonT(30), <2>8 DEF SumTable
  <2> HIDE DEF h
  <2> QED
    BY <2>9
<1>3. \A m \in Nat : m \in T
  <2> HIDE DEF T
  <2> QED
    BY ZenonT(30), <1>1, <1>2, NatInd
<1> QED
  BY <1>3

\* it holds the sums of f over all subsets of S.
SumsOn(it, f, S) ==
    \A s \in SUBSET S : it[s] = IF s = {} THEN 0 ELSE f[Pick1(s)] + it[s \ {Pick1(s)}]

LEMMA SumsOnSubset ==
    ASSUME NEW it, NEW f, NEW S, SumsOn(it, f, S), NEW R \in SUBSET S
    PROVE  SumsOn(it, f, R)
BY DEF SumsOn

LEMMA SumIsTable ==
    ASSUME NEW f, NEW S, IsFiniteSet(S)
    PROVE  \E it : SumsOn(it, f, S) /\ SumFunctionOnSet(f, S) = it[S]
<1>1. SUBSET S = UpTo(S, Cardinality(S)) /\ Cardinality(S) \in Nat
  <2>1. \A s \in SUBSET S : Cardinality(s) <= Cardinality(S)
    BY FS_Subset
  <2> QED
    BY <2>1, FS_CardinalityType DEF UpTo
<1> DEFINE it == CHOOSE it : SumTable(it, f, SUBSET S)
<1>2. SumTable(it, f, SUBSET S)
  <2>1. \E tab : SumTable(tab, f, UpTo(S, Cardinality(S)))
    BY <1>1, SumTableUpTo
  <2>2. \E tab : SumTable(tab, f, SUBSET S)
    BY ZenonT(30), <1>1, <2>1
  <2> QED
    BY ZenonT(30), <2>2
<1>3. SumFunctionOnSet(f, S) = it[S]
  BY DEF SumFunctionOnSet, FoldFunctionOnSet, MapThenFoldSet, SumTable, Pick1
<1> HIDE DEF it
<1>4. SumsOn(it, f, S)
  BY ZenonT(30), <1>2 DEF SumTable, SumsOn
<1> QED
  BY <1>3, <1>4

\* In a table of sums any element may come first.
LEMMA SumAnyFirst ==
    ASSUME NEW f, NEW S, IsFiniteSet(S), \A x \in S : f[x] \in Int,
           NEW it, SumsOn(it, f, S)
    PROVE  \A s \in SUBSET S : it[s] \in Int /\ \A x \in s : it[s] = f[x] + it[s \ {x}]
<1> DEFINE Good(s) == it[s] \in Int /\ \A x \in s : it[s] = f[x] + it[s \ {x}]
           T == {m \in Nat : \A s \in UpTo(S, m) : Good(s)}
<1>1. \A s \in SUBSET S : it[s] = IF s = {} THEN 0 ELSE f[Pick1(s)] + it[s \ {Pick1(s)}]
  BY ZenonT(30) DEF SumsOn
<1>e. Good({})
  <2>1. {} \in SUBSET S
    OBVIOUS
  <2>2. it[{}] = 0
    BY ZenonT(30), <1>1, <2>1
  <2> QED
    BY <2>2
<1>2. 0 \in T
  <2>1. \A s \in UpTo(S, 0) : s = {}
    BY ZenonT(30), UpToZero
  <2> HIDE DEF Good
  <2> QED
    BY ZenonT(30), <1>e, <2>1
<1>3. ASSUME NEW m \in Nat, m \in T PROVE m + 1 \in T
  <2> SUFFICES ASSUME NEW s \in UpTo(S, m + 1) PROVE Good(s)
    OBVIOUS
  <2>1. s \in SUBSET S
    BY ZenonT(30) DEF UpTo
  <2>2. CASE s = {}
    <3> HIDE DEF Good
    <3> QED
      BY ZenonT(30), <1>e, <2>2
  <2>3. CASE s # {}
    <3> DEFINE c == Pick1(s)
    <3>1. c \in s
      BY ZenonT(30), <2>3 DEF Pick1
    <3>2. it[s] = f[c] + it[s \ {c}]
      BY ZenonT(30), <1>1, <2>1, <2>3
    <3> HIDE DEF c
    <3>3. \A x \in s : s \ {x} \in UpTo(S, m)
      BY ZenonT(30), Smaller
    <3>4. \A x \in s : it[s \ {x}] \in Int
                         /\ \A y \in s \ {x} : it[s \ {x}] = f[y] + it[(s \ {x}) \ {y}]
      BY ZenonT(30), <1>3, <3>3
    <3>5. it[s] \in Int
      <4>1. f[c] \in Int /\ it[s \ {c}] \in Int
        BY ZenonT(30), <2>1, <3>1, <3>4
      <4> QED
        BY <3>2, <4>1
    <3>6. ASSUME NEW x \in s PROVE it[s] = f[x] + it[s \ {x}]
      <4>1. CASE x = c
        BY ZenonT(30), <3>2, <4>1
      <4>2. CASE x # c
        <5>1. it[s \ {c}] = f[x] + it[(s \ {c}) \ {x}]
          BY ZenonT(30), <3>1, <3>4, <4>2
        <5>2. it[s \ {x}] = f[c] + it[(s \ {x}) \ {c}]
          BY ZenonT(30), <3>1, <3>4, <4>2
        <5>3. (s \ {x}) \ {c} = (s \ {c}) \ {x}
          BY ZenonT(30)
        <5>4. (s \ {c}) \ {x} \in SUBSET S /\ it[(s \ {c}) \ {x}] \in Int
          <6>1. CASE m = 0
            <7>1. s \ {c} = {}
              BY ZenonT(30), <3>1, <3>3, <6>1, UpToZero
            <7> QED
              BY <4>2, <7>1
          <6>2. CASE m # 0
            <7>1. m - 1 \in Nat /\ m = (m - 1) + 1
              BY <6>2
            <7>2. (s \ {c}) \ {x} \in UpTo(S, m - 1)
              BY ZenonT(30), <3>1, <3>3, <4>2, <7>1, Smaller
            <7>3. (s \ {c}) \ {x} \in UpTo(S, m)
              <8>1. Cardinality((s \ {c}) \ {x}) <= m - 1 /\ (s \ {c}) \ {x} \in SUBSET S
                BY ZenonT(30), <7>2 DEF UpTo
              <8>2. Cardinality((s \ {c}) \ {x}) \in Nat
                BY ZenonT(30), <8>1, FS_Subset, FS_CardinalityType
              <8> QED
                BY <8>1, <8>2 DEF UpTo
            <7> QED
              BY ZenonT(30), <1>3, <7>3 DEF UpTo
          <6> QED
            BY ZenonT(30), <6>1, <6>2
        <5>5. f[x] \in Int /\ f[c] \in Int
          BY ZenonT(30), <2>1, <3>1
        <5> DEFINE r == it[(s \ {c}) \ {x}]
        <5>6. it[s] = f[c] + (f[x] + r)
          BY <3>2, <5>1
        <5>7. f[x] + it[s \ {x}] = f[x] + (f[c] + r)
          BY ZenonT(30), <5>2, <5>3
        <5>8. r \in Int
          BY ZenonT(30), <5>4
        <5> HIDE DEF r
        <5> QED
          BY <5>5, <5>6, <5>7, <5>8
      <4> QED
        BY ZenonT(30), <4>1, <4>2
    <3> QED
      BY ZenonT(30), <3>5, <3>6
  <2> QED
    BY ZenonT(30), <2>2, <2>3
<1>4. Cardinality(S) \in Nat /\ \A s \in SUBSET S : s \in UpTo(S, Cardinality(S))
  BY ZenonT(30), FS_Subset, FS_CardinalityType DEF UpTo
<1>5. \A m \in Nat : m \in T
  <2> HIDE DEF T
  <2> QED
    BY ZenonT(30), <1>2, <1>3, NatInd
<1> QED
  BY <1>4, <1>5

\* Two tables agree on a set on which their functions do.
LEMMA SumTablesAgree ==
    ASSUME NEW S, IsFiniteSet(S), NEW f, NEW g, \A x \in S : f[x] = g[x],
           NEW it, SumsOn(it, f, S), NEW jt, SumsOn(jt, g, S)
    PROVE  it[S] = jt[S]
<1> DEFINE T == {m \in Nat : \A s \in UpTo(S, m) : it[s] = jt[s]}
<1>1. \A s \in SUBSET S :
         /\ it[s] = IF s = {} THEN 0 ELSE f[Pick1(s)] + it[s \ {Pick1(s)}]
         /\ jt[s] = IF s = {} THEN 0 ELSE g[Pick1(s)] + jt[s \ {Pick1(s)}]
  BY ZenonT(30) DEF SumsOn
<1>2. 0 \in T
  <2>1. \A s \in UpTo(S, 0) : s = {}
    BY ZenonT(30), UpToZero
  <2>2. it[{}] = 0 /\ jt[{}] = 0
    BY ZenonT(30), <1>1
  <2> QED
    BY ZenonT(30), <2>1, <2>2
<1>3. ASSUME NEW m \in Nat, m \in T PROVE m + 1 \in T
  <2> SUFFICES ASSUME NEW s \in UpTo(S, m + 1) PROVE it[s] = jt[s]
    OBVIOUS
  <2>1. s \in SUBSET S
    BY ZenonT(30) DEF UpTo
  <2>2. CASE s = {}
    BY ZenonT(30), <1>1, <2>1, <2>2
  <2>3. CASE s # {}
    <3> DEFINE c == Pick1(s)
    <3>1. c \in s
      BY ZenonT(30), <2>3 DEF Pick1
    <3>2. it[s] = f[c] + it[s \ {c}] /\ jt[s] = g[c] + jt[s \ {c}]
      BY ZenonT(30), <1>1, <2>1, <2>3
    <3> HIDE DEF c
    <3>3. s \ {c} \in UpTo(S, m)
      BY <3>1, Smaller
    <3>4. it[s \ {c}] = jt[s \ {c}] /\ f[c] = g[c]
      BY ZenonT(30), <1>3, <2>1, <3>1, <3>3
    <3> QED
      BY ZenonT(30), <3>2, <3>4
  <2> QED
    BY ZenonT(30), <2>2, <2>3
<1>4. S \in UpTo(S, Cardinality(S)) /\ Cardinality(S) \in Nat
  BY FS_CardinalityType DEF UpTo
<1>5. \A m \in Nat : m \in T
  <2> HIDE DEF T
  <2> QED
    BY ZenonT(30), <1>2, <1>3, NatInd
<1> QED
  BY ZenonT(30), <1>4, <1>5

LEMMA SumEmpty == \A f : SumFunctionOnSet(f, {}) = 0
<1> SUFFICES ASSUME NEW f PROVE SumFunctionOnSet(f, {}) = 0
  BY ZenonT(30)
<1>1. PICK it : SumsOn(it, f, {}) /\ SumFunctionOnSet(f, {}) = it[{}]
  BY ZenonT(30), FS_EmptySet, SumIsTable
<1>2. {} \in SUBSET {}
  BY ZenonT(30)
<1>3. it[{}] = 0
  BY ZenonT(30), <1>1, <1>2 DEF SumsOn
<1> QED
  BY <1>1, <1>3

\* A sum depends on the values at the summed elements only.
LEMMA SumSame ==
    ASSUME NEW S, IsFiniteSet(S), NEW f, NEW g, \A x \in S : f[x] = g[x]
    PROVE  SumFunctionOnSet(f, S) = SumFunctionOnSet(g, S)
<1>1. PICK it : SumsOn(it, f, S) /\ SumFunctionOnSet(f, S) = it[S]
  BY ZenonT(30), SumIsTable
<1>2. PICK jt : SumsOn(jt, g, S) /\ SumFunctionOnSet(g, S) = jt[S]
  BY ZenonT(30), SumIsTable
<1>3. it[S] = jt[S]
  BY <1>1, <1>2, SumTablesAgree
<1> QED
  BY ZenonT(30), <1>1, <1>2, <1>3

LEMMA SumType ==
    ASSUME NEW S, IsFiniteSet(S), NEW f, \A x \in S : f[x] \in Int
    PROVE  SumFunctionOnSet(f, S) \in Int
<1>1. PICK it : SumsOn(it, f, S) /\ SumFunctionOnSet(f, S) = it[S]
  BY SumIsTable
<1>2. \A s \in SUBSET S : it[s] \in Int
  <2>1. SumsOn(it, f, S)
    BY ZenonT(30), <1>1
  <2> QED
    BY <2>1, SumAnyFirst, ZenonT(30)
<1> QED
  BY ZenonT(30), <1>1, <1>2

\* One element less is its value less.
LEMMA SumRemove ==
    ASSUME NEW S, IsFiniteSet(S), NEW f, \A y \in S : f[y] \in Int, NEW x \in S
    PROVE  SumFunctionOnSet(f, S \ {x}) = SumFunctionOnSet(f, S) - f[x]
<1>1. PICK it : SumsOn(it, f, S) /\ SumFunctionOnSet(f, S) = it[S]
  BY SumIsTable
<1>2. IsFiniteSet(S \ {x})
  BY ZenonT(30), FS_Subset
<1>3. PICK jt : SumsOn(jt, f, S \ {x}) /\ SumFunctionOnSet(f, S \ {x}) = jt[S \ {x}]
  BY <1>2, SumIsTable
<1>4. S \in SUBSET S /\ S \ {x} \in SUBSET S
  OBVIOUS
<1>5. it[S] = f[x] + it[S \ {x}] /\ it[S \ {x}] \in Int
  <2>1. \A s \in SUBSET S : it[s] \in Int /\ \A y \in s : it[s] = f[y] + it[s \ {y}]
    BY <1>1, SumAnyFirst
  <2> QED
    BY ZenonT(30), <1>4, <2>1
<1>6. it[S \ {x}] = jt[S \ {x}]
  <2>1. SumsOn(it, f, S \ {x}) /\ \A y \in S \ {x} : f[y] = f[y]
    BY ZenonT(30), <1>1, <1>4, SumsOnSubset
  <2> QED
    BY ZenonT(30), <1>2, <1>3, <2>1, SumTablesAgree
<1> QED
  BY <1>1, <1>3, <1>5, <1>6

\* One element more is its value more.
LEMMA SumAdd ==
    ASSUME NEW S, IsFiniteSet(S), NEW f, NEW x, x \notin S,
           \A y \in S \cup {x} : f[y] \in Int
    PROVE  SumFunctionOnSet(f, S \cup {x}) = SumFunctionOnSet(f, S) + f[x]
<1>1. IsFiniteSet(S \cup {x})
  BY FS_AddElement
<1>2. (S \cup {x}) \ {x} = S /\ x \in S \cup {x}
  BY ZenonT(30)
<1>3. SumFunctionOnSet(f, S) = SumFunctionOnSet(f, S \cup {x}) - f[x]
  BY ZenonT(30), <1>1, <1>2, SumRemove
<1>4. SumFunctionOnSet(f, S \cup {x}) \in Int
  BY ZenonT(30), <1>1, SumType
<1> QED
  BY <1>3, <1>4

\* A function that is 0 everywhere sums up to 0.
LEMMA SumZero ==
    ASSUME NEW S, IsFiniteSet(S), NEW f, \A x \in S : f[x] = 0
    PROVE  SumFunctionOnSet(f, S) = 0
<1> DEFINE T == {m \in Nat : \A s \in UpTo(S, m) : SumFunctionOnSet(f, s) = 0}
<1>1. 0 \in T
  BY ZenonT(30), UpToZero, SumEmpty
<1>2. ASSUME NEW m \in T PROVE m + 1 \in T
  <2> SUFFICES ASSUME NEW s \in UpTo(S, m + 1) PROVE SumFunctionOnSet(f, s) = 0
    BY <1>2
  <2>1. CASE s = {}
    BY ZenonT(30), <2>1, SumEmpty
  <2>2. CASE s # {}
    <3>1. PICK x \in s : TRUE
      BY ZenonT(30), <2>2
    <3>2. s \ {x} \in UpTo(S, m) /\ IsFiniteSet(s) /\ s \subseteq S
      BY ZenonT(30), <1>2, Smaller DEF UpTo
    <3>3. SumFunctionOnSet(f, s \ {x}) = 0
      BY ZenonT(30), <1>2, <3>2
    <3>4. \A y \in s : f[y] = 0 /\ f[y] \in Int
      BY <3>2
    <3>5. SumFunctionOnSet(f, s \ {x}) = SumFunctionOnSet(f, s) - f[x]
      BY ZenonT(30), <3>1, <3>2, <3>4, SumRemove
    <3>6. SumFunctionOnSet(f, s) \in Int
      BY ZenonT(30), <3>2, <3>4, SumType
    <3> QED
      BY <3>3, <3>4, <3>5, <3>6
  <2> QED
    BY ZenonT(30), <2>1, <2>2
<1> HIDE DEF T
<1>3. T = Nat
  <2>1. T \subseteq Nat
    BY DEF T
  <2> QED
    BY ZenonT(30), <1>1, <1>2, <2>1, NatInd
<1>4. Cardinality(S) \in Nat /\ S \in UpTo(S, Cardinality(S))
  BY FS_CardinalityType DEF UpTo
<1> QED
  BY ZenonT(30), <1>3, <1>4 DEF T

\* Two functions that differ at one point only.
LEMMA SumChange ==
    ASSUME NEW S, IsFiniteSet(S), NEW f, NEW g, NEW x \in S,
           \A y \in S : f[y] \in Int /\ g[y] \in Int,
           \A y \in S \ {x} : f[y] = g[y]
    PROVE  SumFunctionOnSet(g, S) = SumFunctionOnSet(f, S) - f[x] + g[x]
<1>1. IsFiniteSet(S \ {x})
  BY ZenonT(30), FS_Subset
<1>2. SumFunctionOnSet(f, S \ {x}) = SumFunctionOnSet(f, S) - f[x]
  BY SumRemove
<1>3. SumFunctionOnSet(g, S \ {x}) = SumFunctionOnSet(g, S) - g[x]
  BY ZenonT(30), SumRemove
<1>4. SumFunctionOnSet(f, S \ {x}) = SumFunctionOnSet(g, S \ {x})
  BY ZenonT(30), <1>1, SumSame
<1>5. SumFunctionOnSet(f, S) \in Int /\ SumFunctionOnSet(g, S) \in Int
  BY ZenonT(30), SumType
<1> QED
  BY <1>2, <1>3, <1>4, <1>5

-----------------------------------------------------------------------------
(* What a step may do to the locals. *)

\* A step of one call leaves the locals of every other call alone.
LEMMA OthersStay ==
    ASSUME TypeInv, NEW t \in Threads, Step(t), NEW u \in Threads, u # t
    PROVE  UNCHANGED <<pc[u], op[u], ev[u], victim[u]>>
BY ZenonT(30) DEF Step, Claim, Store, Verify, Undo, CountUp, AddSet, FinalCheck, WinnerCheck,
       CleanupId, CleanupCount, CleanupSet, RemoveId, RemoveCount, RemoveKey,
       RemoveSet, TombstoneId, TombstoneOrder, NextSet, AfterRemove,
       TypeInv, TypeOK, Goto, Return

\* A step of one call leaves every local of the others alone.
LEMMA OthersKeep ==
    ASSUME TypeInv, NEW t \in Threads, Step(t), NEW u \in Threads, u # t
    PROVE  UNCHANGED <<pc[u], op[u], ev[u], victim[u], idx[u]>>
<1>1. UNCHANGED <<pc[u], op[u], ev[u], victim[u]>>
  BY ZenonT(30), OthersStay
<1>2. idx'[u] = idx[u]
  BY ZenonT(30) DEF Step, Claim, Store, Verify, Undo, CountUp, AddSet, FinalCheck, WinnerCheck,
         CleanupId, CleanupCount, CleanupSet, RemoveId, RemoveCount, RemoveKey,
         RemoveSet, TombstoneId, TombstoneOrder, NextSet, AfterRemove,
         TypeInv, TypeOK, Return
<1> QED
  BY ZenonT(30), <1>1, <1>2

\* What the first step of a call leaves: the shared structures as they were, and
\* either nothing begun or an insert, an eviction or a deletion of e begun.
CallBegins(t, e) ==
    /\ pc[t] = "idle"
    /\ UNCHANGED <<by_id, secondary, idx>>
    /\ \A u \in Threads : u # t => /\ pc'[u] = pc[u] /\ op'[u] = op[u]
                                   /\ ev'[u] = ev[u] /\ victim'[u] = victim[u]
    /\ \/ /\ pc'[t] = pc[t] /\ op'[t] = op[t]
          /\ ev'[t] = ev[t] /\ victim'[t] = victim[t]
       \/ /\ pc'[t] \in {"claim", "store"} /\ op'[t] = "insert"
          /\ ev'[t] = e /\ victim'[t] = None /\ Insert(t, e) /\ ~IsTombstoned(e)
       \/ /\ pc'[t] = "rm_id" /\ op'[t] = "evict" /\ ev'[t] = e /\ victim'[t] = e
       \/ /\ pc'[t] = "rm_id" /\ op'[t] = "delete" /\ ev'[t] = e /\ victim'[t] = e
          /\ e \in by_id

LEMMA CallOthers ==
    ASSUME TypeInv, NEW t \in Threads, NEW e \in Events,
           Insert(t, e) \/ Evict(t, e) \/ Delete(t, e)
    PROVE  CallBegins(t, e)
<1> USE DEF CallBegins, Call, Goto, TypeInv, TypeOK, indexes
<1>1. CASE Insert(t, e)
  <2>1. CASE UNCHANGED locals
    BY ZenonT(30), <1>1, <2>1 DEF Insert, locals
  <2>2. CASE /\ ~IsTombstoned(e)
             /\ Call(t, "insert", e, None)
             /\ Goto(t, IF IsReplaceable(e) THEN "claim" ELSE "store")
    <3>1. pc'[t] \in {"claim", "store"} /\ \A u \in Threads : u # t => pc'[u] = pc[u]
      BY ZenonT(30), <2>2
    <3> QED
      BY ZenonT(30), <1>1, <2>2, <3>1 DEF Insert
  <2> QED
    BY ZenonT(30), <1>1, <2>1, <2>2 DEF Insert
<1>2. CASE Evict(t, e)
  BY ZenonT(30), <1>2 DEF Evict
<1>3. CASE Delete(t, e)
  BY ZenonT(30), <1>3 DEF Delete
<1> QED
  BY ZenonT(30), <1>1, <1>2, <1>3

-----------------------------------------------------------------------------
(* memory_bytes. *)

Bytes == SumFunctionOnSet(Size, by_id)
Owed == [t \in Threads |-> OwedBytes(t)]

\* The bytes of a set of events, and what one more or one less event makes of them.
LEMMA BytesOf ==
    ASSUME NEW S \in SUBSET Events
    PROVE  /\ SumFunctionOnSet(Size, S) \in Int
           /\ \A e \in Events : Size[e] \in Nat
           /\ \A e \in Events \ S :
                 SumFunctionOnSet(Size, S \cup {e}) = SumFunctionOnSet(Size, S) + Size[e]
           /\ \A e \in S :
                 SumFunctionOnSet(Size, S \ {e}) = SumFunctionOnSet(Size, S) - Size[e]
<1>1. IsFiniteSet(S)
  BY ZenonT(30), ConstantsAssumption, FS_Subset
<1>2. \A e \in Events : Size[e] \in Nat
  BY ZenonT(30), ConstantsAssumption
<1>3. SumFunctionOnSet(Size, S) \in Int
  BY <1>1, <1>2, SumType
<1>4. ASSUME NEW e \in Events \ S
      PROVE  SumFunctionOnSet(Size, S \cup {e}) = SumFunctionOnSet(Size, S) + Size[e]
  <2>1. \A x \in S \cup {e} : Size[x] \in Int
    BY <1>2
  <2> QED
    BY ZenonT(30), <1>1, <2>1, SumAdd
<1>5. ASSUME NEW e \in S
      PROVE  SumFunctionOnSet(Size, S \ {e}) = SumFunctionOnSet(Size, S) - Size[e]
  <2>1. \A x \in S : Size[x] \in Int
    BY <1>2
  <2> QED
    BY ZenonT(30), <1>1, <2>1, SumRemove
<1> QED
  BY ZenonT(30), <1>2, <1>3, <1>4, <1>5

LEMMA OwedType == TypeInv => Owed \in [Threads -> Int]
<1> SUFFICES ASSUME TypeInv, NEW t \in Threads PROVE OwedBytes(t) \in Int
  BY ZenonT(30) DEF Owed
<1>1. pc[t] \in {"verify", "undo", "count", "un_count"} => ev[t] \in Events
  BY ZenonT(30) DEF TypeInv, CallShape
<1>2. pc[t] = "rm_count" => victim[t] \in Events
  BY ZenonT(30) DEF TypeInv, CallShape, RemoveLabels
<1>3. \A e \in Events : Size[e] \in Nat
  BY ZenonT(30), ConstantsAssumption
<1> QED
  BY <1>1, <1>2, <1>3 DEF OwedBytes, Uncounted, Undiscounted, Subtrahend

LEMMA CounterTypes ==
    TypeInv => memory_bytes \in Int /\ drift_bytes \in Int /\ by_id \in SUBSET Events
BY DEF TypeInv, TypeOK

LEMMA MemoryForm == MemoryExact <=> memory_bytes = Bytes - SumFunctionOnSet(Owed, Threads) - drift_bytes
<1>1. DOMAIN Owed = Threads
  BY ZenonT(30) DEF Owed
<1> QED
  BY ZenonT(30), <1>1 DEF MemoryExact, Bytes, Owed, SumFunction

\* A step of t whose changes of by_id, of memory_bytes, of the drift and of what t
\* owes cancel.
LEMMA MemoryMove ==
    ASSUME TypeInv, TypeInv', MemoryExact, NEW t \in Threads,
           \A u \in Threads : u # t => pc'[u] = pc[u] /\ ev'[u] = ev[u] /\ victim'[u] = victim[u],
           memory_bytes' + Owed'[t] + drift_bytes' - Bytes'
              = memory_bytes + Owed[t] + drift_bytes - Bytes
    PROVE  MemoryExact'
<1>1. \A u \in Threads : Owed[u] \in Int /\ Owed'[u] \in Int
  <2>1. Owed \in [Threads -> Int]
    BY OwedType
  <2>2. (TypeInv => Owed \in [Threads -> Int])'
    BY OwedType, PTL
  <2> QED
    BY ZenonT(30), <2>1, <2>2
<1>2. \A u \in Threads \ {t} : Owed[u] = Owed'[u]
  BY ZenonT(30) DEF Owed, OwedBytes, Uncounted, Undiscounted, Subtrahend
<1>t. IsFiniteSet(Threads)
  BY ZenonT(30), ConstantsAssumption
<1>3. SumFunctionOnSet(Owed', Threads) = SumFunctionOnSet(Owed, Threads) - Owed[t] + Owed'[t]
  BY <1>t, <1>1, <1>2, SumChange
<1>4. SumFunctionOnSet(Owed, Threads) \in Int /\ Owed[t] \in Int /\ Owed'[t] \in Int
  BY ZenonT(30), <1>t, <1>1, SumType
<1>5. /\ memory_bytes \in Int /\ memory_bytes' \in Int
      /\ drift_bytes \in Int /\ drift_bytes' \in Int
      /\ by_id \in SUBSET Events /\ by_id' \in SUBSET Events
  <2>1. (TypeInv => memory_bytes \in Int /\ drift_bytes \in Int /\ by_id \in SUBSET Events)'
    BY CounterTypes, PTL
  <2> QED
    BY CounterTypes, <2>1
<1>6. Bytes \in Int /\ Bytes' \in Int
  BY ZenonT(30), <1>5, BytesOf DEF Bytes
<1>7. memory_bytes = Bytes - SumFunctionOnSet(Owed, Threads) - drift_bytes
  BY ZenonT(30), MemoryForm
<1>8. memory_bytes' = Bytes' - SumFunctionOnSet(Owed', Threads) - drift_bytes'
  BY <1>3, <1>4, <1>5, <1>6, <1>7
<1>9. MemoryExact' <=> memory_bytes' = Bytes' - SumFunctionOnSet(Owed', Threads) - drift_bytes'
  <2>1. DOMAIN Owed' = Threads
    BY ZenonT(30) DEF Owed
  <2> QED
    BY ZenonT(30), <2>1 DEF MemoryExact, Bytes, Owed, SumFunction
<1> QED
  BY ZenonT(30), <1>8, <1>9

\* A step that touches neither by_id nor the counters, and between whose labels t
\* owes nothing new.
LEMMA MemoryKept ==
    ASSUME TypeInv, TypeInv', MemoryExact, NEW t \in Threads,
           \A u \in Threads : u # t => pc'[u] = pc[u] /\ ev'[u] = ev[u] /\ victim'[u] = victim[u],
           OwedBytes(t)' = OwedBytes(t),
           UNCHANGED <<by_id, memory_bytes, drift_bytes>>
    PROVE  MemoryExact'
<1>1. Owed'[t] = Owed[t]
  BY ZenonT(30) DEF Owed
<1>2. Bytes' = Bytes
  BY ZenonT(30) DEF Bytes
<1> QED
  BY ZenonT(30), <1>1, <1>2, MemoryMove

LEMMA StepMemory ==
    ASSUME TypeInv, TypeInv', MemoryExact, NEW t \in Threads, Step(t)
    PROVE  MemoryExact'
<1>a. \A u \in Threads : u # t => pc'[u] = pc[u] /\ ev'[u] = ev[u] /\ victim'[u] = victim[u]
  BY ZenonT(30), OthersKeep
<1>b. /\ pc \in [Threads -> Labels] /\ ev \in [Threads -> Events \cup {None}]
      /\ victim \in [Threads -> Events \cup {None}] /\ by_id \in SUBSET Events
      /\ memory_bytes \in Int /\ drift_bytes \in Int
  BY DEF TypeInv, TypeOK
<1>c. /\ ev[t] \in Events /\ Size[ev[t]] \in Nat
      /\ pc[t] \in RemoveLabels => victim[t] \in Events /\ Size[victim[t]] \in Nat
  BY ZenonT(30), ConstantsAssumption DEF TypeInv, CallShape, Step, Claim, Store, Verify, Undo, CountUp,
         AddSet, FinalCheck, WinnerCheck, CleanupId, CleanupCount, CleanupSet, RemoveId,
         RemoveCount, RemoveKey, RemoveSet, TombstoneId, TombstoneOrder
<1>d. /\ Owed[t] = OwedBytes(t) /\ Owed'[t] = OwedBytes(t)'
  BY DEF Owed
<1>e. memory_bytes \in Int /\ drift_bytes \in Int /\ Bytes \in Int
  <2>1. Bytes \in Int
    BY ZenonT(30), <1>b, BytesOf DEF Bytes
  <2> QED
    BY ZenonT(30), <1>b, <2>1
<1> DEFINE Quiet == pc'[t] \notin {"verify", "undo", "count", "rm_count", "un_count"}
           Before == pc[t] \notin {"verify", "undo", "count", "rm_count", "un_count"}
<1>g. ASSUME memory_bytes' + OwedBytes(t)' + drift_bytes' - Bytes'
                = memory_bytes + OwedBytes(t) + drift_bytes - Bytes
      PROVE  MemoryExact'
  BY ZenonT(30), <1>a, <1>d, <1>g, MemoryMove
<1>f. (Quiet => OwedBytes(t)' = 0) /\ (Before => OwedBytes(t) = 0)
  BY ZenonT(30) DEF OwedBytes, Uncounted, Undiscounted
<1>1. CASE Store(t) /\ ev[t] \notin by_id
  <2>1. /\ pc[t] = "store" /\ pc'[t] \in {"verify", "count"} /\ ev'[t] = ev[t]
        /\ by_id' = by_id \cup {ev[t]} /\ UNCHANGED <<memory_bytes, drift_bytes>>
    BY <1>1, <1>b DEF Store, Goto, counters, history
  <2>2. Bytes' = Bytes + Size[ev[t]]
    BY ZenonT(30), <1>1, <1>b, <1>c, <2>1, BytesOf DEF Bytes
  <2>3. OwedBytes(t)' = Size[ev[t]] /\ OwedBytes(t) = 0
    BY <2>1 DEF OwedBytes, Uncounted, Undiscounted
  <2> QED
    BY <1>c, <1>e, <1>g, <2>1, <2>2, <2>3
<1>2. CASE Verify(t)
  <2>1. /\ pc[t] = "verify" /\ pc'[t] \in {"undo", "count"} /\ ev'[t] = ev[t]
        /\ UNCHANGED <<by_id, memory_bytes, drift_bytes>>
    BY <1>2, <1>b DEF Verify, Goto, indexes, counters, history
  <2>2. OwedBytes(t)' = OwedBytes(t)
    BY ZenonT(30), <2>1 DEF OwedBytes, Uncounted, Undiscounted
  <2> QED
    BY ZenonT(30), <1>a, <2>1, <2>2, MemoryKept
<1>3. CASE Undo(t)
  <2>1. /\ pc[t] = "undo" /\ pc'[t] = "idle" /\ by_id' = by_id \ {ev[t]}
        /\ memory_bytes' = memory_bytes
        /\ drift_bytes' = IF ev[t] \in by_id THEN drift_bytes ELSE drift_bytes + Size[ev[t]]
    BY ZenonT(30), <1>3, <1>b DEF Undo, Return, Goto, counters
  <2>2. OwedBytes(t)' = 0 /\ OwedBytes(t) = Size[ev[t]]
    BY ZenonT(30), <2>1 DEF OwedBytes, Uncounted, Undiscounted
  <2>3. CASE ev[t] \in by_id
    <3>1. Bytes' = Bytes - Size[ev[t]]
      BY ZenonT(30), <1>b, <1>c, <2>1, <2>3, BytesOf DEF Bytes
    <3> QED
      BY <1>c, <1>e, <1>g, <2>1, <2>2, <2>3, <3>1
  <2>4. CASE ev[t] \notin by_id
    <3>1. by_id' = by_id
      BY ZenonT(30), <2>1, <2>4
    <3>2. Bytes' = Bytes
      BY ZenonT(30), <3>1 DEF Bytes
    <3> QED
      BY <1>c, <1>e, <1>g, <2>1, <2>2, <2>4, <3>2
  <2> QED
    BY <2>3, <2>4
<1>4. CASE CountUp(t)
  <2>1. /\ pc[t] = "count" /\ pc'[t] = "add_set" /\ UNCHANGED <<by_id, drift_bytes>>
        /\ memory_bytes' = memory_bytes + Size[ev[t]]
    BY ZenonT(30), <1>4, <1>b DEF CountUp, Goto, indexes, history
  <2>2. OwedBytes(t)' = 0 /\ OwedBytes(t) = Size[ev[t]] /\ Bytes' = Bytes
    BY ZenonT(30), <2>1 DEF OwedBytes, Uncounted, Undiscounted, Bytes
  <2> QED
    BY <1>c, <1>e, <1>g, <2>1, <2>2
<1>5. CASE CleanupId(t) /\ ev[t] \in by_id
  <2>1. /\ pc[t] = "un_id" /\ pc'[t] = "un_count" /\ by_id' = by_id \ {ev[t]} /\ ev'[t] = ev[t]
        /\ UNCHANGED <<memory_bytes, drift_bytes>>
    BY <1>5, <1>b DEF CleanupId, AfterCleanupId, Goto, counters, history
  <2>2. Bytes' = Bytes - Size[ev[t]]
    BY ZenonT(30), <1>5, <1>b, <1>c, <2>1, BytesOf DEF Bytes
  <2>3. OwedBytes(t)' = -Size[ev[t]] /\ OwedBytes(t) = 0
    BY ZenonT(30), <2>1 DEF OwedBytes, Uncounted, Undiscounted, Subtrahend
  <2> QED
    BY <1>c, <1>e, <1>g, <2>1, <2>2, <2>3
<1>6. CASE CleanupCount(t)
  <2>1. /\ pc[t] = "un_count" /\ pc'[t] = "un_set" /\ UNCHANGED <<by_id, drift_bytes>>
        /\ memory_bytes' = memory_bytes - Size[ev[t]]
    BY ZenonT(30), <1>6, <1>b DEF CleanupCount, Goto, indexes, history
  <2>2. OwedBytes(t)' = 0 /\ OwedBytes(t) = -Size[ev[t]] /\ Bytes' = Bytes
    BY ZenonT(30), <2>1 DEF OwedBytes, Uncounted, Undiscounted, Subtrahend, Bytes
  <2> QED
    BY <1>c, <1>e, <1>g, <2>1, <2>2
<1>7. CASE RemoveId(t) /\ victim[t] \in by_id
  <2>1. /\ pc[t] = "rm_id" /\ pc'[t] = "rm_count" /\ by_id' = by_id \ {victim[t]}
        /\ victim'[t] = victim[t]
        /\ UNCHANGED <<memory_bytes, drift_bytes>>
    BY ZenonT(30), <1>7, <1>b DEF RemoveId, Goto, counters, history
  <2>2. victim[t] \in Events /\ Size[victim[t]] \in Nat
    BY ZenonT(30), <1>c, <2>1 DEF RemoveLabels
  <2>3. Bytes' = Bytes - Size[victim[t]]
    BY ZenonT(30), <1>7, <1>b, <2>1, <2>2, BytesOf DEF Bytes
  <2>4. OwedBytes(t)' = -Size[victim[t]] /\ OwedBytes(t) = 0
    BY ZenonT(30), <2>1 DEF OwedBytes, Uncounted, Undiscounted, Subtrahend
  <2> QED
    BY <1>e, <1>g, <2>1, <2>2, <2>3, <2>4
<1>8. CASE RemoveCount(t)
  <2>1. /\ pc[t] = "rm_count" /\ pc'[t] \in {"rm_key", "rm_set"} /\ UNCHANGED <<by_id, drift_bytes>>
        /\ memory_bytes' = memory_bytes - Size[victim[t]]
    BY <1>8, <1>b DEF RemoveCount, RemovedSize, Goto, indexes, history
  <2>2. victim[t] \in Events /\ Size[victim[t]] \in Nat
    BY ZenonT(30), <1>c, <2>1 DEF RemoveLabels
  <2>3. OwedBytes(t)' = 0 /\ OwedBytes(t) = -Size[victim[t]] /\ Bytes' = Bytes
    BY ZenonT(30), <2>1 DEF OwedBytes, Uncounted, Undiscounted, Subtrahend, Bytes
  <2> QED
    BY <1>e, <1>g, <2>1, <2>2, <2>3
<1>9. CASE Quiet /\ Before /\ UNCHANGED <<by_id, memory_bytes, drift_bytes>>
  BY ZenonT(30), <1>9, <1>a, <1>f, MemoryKept
<1> USE <1>b DEF indexes, counters, history, Goto, Return
<1>10. CASE Claim(t)
  <2>1. Quiet /\ Before /\ UNCHANGED <<by_id, memory_bytes, drift_bytes>>
    BY ZenonT(30), <1>10 DEF Claim, AfterClaim
  <2> QED
    BY <1>9, <2>1
<1>11. CASE Store(t) /\ ev[t] \in by_id
  <2>1. Quiet /\ Before /\ UNCHANGED <<by_id, memory_bytes, drift_bytes>>
    BY ZenonT(30), <1>11 DEF Store
  <2> QED
    BY <1>9, <2>1
<1>12. CASE AddSet(t)
  <2>1. Quiet /\ Before /\ UNCHANGED <<by_id, memory_bytes, drift_bytes>>
    BY ZenonT(30), <1>12 DEF AddSet, NextSet
  <2> QED
    BY <1>9, <2>1
<1>13. CASE FinalCheck(t)
  <2>1. Quiet /\ Before /\ UNCHANGED <<by_id, memory_bytes, drift_bytes>>
    BY ZenonT(30), <1>13 DEF FinalCheck, AfterFinal
  <2> QED
    BY <1>9, <2>1
<1>14. CASE WinnerCheck(t)
  <2>1. Quiet /\ Before /\ UNCHANGED <<by_id, memory_bytes, drift_bytes>>
    BY ZenonT(30), <1>14 DEF WinnerCheck
  <2> QED
    BY <1>9, <2>1
<1>15. CASE CleanupId(t) /\ ev[t] \notin by_id
  <2>1. Quiet /\ Before /\ UNCHANGED <<by_id, memory_bytes, drift_bytes>>
    BY ZenonT(30), <1>15 DEF CleanupId, AfterCleanupId
  <2> QED
    BY <1>9, <2>1
<1>16. CASE CleanupSet(t)
  <2>1. Quiet /\ Before /\ UNCHANGED <<by_id, memory_bytes, drift_bytes>>
    BY ZenonT(30), <1>16 DEF CleanupSet, NextSet
  <2> QED
    BY <1>9, <2>1
<1>17. CASE RemoveId(t) /\ victim[t] \notin by_id
  <2>1. Quiet /\ Before /\ UNCHANGED <<by_id, memory_bytes, drift_bytes>>
    BY ZenonT(30), <1>17 DEF RemoveId, AfterRemove
  <2> QED
    BY <1>9, <2>1
<1>18. CASE RemoveKey(t)
  <2>1. Quiet /\ Before /\ UNCHANGED <<by_id, memory_bytes, drift_bytes>>
    BY ZenonT(30), <1>18 DEF RemoveKey
  <2> QED
    BY <1>9, <2>1
<1>19. CASE RemoveSet(t)
  <2>1. Quiet /\ Before /\ UNCHANGED <<by_id, memory_bytes, drift_bytes>>
    BY ZenonT(30), <1>19 DEF RemoveSet, NextSet, AfterRemove
  <2> QED
    BY <1>9, <2>1
<1>20. CASE TombstoneId(t) \/ TombstoneOrder(t)
  <2>1. Quiet /\ Before /\ UNCHANGED <<by_id, memory_bytes, drift_bytes>>
    BY ZenonT(30), <1>20 DEF TombstoneId, TombstoneOrder
  <2> QED
    BY <1>9, <2>1
<1> QED
  BY ZenonT(30), <1>1, <1>2, <1>3, <1>4, <1>5, <1>6, <1>7, <1>8, <1>10, <1>11, <1>12, <1>13, <1>14,
     <1>15, <1>16, <1>17, <1>18, <1>19, <1>20 DEF Step

LEMMA MemoryAccount == Spec => [](TypeInv /\ MemoryExact)
<1>1. Init => TypeInv /\ MemoryExact
  <2> SUFFICES ASSUME Init PROVE MemoryExact
    BY ZenonT(30), InitTypeInv
  <2>1. IsFiniteSet(Threads) /\ \A t \in Threads : Owed[t] = 0
    BY ZenonT(30), ConstantsAssumption DEF Owed, OwedBytes, Uncounted, Undiscounted, Init
  <2>2. SumFunctionOnSet(Owed, Threads) = 0
    BY ZenonT(30), <2>1, SumZero
  <2>3. Bytes = 0
    BY ZenonT(30), SumEmpty DEF Bytes, Init
  <2> QED
    BY <2>2, <2>3, MemoryForm DEF Init
<1>2. TypeInv /\ MemoryExact /\ [Next]_vars => (TypeInv /\ MemoryExact)'
  <2> SUFFICES ASSUME TypeInv, MemoryExact, [Next]_vars PROVE MemoryExact'
    BY ZenonT(30), TypeInvStep
  <2>1. TypeInv'
    BY TypeInvStep
  <2>2. CASE UNCHANGED vars
    BY ZenonT(30), <2>2 DEF MemoryExact, OwedBytes, Uncounted, Undiscounted, Subtrahend, vars, indexes,
         counters, locals, history
  <2>3. ASSUME NEW t \in Threads, NEW e \in Events,
               Insert(t, e) \/ Evict(t, e) \/ Delete(t, e)
        PROVE  MemoryExact'
    <3>1. UNCHANGED <<by_id, memory_bytes, drift_bytes>>
      BY ZenonT(30), <2>3 DEF Insert, Evict, Delete, indexes, counters, history
    <3>2. /\ pc[t] = "idle" /\ pc'[t] \in {"idle", "claim", "store", "rm_id"}
          /\ \A u \in Threads : u # t => pc'[u] = pc[u] /\ ev'[u] = ev[u] /\ victim'[u] = victim[u]
      BY ZenonT(30), <2>3, CallOthers DEF CallBegins
    <3>3. OwedBytes(t)' = OwedBytes(t)
      BY <3>2 DEF OwedBytes, Uncounted, Undiscounted
    <3> QED
      BY ZenonT(30), <2>1, <3>1, <3>2, <3>3, MemoryKept
  <2> QED
    BY ZenonT(30), <2>1, <2>2, <2>3, StepMemory DEF Next
<1> QED
  BY <1>1, <1>2, PTL DEF Spec


\* memory_bytes, which eviction steers by, never exceeds the bytes of the stored
\* events, up to what calls between by_id and the counter still owe.
THEOREM NeverOverweight == Spec => []MemoryNotOver
<1>1. TypeInv /\ MemoryExact => MemoryNotOver
  <2> SUFFICES ASSUME TypeInv, MemoryExact PROVE MemoryNotOver
    OBVIOUS
  <2> DEFINE all == SumFunction([t \in Threads |-> OwedBytes(t)])
  <2>1. memory_bytes = Bytes - all - drift_bytes
    BY ZenonT(30) DEF MemoryExact, Bytes
  <2>2. all \in Int
    <3>1. \A t \in Threads : Owed[t] \in Int
      BY ZenonT(30), OwedType
    <3>2. SumFunctionOnSet(Owed, Threads) \in Int
      BY ZenonT(30), <3>1, ConstantsAssumption, SumType
    <3>3. DOMAIN Owed = Threads
      BY ZenonT(30) DEF Owed
    <3> QED
      BY ZenonT(30), <3>2, <3>3 DEF SumFunction, Owed
  <2>3. Bytes \in Int /\ drift_bytes \in Nat
    BY ZenonT(30), CounterTypes, BytesOf DEF Bytes, TypeInv, TypeOK
  <2> HIDE DEF all
  <2>4. memory_bytes + all <= Bytes
    BY <2>1, <2>2, <2>3
  <2> QED
    BY ZenonT(30), <2>4 DEF MemoryNotOver, Bytes, all
<1> QED
  BY <1>1, MemoryAccount, PTL

=============================================================================
