--------------------------- MODULE RequestsProofs ---------------------------
(***************************************************************************)
(* Proofs about Requests for every value of its constants: a deletion      *)
(* request deletes nothing that it does not name and misses nothing that   *)
(* it names, a stored event is published, and the eviction takes the       *)
(* oldest events of the store.                                             *)
(***************************************************************************)
EXTENDS Requests, FiniteSetTheorems, WellFoundedInduction, TLAPS

Steps == {"idle", "contains", "tombstoned", "walk", "version", "delete", "bury",
          "insert", "store", "publish"}

\* A task in the walk of a deletion request.
Walking(t) == pc[t] \in {"walk", "version", "delete", "bury"}

\* The store, with one version per replacement key, and the shape of each task.
StoreInv == stored \subseteq Events /\ \A e \in stored : Versions(stored, e) = {}

TaskType ==
    /\ pc \in [Tasks -> Steps]
    /\ ev \in [Tasks -> Events \cup {None}]
    /\ target \in [Tasks -> Events \cup {None}]
    /\ ids = [t \in Tasks |-> ids[t]]
    /\ coords = [t \in Tasks |-> coords[t]]
    /\ due \in [Tasks -> SUBSET Events]
    /\ \A t \in Tasks : pc[t] # "idle" => ev[t] \in Events

\* The version by_replaceable named for a coordinate of the request.
VersionOf(r, e) ==
    /\ e \in Events
    /\ \E c \in RequestedCoordinates(r) :
         /\ Own(r, c.pubkey) /\ IsReplaceable(e)
         /\ ReplacementKey(e) = CoordinateKey(c)

\* What a task in the walk knows of its target.
WalkInv ==
    \A t \in Tasks :
        /\ Walking(t) \/ pc[t] \in {"contains", "tombstoned"} => IsDeletionRequest(ev[t])
        /\ Walking(t) => /\ ids[t] \subseteq RequestedIds(ev[t])
                         /\ coords[t] \subseteq RequestedCoordinates(ev[t])
        /\ pc[t] = "version" => VersionOf(ev[t], target[t])
        /\ pc[t] \in {"delete", "bury"} => target[t] \in Events /\ Names(ev[t], target[t])

Inv == StoreInv /\ TaskType /\ WalkInv

-----------------------------------------------------------------------------
(* Facts about the operators. *)

\* The lookup under a coordinate's key finds only events of that address.
LEMMA KeyAddresses ==
    ASSUME NEW e \in Events, NEW r \in Events, NEW c \in RequestedCoordinates(r),
           IsReplaceable(e), ReplacementKey(e) = CoordinateKey(c)
    PROVE  Addresses(c, e)
<1>1. /\ [pubkey |-> Author[e], kind |-> Kind[e], d |-> DTag(e)]
           = [pubkey |-> c.pubkey, kind |-> c.kind, d |-> IF c.d = "" THEN None ELSE c.d]
  BY ZenonT(30) DEF ReplacementKey, CoordinateKey
<1>2. Author[e] = c.pubkey /\ Kind[e] = c.kind /\ DTag(e) = IF c.d = "" THEN None ELSE c.d
  BY ZenonT(30), <1>1
<1>3. c.d # None
  BY ZenonT(30), StoreAssumption DEF RequestedCoordinates
<1> QED
  BY ZenonT(30), <1>2, <1>3 DEF Addresses

\* A version that is not newer than the request is one that the request names.
LEMMA VersionNamed ==
    ASSUME NEW r \in Events, NEW e, VersionOf(r, e), NotNewer(e, r)
    PROVE  e \in Events /\ Names(r, e)
<1>1. PICK c \in RequestedCoordinates(r) :
        Own(r, c.pubkey) /\ IsReplaceable(e) /\ ReplacementKey(e) = CoordinateKey(c)
  BY ZenonT(30) DEF VersionOf
<1>2. e \in Events
  BY ZenonT(30) DEF VersionOf
<1>3. Addresses(c, e)
  BY ZenonT(30), <1>1, <1>2, KeyAddresses
<1> QED
  BY ZenonT(30), <1>1, <1>2, <1>3 DEF Names, NotNewer, Own, Addresses

\* Removing events, or inserting one in place of its versions, keeps one version
\* per key.
LEMMA FewerVersions ==
    ASSUME StoreInv, NEW S, S \subseteq stored
    PROVE  S \subseteq Events /\ \A e \in S : Versions(S, e) = {}
BY ZenonT(30) DEF StoreInv, Versions

LEMMA InsertedVersions ==
    ASSUME StoreInv, NEW e \in Events
    PROVE  /\ AfterInsert(stored, e) \subseteq Events
           /\ \A f \in AfterInsert(stored, e) : Versions(AfterInsert(stored, e), f) = {}
<1>1. AfterInsert(stored, e) \subseteq Events
  BY ZenonT(30) DEF AfterInsert, StoreInv
<1>2. ASSUME NEW f \in AfterInsert(stored, e), NEW g \in Versions(AfterInsert(stored, e), f)
      PROVE  FALSE
  <2>1. /\ f \in stored \ Versions(stored, e) \/ f = e
        /\ g \in stored \ Versions(stored, e) \/ g = e
        /\ g # f /\ IsReplaceable(f) /\ IsReplaceable(g) /\ ReplacementKey(g) = ReplacementKey(f)
    BY ZenonT(30), <1>2 DEF AfterInsert, Versions
  <2>2. CASE f = e
    BY ZenonT(30), <2>1, <2>2 DEF Versions
  <2>3. CASE g = e
    BY ZenonT(30), <2>1, <2>3 DEF Versions
  <2>4. CASE f # e /\ g # e
    BY ZenonT(30), <2>1, <2>4 DEF Versions, StoreInv
  <2> QED
    BY ZenonT(30), <2>2, <2>3, <2>4
<1> QED
  BY ZenonT(30), <1>1, <1>2

-----------------------------------------------------------------------------
(* The invariant, action by action. *)

LEMMA InitInv == Init => Inv
BY ZenonT(30), DeletionAssumption DEF Init, DeletionInit, Inv, StoreInv, TaskType, WalkInv, Walking, Steps

LEMMA ReceiveInv ==
    ASSUME Inv, NEW t \in Tasks, NEW e \in Events, Receive(t, e)
    PROVE  Inv'
<1>1. StoreInv'
  BY ZenonT(30) DEF Inv, StoreInv, Receive, store, Versions
<1>2. TaskType'
  BY ZenonT(30) DEF Inv, TaskType, Receive, Goto, Steps, store
<1>3. WalkInv'
  <2> SUFFICES ASSUME NEW u \in Tasks PROVE WalkInv!(u)'
    BY ZenonT(30) DEF WalkInv
  <2> USE DEF Inv, TaskType, Receive, Goto
  <2>1. CASE u = t
    BY ZenonT(30), <2>1 DEF Walking
  <2>2. CASE u # t
    BY ZenonT(30), <2>2 DEF WalkInv, Walking
  <2> QED
    BY ZenonT(30), <2>1, <2>2
<1> QED
  BY ZenonT(30), <1>1, <1>2, <1>3 DEF Inv

LEMMA ContainsInv ==
    ASSUME Inv, NEW t \in Tasks, Contains_(t)
    PROVE  Inv'
<1>1. StoreInv'
  BY ZenonT(30) DEF Inv, StoreInv, Contains_, store, Versions
<1>2. TaskType'
  BY ZenonT(30) DEF Inv, TaskType, Contains_, Goto, Reply, Steps, store
<1>3. WalkInv'
  <2> SUFFICES ASSUME NEW u \in Tasks PROVE WalkInv!(u)'
    BY ZenonT(30) DEF WalkInv
  <2> USE DEF Inv, TaskType, Contains_, Goto, Reply
  <2>1. CASE u = t
    BY ZenonT(30), <2>1 DEF WalkInv, Walking
  <2>2. CASE u # t
    BY ZenonT(30), <2>2 DEF WalkInv, Walking
  <2> QED
    BY ZenonT(30), <2>1, <2>2
<1> QED
  BY ZenonT(30), <1>1, <1>2, <1>3 DEF Inv

LEMMA TombstonedInv ==
    ASSUME Inv, NEW t \in Tasks, Tombstoned(t)
    PROVE  Inv'
<1>1. StoreInv'
  BY ZenonT(30) DEF Inv, StoreInv, Tombstoned, store, Versions
<1>2. TaskType'
  BY DEF Inv, TaskType, Tombstoned, Goto, Reply, Steps, store, StoreInv
<1>3. WalkInv'
  <2> SUFFICES ASSUME NEW u \in Tasks PROVE WalkInv!(u)'
    BY ZenonT(30) DEF WalkInv
  <2> USE DEF Inv, TaskType, Tombstoned, Goto, Reply
  <2>1. CASE u = t
    BY <2>1 DEF WalkInv, Walking
  <2>2. CASE u # t
    BY ZenonT(30), <2>2 DEF WalkInv, Walking
  <2> QED
    BY ZenonT(30), <2>1, <2>2
<1> QED
  BY ZenonT(30), <1>1, <1>2, <1>3 DEF Inv

LEMMA LookupIdInv ==
    ASSUME Inv, NEW t \in Tasks, NEW id \in ids[t], LookupId(t, id)
    PROVE  Inv'
<1>1. StoreInv'
  BY ZenonT(30) DEF Inv, StoreInv, LookupId, store, Versions
<1>2. TaskType'
  BY ZenonT(30) DEF Inv, TaskType, LookupId, Goto, Reply, Steps, store, StoreInv
<1>3. WalkInv'
  <2> SUFFICES ASSUME NEW u \in Tasks PROVE WalkInv!(u)'
    BY ZenonT(30) DEF WalkInv
  <2> USE DEF Inv, TaskType, LookupId, Goto, Reply
  <2>1. CASE u = t
    BY <2>1 DEF WalkInv, Walking, StoreInv, Own, Names
  <2>2. CASE u # t
    BY ZenonT(30), <2>2 DEF WalkInv, Walking
  <2> QED
    BY ZenonT(30), <2>1, <2>2
<1> QED
  BY ZenonT(30), <1>1, <1>2, <1>3 DEF Inv

LEMMA LookupCoordinateInv ==
    ASSUME Inv, NEW t \in Tasks, NEW c \in coords[t], LookupCoordinate(t, c)
    PROVE  Inv'
<1>1. StoreInv'
  BY ZenonT(30) DEF Inv, StoreInv, LookupCoordinate, store, Versions
<1>2. TaskType'
  <2> USE DEF Inv, TaskType, LookupCoordinate, store, StoreInv
  <2>1. pc' \in [Tasks -> Steps]
    BY DEF Goto, Steps
  <2>2. target' \in [Tasks -> Events \cup {None}]
    BY DEF Goto
  <2>3. ev' \in [Tasks -> Events \cup {None}] /\ due' \in [Tasks -> SUBSET Events]
    BY ZenonT(30)
  <2>4. ids' = [u \in Tasks |-> ids'[u]] /\ coords' = [u \in Tasks |-> coords'[u]]
    BY ZenonT(30)
  <2>5. \A u \in Tasks : pc'[u] # "idle" => ev'[u] \in Events
    BY DEF Goto
  <2> QED
    BY ZenonT(30), <2>1, <2>2, <2>3, <2>4, <2>5
<1>3. WalkInv'
  <2> SUFFICES ASSUME NEW u \in Tasks PROVE WalkInv!(u)'
    BY ZenonT(30) DEF WalkInv
  <2> USE DEF Inv, TaskType, LookupCoordinate, Goto, Reply
  <2>1. CASE u = t
    BY ZenonT(30), <2>1 DEF WalkInv, Walking, StoreInv, VersionOf
  <2>2. CASE u # t
    BY ZenonT(30), <2>2 DEF WalkInv, Walking
  <2> QED
    BY ZenonT(30), <2>1, <2>2
<1> QED
  BY ZenonT(30), <1>1, <1>2, <1>3 DEF Inv

LEMMA CheckVersionInv ==
    ASSUME Inv, NEW t \in Tasks, CheckVersion(t)
    PROVE  Inv'
<1>1. StoreInv'
  BY ZenonT(30) DEF Inv, StoreInv, CheckVersion, store, Versions
<1>2. TaskType'
  BY ZenonT(30) DEF Inv, TaskType, CheckVersion, Goto, Reply, Steps, store
<1>3. WalkInv'
  <2> SUFFICES ASSUME NEW u \in Tasks PROVE WalkInv!(u)'
    BY ZenonT(30) DEF WalkInv
  <2> USE DEF Inv, TaskType, CheckVersion, Goto, Reply
  <2>1. CASE u = t
    <3>1. CASE target[t] \in stored /\ NotNewer(target[t], ev[t])
      <4>1. pc[t] = "version" /\ ev[t] \in Events /\ VersionOf(ev[t], target[t])
        BY ZenonT(30) DEF WalkInv
      <4>2. target[t] \in Events /\ Names(ev[t], target[t])
        BY ZenonT(30), <4>1, <3>1, VersionNamed
      <4> QED
        BY ZenonT(30), <2>1, <3>1, <4>2 DEF WalkInv, Walking
    <3>2. CASE ~(target[t] \in stored /\ NotNewer(target[t], ev[t]))
      BY ZenonT(30), <2>1, <3>2 DEF WalkInv, Walking
    <3> QED
      BY ZenonT(30), <3>1, <3>2
  <2>2. CASE u # t
    BY ZenonT(30), <2>2 DEF WalkInv, Walking
  <2> QED
    BY ZenonT(30), <2>1, <2>2
<1> QED
  BY ZenonT(30), <1>1, <1>2, <1>3 DEF Inv

LEMMA DeleteByIdInv ==
    ASSUME Inv, NEW t \in Tasks, DeleteById(t)
    PROVE  Inv'
<1>1. StoreInv'
  BY ZenonT(30), FewerVersions DEF Inv, StoreInv, DeleteById, StoreBecomes
<1>2. TaskType'
  BY ZenonT(30) DEF Inv, TaskType, DeleteById, StoreBecomes, Goto, Steps
<1>3. WalkInv'
  <2> SUFFICES ASSUME NEW u \in Tasks PROVE WalkInv!(u)'
    BY ZenonT(30) DEF WalkInv
  <2> USE DEF Inv, TaskType, DeleteById, Goto
  <2>1. CASE u = t
    BY ZenonT(30), <2>1 DEF WalkInv, Walking
  <2>2. CASE u # t
    BY ZenonT(30), <2>2 DEF WalkInv, Walking
  <2> QED
    BY ZenonT(30), <2>1, <2>2
<1> QED
  BY ZenonT(30), <1>1, <1>2, <1>3 DEF Inv

LEMMA BuryInv ==
    ASSUME Inv, NEW t \in Tasks, Bury(t)
    PROVE  Inv'
<1>1. StoreInv'
  BY ZenonT(30) DEF Inv, StoreInv, Bury, Versions
<1>2. TaskType'
  BY ZenonT(30) DEF Inv, TaskType, Bury, Goto, Steps
<1>3. WalkInv'
  <2> SUFFICES ASSUME NEW u \in Tasks PROVE WalkInv!(u)'
    BY ZenonT(30) DEF WalkInv
  <2> USE DEF Inv, TaskType, Bury, Goto
  <2>1. CASE u = t
    BY ZenonT(30), <2>1 DEF WalkInv, Walking
  <2>2. CASE u # t
    BY ZenonT(30), <2>2 DEF WalkInv, Walking
  <2> QED
    BY ZenonT(30), <2>1, <2>2
<1> QED
  BY ZenonT(30), <1>1, <1>2, <1>3 DEF Inv

LEMMA CheckInsertInv ==
    ASSUME Inv, NEW t \in Tasks, CheckInsert(t)
    PROVE  Inv'
<1>1. StoreInv'
  BY ZenonT(30) DEF Inv, StoreInv, CheckInsert, store, Versions
<1>2. TaskType'
  BY DEF Inv, TaskType, CheckInsert, Goto, Reply, Steps, store
<1>3. WalkInv'
  <2> SUFFICES ASSUME NEW u \in Tasks PROVE WalkInv!(u)'
    BY ZenonT(30) DEF WalkInv
  <2> USE DEF Inv, TaskType, CheckInsert, Goto, Reply
  <2>1. CASE u = t
    BY ZenonT(30), <2>1 DEF WalkInv, Walking
  <2>2. CASE u # t
    BY ZenonT(30), <2>2 DEF WalkInv, Walking
  <2> QED
    BY ZenonT(30), <2>1, <2>2
<1> QED
  BY ZenonT(30), <1>1, <1>2, <1>3 DEF Inv

LEMMA StoreEventInv ==
    ASSUME Inv, NEW t \in Tasks, StoreEvent(t)
    PROVE  Inv'
<1>1. StoreInv'
  <2>1. ev[t] \in Events
    BY ZenonT(30) DEF Inv, TaskType, StoreEvent, Steps
  <2>2. stored' = stored \/ stored' = AfterInsert(stored, ev[t])
    BY ZenonT(30) DEF StoreEvent, StoreBecomes
  <2>3. CASE stored' = stored
    BY ZenonT(30), <2>3 DEF Inv, StoreInv, Versions
  <2>4. CASE stored' = AfterInsert(stored, ev[t])
    BY ZenonT(30), <2>1, <2>4, InsertedVersions DEF Inv, StoreInv
  <2> QED
    BY ZenonT(30), <2>2, <2>3, <2>4
<1>2. TaskType'
  BY DEF Inv, TaskType, StoreEvent, StoreBecomes, Goto, Reply, Steps
<1>3. WalkInv'
  <2> SUFFICES ASSUME NEW u \in Tasks PROVE WalkInv!(u)'
    BY ZenonT(30) DEF WalkInv
  <2> USE DEF Inv, TaskType, StoreEvent, Goto, Reply
  <2>1. CASE u = t
    BY ZenonT(30), <2>1 DEF WalkInv, Walking
  <2>2. CASE u # t
    BY ZenonT(30), <2>2 DEF WalkInv, Walking
  <2> QED
    BY ZenonT(30), <2>1, <2>2
<1> QED
  BY ZenonT(30), <1>1, <1>2, <1>3 DEF Inv

LEMMA PublishInv ==
    ASSUME Inv, NEW t \in Tasks, Publish(t)
    PROVE  Inv'
<1>1. StoreInv'
  BY ZenonT(30) DEF Inv, StoreInv, Publish, store, Versions
<1>2. TaskType'
  BY ZenonT(30) DEF Inv, TaskType, Publish, Goto, Reply, Steps, store
<1>3. WalkInv'
  <2> SUFFICES ASSUME NEW u \in Tasks PROVE WalkInv!(u)'
    BY ZenonT(30) DEF WalkInv
  <2> USE DEF Inv, TaskType, Publish, Goto, Reply
  <2>1. CASE u = t
    BY ZenonT(30), <2>1 DEF WalkInv, Walking
  <2>2. CASE u # t
    BY ZenonT(30), <2>2 DEF WalkInv, Walking
  <2> QED
    BY ZenonT(30), <2>1, <2>2
<1> QED
  BY ZenonT(30), <1>1, <1>2, <1>3 DEF Inv

LEMMA EvictNextInv == Inv /\ EvictNext => Inv'
<1> SUFFICES ASSUME Inv, EvictNext PROVE Inv'
  BY ZenonT(30)
<1>1. stored' \subseteq stored
  BY ZenonT(30) DEF EvictNext
<1>2. StoreInv'
  BY ZenonT(30), <1>1, FewerVersions DEF Inv, StoreInv
<1>3. due' = [t \in Tasks |-> due[t] \cap stored'] /\ UNCHANGED <<pc, ev, ids, coords, target>>
  BY ZenonT(30) DEF EvictNext
<1>4. TaskType'
  BY ZenonT(30), <1>3 DEF Inv, TaskType
<1>5. WalkInv'
  BY ZenonT(30), <1>3 DEF Inv, WalkInv, Walking
<1> QED
  BY ZenonT(30), <1>2, <1>4, <1>5 DEF Inv

LEMMA StutterInv == Inv /\ UNCHANGED <<store, tasks>> => Inv'
<1> SUFFICES ASSUME Inv, UNCHANGED <<store, tasks>> PROVE Inv'
  BY ZenonT(30)
<1>1. StoreInv'
  BY ZenonT(30) DEF Inv, StoreInv, store, Versions
<1>2. UNCHANGED <<pc, ev, ids, coords, target, due>>
  BY ZenonT(30) DEF tasks
<1>3. TaskType' /\ WalkInv'
  BY ZenonT(30), <1>2 DEF Inv, TaskType, WalkInv, Walking
<1> QED
  BY ZenonT(30), <1>1, <1>3 DEF Inv

LEMMA NextInv == Inv /\ [Next]_vars => Inv'
<1> SUFFICES ASSUME Inv, [Next]_vars PROVE Inv'
  BY ZenonT(30)
<1>1. CASE DeletionStep
  <2>1. ASSUME NEW t \in Tasks, NEW e \in Events, Receive(t, e) PROVE Inv'
    BY ZenonT(30), <2>1, ReceiveInv
  <2>2. ASSUME NEW t \in Tasks, Contains_(t) PROVE Inv'
    BY ZenonT(30), <2>2, ContainsInv
  <2>3. ASSUME NEW t \in Tasks, Tombstoned(t) PROVE Inv'
    BY ZenonT(30), <2>3, TombstonedInv
  <2>4. ASSUME NEW t \in Tasks, NEW id \in ids[t], LookupId(t, id) PROVE Inv'
    BY ZenonT(30), <2>4, LookupIdInv
  <2>5. ASSUME NEW t \in Tasks, NEW c \in coords[t], LookupCoordinate(t, c) PROVE Inv'
    BY ZenonT(30), <2>5, LookupCoordinateInv
  <2>6. ASSUME NEW t \in Tasks, CheckVersion(t) PROVE Inv'
    BY ZenonT(30), <2>6, CheckVersionInv
  <2>7. ASSUME NEW t \in Tasks, DeleteById(t) PROVE Inv'
    BY ZenonT(30), <2>7, DeleteByIdInv
  <2>8. ASSUME NEW t \in Tasks, Bury(t) PROVE Inv'
    BY ZenonT(30), <2>8, BuryInv
  <2>9. ASSUME NEW t \in Tasks, CheckInsert(t) PROVE Inv'
    BY ZenonT(30), <2>9, CheckInsertInv
  <2>10. ASSUME NEW t \in Tasks, StoreEvent(t) PROVE Inv'
    BY ZenonT(30), <2>10, StoreEventInv
  <2>11. ASSUME NEW t \in Tasks, Publish(t) PROVE Inv'
    BY ZenonT(30), <2>11, PublishInv
  <2>12. CASE ReadShard
    BY ZenonT(30), <2>12, StutterInv DEF ReadShard
  <2> QED
    BY ZenonT(30), <1>1, <2>1, <2>2, <2>3, <2>4, <2>5, <2>6, <2>7, <2>8, <2>9, <2>10, <2>11, <2>12,
       EvictNextInv DEF DeletionStep
<1>2. CASE UNCHANGED <<store, tasks>>
  BY ZenonT(30), <1>2, StutterInv
<1>3. DeletionStep \/ UNCHANGED <<store, tasks>>
  BY ZenonT(30) DEF Next, vars, deletion
<1> QED
  BY ZenonT(30), <1>1, <1>2, <1>3

LEMMA AlwaysInv == Spec => []Inv
BY InitInv, NextInv, PTL DEF Spec

-----------------------------------------------------------------------------
(* What a request may delete. *)

\* Whatever the store does between a lookup and the removal, a deletion request only
\* deletes events that it names, of its own author (EventStore::apply_deletion).
THEOREM OnlyNamed == Spec => OnlyNamedDeleted
<1>1. ASSUME Inv, [Next]_vars, NEW e \in tombs' \ tombs
      PROVE  \E t \in Tasks : pc[t] = "bury" /\ IsDeletionRequest(ev[t]) /\ Names(ev[t], e)
  <2>1. PICK t \in Tasks : Bury(t)
    BY ZenonT(30), <1>1 DEF Next, vars, DeletionStep, Receive, Contains_, Tombstoned, LookupId,
                LookupCoordinate, CheckVersion, DeleteById, CheckInsert, StoreEvent, Publish,
                ReadShard, EvictNext, store
  <2>2. pc[t] = "bury" /\ e = target[t]
    BY ZenonT(30), <1>1, <2>1 DEF Bury
  <2> QED
    BY ZenonT(30), <1>1, <2>2 DEF Inv, WalkInv, Walking
<1>2. Inv /\ [Next]_vars =>
        (\A e \in tombs' \ tombs :
           \E t \in Tasks : pc[t] = "bury" /\ IsDeletionRequest(ev[t]) /\ Names(ev[t], e))
  BY ZenonT(30), <1>1
<1> QED
  BY <1>2, AlwaysInv, PTL DEF Spec, OnlyNamedDeleted

-----------------------------------------------------------------------------
(* What a request must delete. *)

\* No addressable event has an empty identifier: a coordinate with an empty one is
\* looked up as if it had none (coordinate_targets).
NoEmptyIdentifier == \A e \in Events : DTag(e) # ""

LEMMA AddressKey ==
    ASSUME NoEmptyIdentifier, NEW e \in Events, NEW c, Addresses(c, e)
    PROVE  ReplacementKey(e) = CoordinateKey(c)
<1>1. DTag(e) = IF c.d = "" THEN None ELSE c.d
  BY ZenonT(30) DEF NoEmptyIdentifier, Addresses
<1> QED
  BY ZenonT(30), <1>1 DEF Addresses, ReplacementKey, CoordinateKey

\* What is due of e to a request: its id, or its address, has not been looked up yet,
\* or it is the target.
Due(t, e) ==
    /\ e \in stored /\ Author[e] = Author[ev[t]]
    /\ \/ e \in ids[t]
       \/ NotNewer(e, ev[t]) /\ \E c \in coords[t] : Addresses(c, e)
       \/ pc[t] = "version" /\ e = target[t] /\ NotNewer(e, ev[t])
       \/ pc[t] = "delete" /\ e = target[t]

DueInv == \A t \in Tasks : Walking(t) => \A e \in due[t] : Due(t, e)

\* A step that leaves the locals of u alone, and takes from its due what it removes.
LEMMA OthersDue ==
    ASSUME DueInv, NEW u \in Tasks,
           UNCHANGED <<pc[u], ev[u], ids[u], coords[u], target[u]>>,
           due'[u] \subseteq due[u] \cap stored'
    PROVE  Walking(u)' => \A e \in due'[u] : Due(u, e)'
BY ZenonT(30) DEF DueInv, Due, Walking

\* The version that is looked up for a coordinate is the one that is due.
LEMMA CurrentVersion ==
    ASSUME NoEmptyIdentifier, StoreInv, NEW e \in stored, NEW c, Addresses(c, e)
    PROVE  {f \in stored : IsReplaceable(f) /\ ReplacementKey(f) = CoordinateKey(c)} = {e}
<1>1. IsReplaceable(e) /\ ReplacementKey(e) = CoordinateKey(c)
  BY ZenonT(30), AddressKey DEF StoreInv, Addresses
<1>2. ASSUME NEW f \in stored, IsReplaceable(f), ReplacementKey(f) = CoordinateKey(c)
      PROVE  f = e
  BY ZenonT(30), <1>1, <1>2 DEF StoreInv, Versions
<1> QED
  BY ZenonT(30), <1>1, <1>2

LEMMA TombstonedDue ==
    ASSUME Inv, NEW t \in Tasks, Tombstoned(t)
    PROVE  Walking(t)' => \A e \in due'[t] : Due(t, e)'
BY DEF Inv, TaskType, Tombstoned, Goto, Reply, Walking, Due, Names, NotNewer, store

LEMMA LookupIdDue ==
    ASSUME Inv, DueInv, NEW t \in Tasks, NEW id \in ids[t], LookupId(t, id)
    PROVE  \A e \in due'[t] : Due(t, e)'
<1> SUFFICES ASSUME NEW e \in due[t] PROVE Due(t, e)'
  BY ZenonT(30) DEF LookupId
<1>1. Due(t, e) /\ pc[t] = "walk"
  BY ZenonT(30) DEF DueInv, Walking, LookupId
<1>2. CASE e = id
  <2>1. id \in stored /\ Own(ev[t], Author[id])
    BY ZenonT(30), <1>1, <1>2 DEF Due, Own
  <2>2. target'[t] = id /\ pc'[t] = "delete"
    BY ZenonT(30), <2>1 DEF LookupId, Goto, Inv, TaskType
  <2> QED
    BY ZenonT(30), <1>1, <1>2, <2>2 DEF Due, LookupId, store
<1>3. CASE e # id
  BY ZenonT(30), <1>1, <1>3 DEF Due, LookupId, Inv, TaskType, NotNewer, store
<1> QED
  BY ZenonT(30), <1>2, <1>3

LEMMA LookupCoordinateDue ==
    ASSUME NoEmptyIdentifier, Inv, DueInv, NEW t \in Tasks, NEW c \in coords[t],
           LookupCoordinate(t, c)
    PROVE  \A e \in due'[t] : Due(t, e)'
<1> SUFFICES ASSUME NEW e \in due[t] PROVE Due(t, e)'
  BY ZenonT(30) DEF LookupCoordinate
<1>1. /\ pc[t] = "walk" /\ ids[t] = {}
      /\ e \in stored /\ Author[e] = Author[ev[t]] /\ NotNewer(e, ev[t])
  BY ZenonT(30) DEF DueInv, Walking, Due, LookupCoordinate
<1>2. PICK d \in coords[t] : Addresses(d, e)
  BY ZenonT(30), <1>1 DEF DueInv, Walking, Due
<1>3. /\ coords'[t] = coords[t] \ {c}
      /\ UNCHANGED <<stored, ev, ids>>
  BY ZenonT(30) DEF LookupCoordinate, Inv, TaskType, store
<1>4. CASE d = c
  <2>1. Own(ev[t], c.pubkey)
    BY ZenonT(30), <1>1, <1>2, <1>4 DEF Addresses, Own
  <2>2. {f \in stored : IsReplaceable(f) /\ ReplacementKey(f) = CoordinateKey(c)} = {e}
    BY ZenonT(30), <1>1, <1>2, <1>4, CurrentVersion DEF Inv
  <2>3. target'[t] = e /\ pc'[t] = "version"
    BY ZenonT(30), <2>1, <2>2 DEF LookupCoordinate, Goto, Inv, TaskType
  <2> QED
    BY ZenonT(30), <1>1, <1>3, <2>3 DEF Due, NotNewer
<1>5. CASE d # c
  BY ZenonT(30), <1>1, <1>2, <1>3, <1>5 DEF Due, NotNewer
<1> QED
  BY ZenonT(30), <1>4, <1>5

LEMMA CheckVersionDue ==
    ASSUME Inv, DueInv, NEW t \in Tasks, CheckVersion(t)
    PROVE  \A e \in due'[t] : Due(t, e)'
<1> SUFFICES ASSUME NEW e \in due[t] PROVE Due(t, e)'
  BY ZenonT(30) DEF CheckVersion
<1>1. Due(t, e) /\ pc[t] = "version"
  BY ZenonT(30) DEF DueInv, Walking, CheckVersion
<1>2. UNCHANGED <<stored, ev, ids, coords>>
  BY ZenonT(30) DEF CheckVersion, store
<1>3. CASE e = target[t] /\ NotNewer(e, ev[t])
  BY ZenonT(30), <1>1, <1>2, <1>3 DEF Due, CheckVersion, Goto, Inv, TaskType
<1>4. CASE ~(e = target[t] /\ NotNewer(e, ev[t]))
  BY ZenonT(30), <1>1, <1>2, <1>4 DEF Due, NotNewer
<1> QED
  BY ZenonT(30), <1>3, <1>4

LEMMA DeleteByIdDue ==
    ASSUME Inv, DueInv, NEW t \in Tasks, DeleteById(t)
    PROVE  \A e \in due'[t] : Due(t, e)'
BY ZenonT(30) DEF DueInv, Walking, Due, DeleteById, StoreBecomes, NotNewer, Inv, TaskType

LEMMA BuryDue ==
    ASSUME Inv, DueInv, NEW t \in Tasks, Bury(t)
    PROVE  \A e \in due'[t] : Due(t, e)'
BY ZenonT(30) DEF DueInv, Walking, Due, Bury, NotNewer, Inv, TaskType

\* Steps of t leave the locals of other tasks alone.
LEMMA OtherTasks ==
    ASSUME Inv, DueInv, NEW t \in Tasks, NEW u \in Tasks \ {t},
           \/ \E e \in Events : Receive(t, e)
           \/ Contains_(t) \/ Tombstoned(t)
           \/ \E id \in ids[t] : LookupId(t, id)
           \/ \E c \in coords[t] : LookupCoordinate(t, c)
           \/ CheckVersion(t) \/ DeleteById(t) \/ Bury(t)
           \/ CheckInsert(t) \/ StoreEvent(t) \/ Publish(t),
           Walking(u)
    PROVE  /\ UNCHANGED <<pc[u], ev[u], ids[u], coords[u], target[u]>>
           /\ due'[u] \subseteq due[u] \cap stored'
<1>1. UNCHANGED <<pc[u], ev[u], ids[u], coords[u], target[u]>>
  BY ZenonT(30) DEF Inv, TaskType, Receive, Contains_, Tombstoned, LookupId, LookupCoordinate,
         CheckVersion, DeleteById, Bury, CheckInsert, StoreEvent, Publish, Goto, Reply
<1>2. due[u] \subseteq stored
  BY ZenonT(30) DEF DueInv, Due
<1>3. due'[u] \subseteq due[u] \cap stored'
  BY ZenonT(30), <1>2 DEF Inv, TaskType, Receive, Contains_, Tombstoned, LookupId, LookupCoordinate,
              CheckVersion, DeleteById, Bury, CheckInsert, StoreEvent, StoreBecomes, Publish, store
<1> QED
  BY ZenonT(30), <1>1, <1>3

LEMMA NextDue == NoEmptyIdentifier /\ Inv /\ DueInv /\ [Next]_vars => DueInv'
<1> SUFFICES ASSUME NoEmptyIdentifier, Inv, DueInv, [Next]_vars, NEW u \in Tasks, Walking(u)'
             PROVE  \A e \in due'[u] : Due(u, e)'
  BY ZenonT(30) DEF DueInv
<1>1. CASE UNCHANGED <<store, tasks>>
  BY ZenonT(30), <1>1 DEF DueInv, Walking, Due, NotNewer, store, tasks
<1>2. CASE EvictNext
  <2>1. due' = [t \in Tasks |-> due[t] \cap stored'] /\ UNCHANGED <<pc, ev, ids, coords, target>>
    BY ZenonT(30), <1>2 DEF EvictNext
  <2> QED
    BY ZenonT(30), <2>1, OthersDue
<1>3. ASSUME NEW t \in Tasks,
             \/ \E e \in Events : Receive(t, e)
             \/ Contains_(t) \/ Tombstoned(t)
             \/ \E id \in ids[t] : LookupId(t, id)
             \/ \E c \in coords[t] : LookupCoordinate(t, c)
             \/ CheckVersion(t) \/ DeleteById(t) \/ Bury(t)
             \/ CheckInsert(t) \/ StoreEvent(t) \/ Publish(t)
      PROVE  \A e \in due'[u] : Due(u, e)'
  <2>1. CASE u # t
    <3>1. Walking(u)
      BY ZenonT(30), <1>3, <2>1 DEF Walking, Inv, TaskType, Receive, Contains_, Tombstoned, LookupId,
           LookupCoordinate, CheckVersion, DeleteById, Bury, CheckInsert, StoreEvent, Publish,
           Goto, Reply
    <3> QED
      BY ZenonT(30), <1>3, <2>1, <3>1, OtherTasks, OthersDue
  <2>2. CASE u = t
    <3>1. \/ Tombstoned(t)
          \/ \E id \in ids[t] : LookupId(t, id)
          \/ \E c \in coords[t] : LookupCoordinate(t, c)
          \/ CheckVersion(t) \/ DeleteById(t) \/ Bury(t)
      BY ZenonT(30), <1>3, <2>2 DEF Walking, Inv, TaskType, Receive, Contains_, CheckInsert,
         StoreEvent, Publish, Goto, Reply
    <3> QED
      BY ZenonT(30), <2>2, <3>1, TombstonedDue, LookupIdDue, LookupCoordinateDue, CheckVersionDue,
         DeleteByIdDue, BuryDue
  <2> QED
    BY ZenonT(30), <2>1, <2>2
<1> QED
  BY ZenonT(30), <1>1, <1>2, <1>3 DEF Next, DeletionStep, ReadShard, vars, deletion

\* A deletion request that has gone through its references has deleted every event
\* that it names and that stayed in the store meanwhile, whatever other requests,
\* inserts and evictions did beside it (EventStore::apply_deletion).
THEOREM NothingMissed ==
    ASSUME NoEmptyIdentifier
    PROVE  Spec => []DeletionComplete
<1>1. Init => DueInv
  BY ZenonT(30) DEF Init, DeletionInit, DueInv, Walking
<1>2. Inv /\ DueInv /\ [Next]_vars => DueInv'
  BY ZenonT(30), NextDue
<1>3. DueInv => DeletionComplete
  BY ZenonT(30) DEF DueInv, DeletionComplete, Walking, Due
<1> QED
  BY <1>1, <1>2, <1>3, AlwaysInv, PTL DEF Spec

-----------------------------------------------------------------------------
(* What the store holds. *)

\* A task that holds an event it may delete.
Targeting(t) == pc[t] \in {"version", "delete", "bury"}

\* A task that has stored its event publishes it next; the rest of TypeOK.
ShapeInv ==
    /\ tombs \subseteq Events /\ published \subseteq Events
    /\ \A t \in Tasks : /\ ev[t] = None <=> pc[t] = "idle"
                        /\ target[t] # None <=> Targeting(t)
    /\ \A e \in stored : e \in published \/ \E t \in Tasks : pc[t] = "publish" /\ ev[t] = e

\* A step of t that changes neither the store nor what was published.
LEMMA WalkShape ==
    ASSUME ShapeInv, NEW t \in Tasks, pc[t] # "publish", UNCHANGED <<store, published>>,
           \A u \in Tasks \ {t} : pc'[u] = pc[u] /\ ev'[u] = ev[u] /\ target'[u] = target[u],
           ev'[t] = None <=> pc'[t] = "idle",
           target'[t] # None <=> Targeting(t)'
    PROVE  ShapeInv'
<1>1. UNCHANGED <<stored, tombs, published>>
  BY ZenonT(30) DEF store
<1>2. \A u \in Tasks : /\ ev'[u] = None <=> pc'[u] = "idle"
                       /\ target'[u] # None <=> Targeting(u)'
  BY DEF ShapeInv, Targeting
<1>3. \A f \in stored : f \in published \/ \E u \in Tasks : pc'[u] = "publish" /\ ev'[u] = f
  <2> SUFFICES ASSUME NEW f \in stored, f \notin published
               PROVE  \E u \in Tasks : pc'[u] = "publish" /\ ev'[u] = f
    BY ZenonT(30)
  <2>1. PICK u \in Tasks : pc[u] = "publish" /\ ev[u] = f
    BY ZenonT(30) DEF ShapeInv
  <2> QED
    BY ZenonT(30), <2>1
<1> QED
  BY ZenonT(30), <1>1, <1>2, <1>3 DEF ShapeInv

LEMMA CheckInsertShape ==
    ASSUME Inv, ShapeInv, NEW t \in Tasks, CheckInsert(t)
    PROVE  ShapeInv'
<1>1. pc[t] \in {"insert", "walk"} /\ ev[t] \in Events /\ UNCHANGED <<store, published, target>>
  BY ZenonT(30) DEF CheckInsert, Inv, TaskType
<1>2. None \notin Events
  BY ZenonT(30), StoreAssumption
<1>3. /\ pc'[t] \in {"idle", "store", "publish"}
      /\ ev'[t] = None <=> pc'[t] = "idle"
      /\ \A u \in Tasks \ {t} : pc'[u] = pc[u] /\ ev'[u] = ev[u]
  BY ZenonT(30), <1>1, <1>2 DEF CheckInsert, Goto, Reply, Inv, TaskType
<1>4. target'[t] # None <=> Targeting(t)'
  BY ZenonT(30), <1>1, <1>3 DEF ShapeInv, Targeting
<1>5. pc[t] # "publish" /\ \A u \in Tasks \ {t} : target'[u] = target[u]
  BY ZenonT(30), <1>1
<1> QED
  BY ZenonT(30), <1>1, <1>3, <1>4, <1>5, WalkShape

LEMMA StoreEventShape ==
    ASSUME Inv, ShapeInv, NEW t \in Tasks, StoreEvent(t)
    PROVE  ShapeInv'
<1>0. pc[t] = "store" /\ ev[t] \in Events /\ UNCHANGED <<tombs, published, target>>
  BY ZenonT(30) DEF StoreEvent, Inv, TaskType
<1>1. CASE ~IsDuplicate(stored, ev[t])
  <2>1. stored' \subseteq stored \cup {ev[t]}
    BY ZenonT(30), <1>1 DEF StoreEvent, StoreBecomes, AfterInsert
  <2>2. pc' = [pc EXCEPT ![t] = "publish"] /\ ev' = ev
    BY ZenonT(30), <1>1 DEF StoreEvent, Goto
  <2>3. \A u \in Tasks : pc'[u] = IF u = t THEN "publish" ELSE pc[u]
    BY ZenonT(30), <2>2 DEF Inv, TaskType
  <2>4. \A u \in Tasks : /\ ev'[u] = None <=> pc'[u] = "idle"
                         /\ target'[u] # None <=> Targeting(u)'
    BY <1>0, <2>2, <2>3 DEF ShapeInv, Targeting
  <2>5. ASSUME NEW f \in stored'
        PROVE  f \in published \/ \E u \in Tasks : pc'[u] = "publish" /\ ev'[u] = f
    <3>1. CASE f = ev[t]
      BY ZenonT(30), <2>2, <2>3, <3>1
    <3>2. CASE f \in stored
      BY <2>2, <2>3, <3>2 DEF ShapeInv
    <3> QED
      BY ZenonT(30), <2>1, <3>1, <3>2
  <2> QED
    BY ZenonT(30), <1>0, <2>4, <2>5 DEF ShapeInv
<1>2. CASE IsDuplicate(stored, ev[t])
  <2>1. UNCHANGED <<store, published>> /\ UNCHANGED target /\ pc[t] # "publish"
    BY ZenonT(30), <1>0, <1>2 DEF StoreEvent, StoreBecomes, store
  <2>2. None \notin Events
    BY ZenonT(30), StoreAssumption
  <2>3. /\ pc'[t] \in {"idle", "publish"}
        /\ ev'[t] = None <=> pc'[t] = "idle"
        /\ \A u \in Tasks \ {t} : pc'[u] = pc[u] /\ ev'[u] = ev[u]
    BY ZenonT(30), <1>0, <2>2 DEF StoreEvent, Goto, Reply, Inv, TaskType
  <2>4. target'[t] # None <=> Targeting(t)'
    BY ZenonT(30), <1>0, <2>3 DEF ShapeInv, Targeting
  <2> QED
    BY ZenonT(30), <2>1, <2>3, <2>4, WalkShape
<1> QED
  BY ZenonT(30), <1>1, <1>2

LEMMA DeleteShape ==
    ASSUME Inv, ShapeInv, NEW t \in Tasks, DeleteById(t) \/ Bury(t)
    PROVE  ShapeInv'
<1>1. /\ target[t] \in Events /\ stored' \subseteq stored /\ tombs' \subseteq tombs \cup {target[t]}
      /\ UNCHANGED <<published, ev>> /\ pc[t] \in {"delete", "bury"}
  BY ZenonT(30) DEF DeleteById, StoreBecomes, Bury, Inv, WalkInv
<1>2. /\ \A u \in Tasks \ {t} : pc'[u] = pc[u] /\ target'[u] = target[u]
      /\ \/ pc'[t] = "bury" /\ target'[t] = target[t]
         \/ pc'[t] = "walk" /\ target'[t] = None
  BY ZenonT(30) DEF DeleteById, Bury, Goto, Inv, TaskType
<1>3. \A u \in Tasks : /\ ev'[u] = None <=> pc'[u] = "idle"
                       /\ target'[u] # None <=> Targeting(u)'
  BY <1>1, <1>2 DEF ShapeInv, Targeting
<1>4. \A f \in stored' : f \in published \/ \E u \in Tasks : pc'[u] = "publish" /\ ev'[u] = f
  BY <1>1, <1>2 DEF ShapeInv
<1>5. tombs' \subseteq Events
  BY ZenonT(30), <1>1 DEF ShapeInv
<1> QED
  BY ZenonT(30), <1>1, <1>3, <1>4, <1>5 DEF ShapeInv

LEMMA PublishShape ==
    ASSUME Inv, ShapeInv, NEW t \in Tasks, Publish(t)
    PROVE  ShapeInv'
<1>1. /\ ev[t] \in Events /\ published' = published \cup {ev[t]}
      /\ UNCHANGED <<stored, tombs, target>> /\ pc[t] = "publish"
  BY ZenonT(30) DEF Publish, Inv, TaskType, store
<1>2. \A u \in Tasks : /\ pc'[u] = IF u = t THEN "idle" ELSE pc[u]
                       /\ ev'[u] = IF u = t THEN None ELSE ev[u]
  BY ZenonT(30) DEF Publish, Goto, Reply, Inv, TaskType
<1>3. \A u \in Tasks : /\ ev'[u] = None <=> pc'[u] = "idle"
                       /\ target'[u] # None <=> Targeting(u)'
  BY ZenonT(30), <1>1, <1>2 DEF ShapeInv, Targeting
<1>4. \A f \in stored' : f \in published' \/ \E u \in Tasks : pc'[u] = "publish" /\ ev'[u] = f
  <2> SUFFICES ASSUME NEW f \in stored, f \notin published'
               PROVE  \E u \in Tasks : pc'[u] = "publish" /\ ev'[u] = f
    BY ZenonT(30), <1>1
  <2>1. PICK u \in Tasks : pc[u] = "publish" /\ ev[u] = f
    BY ZenonT(30), <1>1 DEF ShapeInv
  <2> QED
    BY ZenonT(30), <1>1, <1>2, <2>1
<1> QED
  BY ZenonT(30), <1>1, <1>3, <1>4 DEF ShapeInv

LEMMA TaskShape ==
    ASSUME Inv, ShapeInv, NEW t \in Tasks,
           \/ \E e \in Events : Receive(t, e)
           \/ Contains_(t) \/ Tombstoned(t)
           \/ \E id \in ids[t] : LookupId(t, id)
           \/ \E c \in coords[t] : LookupCoordinate(t, c)
           \/ CheckVersion(t)
    PROVE  ShapeInv'
<1>0. None \notin Events
  BY ZenonT(30), StoreAssumption
<1>1. /\ ev[t] = None <=> pc[t] = "idle"
      /\ target[t] # None <=> Targeting(t)
  BY ZenonT(30) DEF ShapeInv
<1> USE <1>0, <1>1 DEF Inv, TaskType, Goto, Targeting
<1>2. ASSUME NEW e \in Events, Receive(t, e) PROVE ShapeInv'
  BY ZenonT(30), <1>2, WalkShape DEF Receive
<1>3. CASE Contains_(t)
  BY ZenonT(30), <1>3, WalkShape DEF Contains_, Reply
<1>4. CASE Tombstoned(t)
  BY ZenonT(30), <1>4, WalkShape DEF Tombstoned, Reply
<1>5. ASSUME NEW id \in ids[t], LookupId(t, id) PROVE ShapeInv'
  BY <1>5, WalkShape DEF LookupId, StoreInv
<1>6. ASSUME NEW c \in coords[t], LookupCoordinate(t, c) PROVE ShapeInv'
  BY <1>6, WalkShape DEF LookupCoordinate, StoreInv
<1>7. CASE CheckVersion(t)
  BY ZenonT(30), <1>7, WalkShape DEF CheckVersion
<1> QED
  BY ZenonT(30), <1>2, <1>3, <1>4, <1>5, <1>6, <1>7

LEMMA EvictShape == ShapeInv /\ EvictNext => ShapeInv'
<1> SUFFICES ASSUME ShapeInv, EvictNext PROVE ShapeInv'
  BY ZenonT(30)
<1>1. stored' \subseteq stored /\ UNCHANGED <<tombs, published, pc, ev, target>>
  BY ZenonT(30) DEF EvictNext
<1> QED
  BY ZenonT(30), <1>1 DEF ShapeInv, Targeting

LEMMA StutterShape == ShapeInv /\ UNCHANGED <<store, tasks, published>> => ShapeInv'
<1> SUFFICES ASSUME ShapeInv, UNCHANGED <<store, tasks, published>> PROVE ShapeInv'
  BY ZenonT(30)
<1>1. UNCHANGED <<stored, tombs, published, pc, ev, target>>
  BY ZenonT(30) DEF store, tasks
<1> QED
  BY ZenonT(30), <1>1 DEF ShapeInv, Targeting

LEMMA NextShape == Inv /\ ShapeInv /\ [Next]_vars => ShapeInv'
<1> SUFFICES ASSUME Inv, ShapeInv, [Next]_vars PROVE ShapeInv'
  BY ZenonT(30)
<1>1. CASE UNCHANGED <<store, tasks, published>>
  BY ZenonT(30), <1>1, StutterShape
<1>2. CASE EvictNext
  BY ZenonT(30), <1>2, EvictShape
<1>3. ASSUME NEW t \in Tasks,
             DeleteById(t) \/ Bury(t) \/ CheckInsert(t) \/ StoreEvent(t) \/ Publish(t)
      PROVE  ShapeInv'
  BY ZenonT(30), <1>3, DeleteShape, CheckInsertShape, StoreEventShape, PublishShape
<1> QED
  BY ZenonT(30), <1>1, <1>2, <1>3, TaskShape DEF Next, DeletionStep, ReadShard, vars, deletion

LEMMA AlwaysShape == Spec => []ShapeInv
<1>1. Init => ShapeInv
  <2>1. Init => stored \in SUBSET Events
    BY ZenonT(30), DeletionAssumption DEF Init, DeletionInit
  <2> QED
    BY <2>1 DEF Init, DeletionInit, ShapeInv, Targeting
<1> QED
  BY <1>1, NextShape, AlwaysInv, PTL DEF Spec

\* A stored event was published, unless a task that holds it is about to: whichever of
\* several copies of it was stored, and whatever was deleted or evicted meanwhile
\* (process_event_message).
THEOREM Published == Spec => []StoredIsPublished
<1>1. ShapeInv => StoredIsPublished
  BY ZenonT(30) DEF ShapeInv, StoredIsPublished
<1> QED
  BY <1>1, AlwaysShape, PTL

-----------------------------------------------------------------------------
(* Sorting. *)

\* lt is a strict total order of S.
Orders(lt, S) ==
    /\ \A e \in S : <<e, e>> \notin lt
    /\ \A e, f \in S : e # f => <<e, f>> \in lt \/ <<f, e>> \in lt
    /\ \A e, f, g \in S : <<e, f>> \in lt /\ <<f, g>> \in lt => <<e, g>> \in lt

\* s lists S in the order lt, each element once.
Lists(s, S, lt) ==
    /\ s \in Seq(S) /\ Len(s) = Cardinality(S) /\ Range(s) = S
    /\ \A i, j \in 1 .. Len(s) : i < j => s[i] # s[j] /\ <<s[i], s[j]>> \in lt

\* Every element of a finite set has its own rank, and every rank has its element.
LEMMA SortedLists ==
    ASSUME NEW S, IsFiniteSet(S), NEW lt, Orders(lt, S)
    PROVE  Lists(Sorted(S, lt), S, lt)
<1> DEFINE n == Cardinality(S)
           Below(e) == {f \in S : <<f, e>> \in lt}
           R == [e \in S |-> Cardinality(Below(e)) + 1]
           s == Sorted(S, lt)
<1>1. n \in Nat
  BY ZenonT(30), FS_CardinalityType
<1>2. ASSUME NEW e \in S
      PROVE  /\ IsFiniteSet(Below(e)) /\ Cardinality(Below(e)) \in 0 .. n - 1
             /\ R[e] = Cardinality(Below(e)) + 1 /\ R[e] \in 1 .. n
  <2>1. Below(e) \in SUBSET (S \ {e})
    BY ZenonT(30) DEF Orders
  <2>2. IsFiniteSet(S \ {e}) /\ Cardinality(S \ {e}) = n - 1
    BY ZenonT(30), FS_RemoveElement
  <2>3. IsFiniteSet(Below(e)) /\ Cardinality(Below(e)) <= n - 1
    <3> HIDE DEF Below
    <3> QED
      BY <2>1, <2>2, FS_Subset
  <2>4. Cardinality(Below(e)) \in Nat
    BY ZenonT(30), <2>3, FS_CardinalityType
  <2> QED
    BY <1>1, <2>3, <2>4
<1>3. ASSUME NEW e \in S, NEW f \in S, <<f, e>> \in lt PROVE R[f] < R[e]
  <2>1. Below(f) \cup {f} \in SUBSET Below(e)
    BY ZenonT(30), <1>3 DEF Orders
  <2>2. f \notin Below(f)
    BY ZenonT(30) DEF Orders
  <2> HIDE DEF Below, R
  <2>3. Cardinality(Below(f) \cup {f}) = Cardinality(Below(f)) + 1
    BY ZenonT(30), <1>2, <2>2, FS_AddElement
  <2>4. Cardinality(Below(f) \cup {f}) <= Cardinality(Below(e))
    BY ZenonT(30), <1>2, <2>1, FS_Subset
  <2>5. /\ R[f] = Cardinality(Below(f)) + 1 /\ R[e] = Cardinality(Below(e)) + 1
        /\ Cardinality(Below(f)) \in Nat /\ Cardinality(Below(e)) \in Nat
    BY <1>2
  <2> QED
    BY <2>3, <2>4, <2>5
<1>4. ASSUME NEW e \in S, NEW f \in S, e # f PROVE R[e] # R[f]
  <2> HIDE DEF R, Below, n
  <2>1. <<e, f>> \in lt \/ <<f, e>> \in lt
    BY ZenonT(30), <1>4 DEF Orders
  <2>2. R[e] < R[f] \/ R[f] < R[e]
    BY ZenonT(30), <1>3, <2>1
  <2>3. R[e] \in 1 .. n /\ R[f] \in 1 .. n
    BY ZenonT(30), <1>2
  <2> QED
    BY <1>1, <2>2, <2>3
<1>5. R \in Injection(S, 1 .. n)
  <2>1. R \in [S -> 1 .. n]
    BY ZenonT(30), <1>2
  <2> HIDE DEF R
  <2> QED
    BY ZenonT(30), <1>4, <2>1 DEF Injection, IsInjective
<1>6. R \in Surjection(S, 1 .. n)
  <2> HIDE DEF R
  <2>1. IsFiniteSet(1 .. n) /\ Cardinality(1 .. n) = n
    BY <1>1, FS_Interval
  <2> QED
    BY ZenonT(30), <1>5, <2>1, FS_Injection
<1>7. ASSUME NEW i \in 1 .. n PROVE s[i] \in S /\ R[s[i]] = i
  <2>1. PICK e \in S : R[e] = i
    <3> HIDE DEF R
    <3> QED
      BY ZenonT(30), <1>6 DEF Surjection
  <2>2. Cardinality(Below(e)) = i - 1
    <3>1. R[e] = Cardinality(Below(e)) + 1 /\ Cardinality(Below(e)) \in Nat
      BY <1>2
    <3> HIDE DEF R, Below
    <3> QED
      BY <2>1, <3>1
  <2>3. s[i] = CHOOSE x \in S : Cardinality(Below(x)) = i - 1
    BY ZenonT(30) DEF Sorted
  <2> HIDE DEF s, Below, R
  <2>4. s[i] \in S /\ Cardinality(Below(s[i])) = i - 1
    BY ZenonT(30), <2>2, <2>3
  <2> QED
    BY <1>2, <2>4
<1>8. s \in Seq(S) /\ Len(s) = n /\ DOMAIN s = 1 .. n
  <2>1. DOMAIN s = 1 .. n /\ s = [i \in DOMAIN s |-> s[i]]
    <3> DEFINE x(i) == CHOOSE e \in S : Cardinality(Below(e)) = i - 1
    <3>1. s = [i \in 1 .. n |-> x(i)]
      BY ZenonT(30) DEF Sorted
    <3> HIDE DEF s, x, n
    <3> QED
      BY ZenonT(30), <3>1
  <2> HIDE DEF s, n, R
  <2>2. \A i \in 1 .. n : s[i] \in S
    BY ZenonT(30), <1>7
  <2>3. s \in [1 .. n -> S]
    BY ZenonT(30), <2>1, <2>2
  <2> QED
    BY <1>1, <2>1, <2>3
<1> HIDE DEF R, s
<1>9. Range(s) = S
  <2>1. ASSUME NEW e \in S PROVE e \in Range(s)
    <3>1. R[e] \in 1 .. n /\ s[R[e]] \in S /\ R[s[R[e]]] = R[e]
      BY ZenonT(30), <1>2, <1>7
    <3>2. s[R[e]] = e
      BY ZenonT(30), <1>4, <3>1
    <3> QED
      BY ZenonT(30), <1>8, <3>1, <3>2 DEF Range
  <2> QED
    BY ZenonT(30), <1>7, <1>8, <2>1 DEF Range
<1>10. ASSUME NEW i \in 1 .. n, NEW j \in 1 .. n, i < j
       PROVE  s[i] # s[j] /\ <<s[i], s[j]>> \in lt
  <2>1. s[i] \in S /\ s[j] \in S /\ R[s[i]] = i /\ R[s[j]] = j
    BY ZenonT(30), <1>7
  <2>2. s[i] # s[j]
    BY <1>1, <1>10, <2>1
  <2>3. <<s[i], s[j]>> \in lt \/ <<s[j], s[i]>> \in lt
    BY ZenonT(30), <2>1, <2>2 DEF Orders
  <2>4. <<s[j], s[i]>> \in lt => j < i
    BY ZenonT(30), <1>3, <2>1
  <2> QED
    BY <1>1, <1>10, <2>2, <2>3, <2>4
<1> QED
  BY ZenonT(30), <1>8, <1>9, <1>10 DEF Lists, s

-----------------------------------------------------------------------------
(* Induction. *)

LEMMA NatLess ==
    \E R : /\ \A x, y : <<x, y>> \in R <=> x \in Nat /\ y \in Nat /\ x < y
           /\ IsWellFoundedOn(R, Nat)
<1> DEFINE R == OpToRel(<, Nat)
<1>1. \A x, y : <<x, y>> \in R <=> x \in Nat /\ y \in Nat /\ x < y
  BY ZenonT(30) DEF OpToRel
<1>2. IsWellFoundedOn(R, Nat)
  BY ZenonT(30), NatLessThanWellFounded
<1> HIDE DEF R
<1> QED
  BY ZenonT(30), <1>1, <1>2

\* A set of natural numbers that is not empty has a least element.
LEMMA NatMin == \A T \in SUBSET Nat : T # {} => \E x \in T : \A y \in T : x <= y
<1> SUFFICES ASSUME NEW T \in SUBSET Nat, T # {} PROVE \E x \in T : \A y \in T : x <= y
  BY ZenonT(30)
<1>1. PICK R : /\ \A x, y : <<x, y>> \in R <=> x \in Nat /\ y \in Nat /\ x < y
               /\ IsWellFoundedOn(R, Nat)
  BY ZenonT(30), NatLess
<1>2. T \subseteq Nat
  BY ZenonT(30)
<1>3. \E x \in T : \A y \in T : ~ (<<y, x>> \in R)
  <2>1. IsWellFoundedOn(R, Nat)
    BY ZenonT(30), <1>1
  <2> HIDE <1>1
  <2> QED
    BY <2>1, <1>2, WFMin, Zenon
<1>4. PICK x \in T : \A y \in T : ~ (<<y, x>> \in R)
  BY ZenonT(30), <1>3
<1>5. \A y \in T : ~ (y < x)
  BY <1>1, <1>2, <1>4, Zenon
<1>6. \A y \in T : x <= y
  BY <1>2, <1>5
<1> QED
  BY ZenonT(30), <1>6

\* Induction, with a set in the place of a predicate.
LEMMA NatInd ==
    ASSUME NEW T, 0 \in T, \A n \in Nat : n \in T => n + 1 \in T
    PROVE  \A n \in Nat : n \in T
<1> DEFINE B == {n \in Nat : n \notin T}
<1> SUFFICES ASSUME B # {} PROVE FALSE
  BY ZenonT(30)
<1>1. PICK x \in B : \A y \in B : x <= y
  <2>1. B \in SUBSET Nat
    BY ZenonT(30)
  <2> HIDE DEF B
  <2> QED
    BY ZenonT(30), <2>1, NatMin
<1>2. x # 0 /\ x \in Nat
  BY ZenonT(30)
<1>3. x - 1 \in Nat /\ x - 1 \notin B
  BY <1>1, <1>2
<1>4. (x - 1) + 1 \in T
  BY ZenonT(30), <1>3
<1> QED
  BY <1>2, <1>4

-----------------------------------------------------------------------------
(* Iteration. *)

\* n steps from a, each a function of what the one before left.
Iterates(f, X, a, step, n) ==
    /\ f \in [0 .. n -> X] /\ f[0] = a
    /\ \A i \in 1 .. n : f[i] = step[i][f[i - 1]]

LEMMA Iterated ==
    ASSUME NEW X, NEW a \in X, NEW n \in Nat, NEW step \in [1 .. n -> [X -> X]]
    PROVE  \E f : Iterates(f, X, a, step, n)
<1> DEFINE Runs(f, m) == /\ f \in [0 .. m -> X] /\ f[0] = a
                         /\ \A i \in 1 .. m : f[i] = step[i][f[i - 1]]
           T == {m \in Nat : m <= n => \E f : Runs(f, m)}
<1>1. 0 \in T
  <2> DEFINE f == [i \in 0 .. 0 |-> a]
  <2>1. Runs(f, 0)
    OBVIOUS
  <2> QED
    BY ZenonT(30), <2>1
<1>2. ASSUME NEW m \in Nat, m \in T PROVE m + 1 \in T
  <2> SUFFICES ASSUME m + 1 <= n PROVE \E f : Runs(f, m + 1)
    OBVIOUS
  <2>1. PICK f : Runs(f, m)
    BY <1>2
  <2> DEFINE x == step[m + 1][f[m]]
             g == [i \in 0 .. m + 1 |-> IF i <= m THEN f[i] ELSE x]
  <2>2. f[m] \in X /\ x \in X
    BY <2>1
  <2> HIDE DEF x
  <2>3. \A i \in 0 .. m : i \in 0 .. m + 1 /\ g[i] = f[i] /\ f[i] \in X
    BY <2>1
  <2>4. g[m + 1] = x
    OBVIOUS
  <2>5. g \in [0 .. m + 1 -> X]
    BY <2>1, <2>2
  <2> HIDE DEF g
  <2>6. ASSUME NEW i \in 1 .. m + 1 PROVE g[i] = step[i][g[i - 1]]
    <3>1. CASE i = m + 1
      BY <2>3, <2>4, <3>1 DEF x
    <3>2. CASE i # m + 1
      BY <2>1, <2>3, <3>2
    <3> QED
      BY ZenonT(30), <3>1, <3>2
  <2>7. g[0] = a
    BY <2>1, <2>3
  <2> QED
    BY ZenonT(30), <2>5, <2>6, <2>7
<1>3. \A m \in Nat : m \in T
  <2> HIDE DEF T
  <2> QED
    BY ZenonT(30), <1>1, <1>2, NatInd
<1>4. PICK f : Runs(f, n)
  BY <1>3
<1> QED
  BY ZenonT(30), <1>4 DEF Iterates

-----------------------------------------------------------------------------
(* The lists the queries copy. *)

\* s lists S newest first, each event once.
Newest(s, S) ==
    /\ s \in Seq(S) /\ Len(s) = Cardinality(S) /\ Range(s) = S
    /\ \A i, j \in 1 .. Len(s) : i < j => s[i] # s[j] /\ Before(s[i], s[j])

\* EventRef::cmp is a total order.
LEMMA BeforeOrders ==
    ASSUME NEW S \in SUBSET Events
    PROVE  Orders({p \in S \X S : Before(p[1], p[2])}, S)
<1> DEFINE lt == {p \in S \X S : Before(p[1], p[2])}
<1>1. \A e, f \in S : <<e, f>> \in lt <=> Before(e, f)
  BY ZenonT(30)
<1>2. \A e \in S : e \in Nat /\ CreatedAt[e] \in Nat
  BY ZenonT(30), StoreAssumption
<1> HIDE DEF lt
<1>3. \A e \in S : ~Before(e, e)
  BY <1>2 DEF Before
<1>4. \A e, f \in S : e # f => Before(e, f) \/ Before(f, e)
  BY <1>2 DEF Before
<1>5. \A e, f, g \in S : Before(e, f) /\ Before(f, g) => Before(e, g)
  BY <1>2 DEF Before
<1>6. Orders(lt, S)
  BY ZenonT(30), <1>1, <1>3, <1>4, <1>5 DEF Orders
<1> QED
  BY ZenonT(30), <1>6 DEF lt

LEMMA EventsFinite ==
    ASSUME NEW S \in SUBSET Events
    PROVE  /\ IsFiniteSet(S) /\ Cardinality(S) \in Nat /\ Cardinality(Events) \in Nat
           /\ Cardinality(S) <= Cardinality(Events)
           /\ Cardinality(S) = Cardinality(Events) => S = Events
<1>1. IsFiniteSet(Events)
  BY ZenonT(30), StoreAssumption
<1> QED
  BY ZenonT(30), <1>1, FS_Subset, FS_CardinalityType

LEMMA NewestFirstLists ==
    ASSUME NEW S \in SUBSET Events
    PROVE  Newest(NewestFirst(S), S)
<1> DEFINE lt == {p \in S \X S : Before(p[1], p[2])}
           s == NewestFirst(S)
<1>1. Lists(s, S, lt)
  <2>1. s = Sorted(S, lt)
    BY ZenonT(30) DEF NewestFirst
  <2>2. Orders(lt, S)
    BY ZenonT(30), BeforeOrders
  <2> HIDE DEF lt, s
  <2> QED
    BY ZenonT(30), <2>1, <2>2, EventsFinite, SortedLists
<1>2. \A e, f : <<e, f>> \in lt => Before(e, f)
  BY ZenonT(30)
<1> HIDE DEF lt, s
<1>3. Newest(s, S)
  BY ZenonT(30), <1>1, <1>2 DEF Newest, Lists
<1> QED
  BY ZenonT(30), <1>3 DEF s

\* What At gives: the values at the indices I, in their order.
LEMMA AtValues ==
    ASSUME NEW X, NEW s \in Seq(X), NEW I \in SUBSET (1 .. Len(s))
    PROVE  \E at \in Seq(I) :
             /\ Len(at) = Cardinality(I) /\ Range(at) = I /\ Cardinality(I) \in Nat
             /\ \A i, j \in 1 .. Len(at) : i < j => at[i] < at[j]
             /\ At(s, I) \in Seq(X) /\ Len(At(s, I)) = Len(at)
             /\ \A k \in 1 .. Len(at) : At(s, I)[k] = s[at[k]] /\ at[k] \in I
<1> DEFINE lt == {p \in I \X I : p[1] < p[2]}
           at == Sorted(I, lt)
           v == At(s, I)
<1>1. IsFiniteSet(I) /\ Cardinality(I) \in Nat
  <2>1. IsFiniteSet(1 .. Len(s))
    BY FS_Interval
  <2> QED
    BY ZenonT(30), <2>1, FS_Subset, FS_CardinalityType
<1>2. \A i, j : <<i, j>> \in lt <=> i \in I /\ j \in I /\ i < j
  BY ZenonT(30)
<1>3. Orders(lt, I)
  <2> HIDE DEF lt
  <2> QED
    BY <1>2 DEF Orders
<1>4. v = [k \in 1 .. Cardinality(I) |-> s[at[k]]]
  BY ZenonT(30) DEF At
<1> HIDE DEF at, v, lt
<1>5. Lists(at, I, lt)
  BY ZenonT(30), <1>1, <1>3, SortedLists DEF at
<1>6. ASSUME NEW k \in 1 .. Cardinality(I) PROVE at[k] \in I /\ s[at[k]] \in X
  <2>1. at \in Seq(I) /\ Len(at) = Cardinality(I)
    BY ZenonT(30), <1>5 DEF Lists
  <2>2. at[k] \in I
    BY <2>1
  <2>3. at[k] \in 1 .. Len(s)
    BY ZenonT(30), <2>2
  <2> QED
    BY <2>2, <2>3
<1>7. v \in Seq(X) /\ Len(v) = Cardinality(I) /\ DOMAIN v = 1 .. Cardinality(I)
  BY <1>1, <1>4, <1>6
<1>8. \A k \in 1 .. Cardinality(I) : v[k] = s[at[k]]
  BY ZenonT(30), <1>4
<1>9. \A i, j \in 1 .. Len(at) : i < j => at[i] < at[j]
  BY ZenonT(30), <1>2, <1>5 DEF Lists
<1> QED
  BY ZenonT(30), <1>1, <1>5, <1>6, <1>7, <1>8, <1>9 DEF Lists, v

\* All the indices: the list itself.
LEMMA AtAll ==
    ASSUME NEW X, NEW s \in Seq(X)
    PROVE  At(s, DOMAIN s) = s
<1> DEFINE n == Len(s)
           lt == {p \in (1 .. n) \X (1 .. n) : p[1] < p[2]}
           at == Sorted(1 .. n, lt)
<1>0. n \in Nat /\ DOMAIN s = 1 .. n
  OBVIOUS
<1>1. n \in Nat /\ DOMAIN s = 1 .. n /\ Cardinality(1 .. n) = n
  <2> HIDE DEF n
  <2> QED
    BY <1>0, FS_Interval
<1>2. ASSUME NEW k \in 1 .. n PROVE at[k] = k
  <2>1. ASSUME NEW e \in 1 .. n PROVE Cardinality({f \in 1 .. n : <<f, e>> \in lt}) = e - 1
    <3>1. {f \in 1 .. n : <<f, e>> \in lt} = 1 .. e - 1
      BY <1>1
    <3>2. Cardinality(1 .. e - 1) = e - 1
      BY <1>1, FS_Interval
    <3> QED
      BY ZenonT(30), <3>1, <3>2
  <2>2. at[k] = CHOOSE e \in 1 .. n : Cardinality({f \in 1 .. n : <<f, e>> \in lt}) = k - 1
    BY ZenonT(30), <1>1 DEF Sorted
  <2> HIDE DEF lt, at
  <2>3. \E e \in 1 .. n : Cardinality({f \in 1 .. n : <<f, e>> \in lt}) = k - 1
    BY ZenonT(30), <2>1
  <2>4. at[k] \in 1 .. n /\ Cardinality({f \in 1 .. n : <<f, at[k]>> \in lt}) = k - 1
    BY ZenonT(30), <2>2, <2>3
  <2>5. at[k] - 1 = k - 1
    BY ZenonT(30), <2>1, <2>4
  <2> QED
    BY <1>1, <2>4, <2>5
<1>3. At(s, DOMAIN s) = [k \in 1 .. n |-> s[at[k]]]
  BY ZenonT(30), <1>1 DEF At
<1> HIDE DEF at, lt
<1>4. At(s, DOMAIN s) = [k \in 1 .. n |-> s[k]]
  BY ZenonT(30), <1>2, <1>3
<1> QED
  BY <1>1, <1>4

LEMMA TakeValues ==
    ASSUME NEW X, NEW s \in Seq(X), NEW n \in Nat
    PROVE  /\ Take(s, n) \in Seq(X) /\ Len(Take(s, n)) <= n /\ Len(Take(s, n)) <= Len(s)
           /\ \A i \in 1 .. Len(Take(s, n)) : Take(s, n)[i] = s[i]
           /\ Range(Take(s, n)) \subseteq Range(s)
           /\ Len(s) <= n => Take(s, n) = s
           /\ Take(Take(s, n), n) = Take(s, n)
<1> DEFINE t == Take(s, n)
           m == IF n < Len(s) THEN n ELSE Len(s)
<1>1. m \in 0 .. Len(s) /\ m <= n
  OBVIOUS
<1>2. t = SubSeq(s, 1, m)
  BY ZenonT(30) DEF Take
<1>3. t \in Seq(X) /\ Len(t) = m /\ \A i \in 1 .. m : t[i] = s[i]
  <2> HIDE DEF m
  <2> QED
    BY <1>1, <1>2
<1>4. Len(s) <= n => t = s
  BY <1>3
<1>5. Range(t) \subseteq Range(s)
  <2> HIDE DEF t, m
  <2> QED
    BY <1>1, <1>3 DEF Range
<1>6. Take(t, n) = t
  <2> HIDE DEF t
  <2>1. ~(n < Len(t))
    BY <1>1, <1>3
  <2>2. Take(t, n) = SubSeq(t, 1, Len(t))
    BY ZenonT(30), <2>1 DEF Take
  <2> QED
    BY <1>3, <2>2
<1> HIDE DEF t, m
<1> QED
  BY <1>1, <1>3, <1>4, <1>5, <1>6 DEF t

-----------------------------------------------------------------------------
(* The merge of the shards. *)

Heaps == [kept : SUBSET Events, done : BOOLEAN]

\* h[i] is the heap after the first i events of a shard.
Fills(h, kept, order, n, side) ==
    /\ h \in [0 .. Len(order) -> Heaps]
    /\ h[0] = [kept |-> kept, done |-> FALSE]
    /\ \A i \in 1 .. Len(order) : h[i] = Offer(h[i - 1], order[i], n, side)

\* The top of a heap that is not empty: its newest event, on either side.
LEMMA PeekNewest ==
    ASSUME NEW K \in SUBSET Events, K # {}
    PROVE  /\ Peek(K) \in K
           /\ \A f \in K : CreatedAt[f] <= CreatedAt[Peek(K)]
<1> DEFINE s == NewestFirst(K)
<1>1. Newest(s, K)
  BY ZenonT(30), NewestFirstLists
<1> HIDE DEF s
<1>2. Len(s) \in Nat /\ Len(s) # 0
  BY <1>1 DEF Newest, Range
<1>3. s[1] \in K
  BY <1>1, <1>2 DEF Newest
<1>4. ASSUME NEW f \in K \ {s[1]} PROVE Before(s[1], f)
  <2>1. PICK j \in 1 .. Len(s) : s[j] = f
    BY <1>1 DEF Newest, Range
  <2>2. 1 < j /\ 1 \in 1 .. Len(s)
    BY <1>2, <2>1
  <2> QED
    BY ZenonT(30), <1>1, <2>1, <2>2 DEF Newest
<1>5. Peek(K) \in K /\ \A f \in K \ {Peek(K)} : Before(Peek(K), f)
  BY ZenonT(30), <1>3, <1>4 DEF Peek
<1>6. \A e \in K : CreatedAt[e] \in Nat
  BY ZenonT(30), StoreAssumption
<1> QED
  BY <1>5, <1>6 DEF Before

LEMMA OfferType ==
    ASSUME NEW heap \in Heaps, NEW e \in Events, NEW n, NEW side
    PROVE  Offer(heap, e, n, side) \in Heaps
BY ZenonT(30) DEF Offer, Heaps

LEMMA OfferRoom ==
    ASSUME NEW heap \in Heaps, NEW e, NEW n, NEW side, ~heap.done, Cardinality(heap.kept) < n
    PROVE  /\ Offer(heap, e, n, side).kept = heap.kept \cup {e}
           /\ ~Offer(heap, e, n, side).done
<1>1. Offer(heap, e, n, side) = [heap EXCEPT !.kept = heap.kept \cup {e}]
  BY ZenonT(30) DEF Offer
<1> QED
  BY ZenonT(30), <1>1 DEF Heaps

LEMMA MergeFills ==
    ASSUME NEW kept \in SUBSET Events, NEW order \in Seq(Events), NEW n, NEW side
    PROVE  \E h : /\ Fills(h, kept, order, n, side)
                  /\ Merge(kept, order, n, side) = h[Len(order)].kept
<1> DEFINE N == Len(order)
           a == [kept |-> kept, done |-> FALSE]
           Entry(f, i) == IF i = 0 THEN a ELSE Offer(f[i - 1], order[i], n, side)
           step == [i \in 1 .. N |-> [x \in Heaps |-> Offer(x, order[i], n, side)]]
           h == CHOOSE f : f = [i \in 0 .. N |-> Entry(f, i)]
<1>0. Merge(kept, order, n, side) = h[N].kept
  BY ZenonT(30) DEF Merge
<1>1. N \in Nat /\ a \in Heaps
  BY DEF Heaps
<1>2. step \in [1 .. N -> [Heaps -> Heaps]]
  <2>1. \A i \in 1 .. N : order[i] \in Events
    OBVIOUS
  <2> HIDE DEF N
  <2> QED
    BY ZenonT(30), <2>1, OfferType
<1>20. PICK f : Iterates(f, Heaps, a, step, N)
  <2> HIDE DEF N, a, step
  <2> QED
    BY ZenonT(30), <1>1, <1>2, Iterated
<1>3. /\ f \in [0 .. N -> Heaps] /\ f[0] = a
      /\ \A i \in 1 .. N : f[i] = step[i][f[i - 1]]
  BY ZenonT(30), <1>20 DEF Iterates
<1>4. \A i \in 1 .. N : f[i] = Offer(f[i - 1], order[i], n, side)
  <2> HIDE DEF N
  <2>1. \A i \in 1 .. N : f[i - 1] \in Heaps
    BY <1>1, <1>3
  <2> QED
    BY ZenonT(30), <1>3, <2>1
<1>5. f = [i \in 0 .. N |-> Entry(f, i)]
  <2>1. ASSUME NEW i \in 0 .. N PROVE f[i] = Entry(f, i)
    <3> HIDE DEF a, N
    <3>1. CASE i = 0
      BY ZenonT(30), <1>3, <3>1
    <3>2. CASE i # 0
      <4>1. i \in 1 .. N
        BY <1>1, <3>2
      <4> QED
        BY ZenonT(30), <1>4, <3>2, <4>1
    <3> QED
      BY ZenonT(30), <3>1, <3>2
  <2> HIDE DEF Entry, N
  <2> QED
    BY ZenonT(30), <1>3, <2>1
<1>6. h = [i \in 0 .. N |-> Entry(h, i)]
  <2> HIDE DEF Entry, N
  <2> QED
    BY ZenonT(30), <1>5
<1>7. h[0] = a /\ \A i \in 1 .. N : h[i] = Offer(h[i - 1], order[i], n, side)
  <2>1. \A i \in 0 .. N : h[i] = Entry(h, i)
    <3> HIDE DEF h, Entry, N
    <3> QED
      BY ZenonT(30), <1>6
  <2> HIDE DEF h, a, N
  <2> QED
    BY <1>1, <2>1
<1> HIDE DEF h, step
<1>8. \A i \in 0 .. N : h[i] = f[i]
  <2> DEFINE T == {i \in Nat : i <= N => h[i] = f[i]}
  <2> HIDE DEF N, a
  <2>1. 0 \in T
    BY ZenonT(30), <1>3, <1>7
  <2>2. ASSUME NEW i \in Nat, i \in T PROVE i + 1 \in T
    <3> SUFFICES ASSUME i + 1 <= N PROVE h[i + 1] = f[i + 1]
      OBVIOUS
    <3>1. i + 1 \in 1 .. N /\ (i + 1) - 1 = i /\ i <= N
      BY <1>1
    <3>2. h[i + 1] = Offer(h[i], order[i + 1], n, side)
      BY ZenonT(30), <1>7, <3>1
    <3>3. f[i + 1] = Offer(f[i], order[i + 1], n, side)
      BY ZenonT(30), <1>4, <3>1
    <3>4. h[i] = f[i]
      BY ZenonT(30), <2>2, <3>1
    <3> QED
      BY ZenonT(30), <3>2, <3>3, <3>4
  <2>3. \A i \in Nat : i \in T
    <3> HIDE DEF T
    <3> QED
      BY ZenonT(30), <2>1, <2>2, NatInd
  <2> QED
    BY <1>1, <2>3
<1>9. h \in [0 .. N -> Heaps]
  <2>1. h = [i \in 0 .. N |-> h[i]]
    <3> HIDE DEF Entry, N
    <3> QED
      BY ZenonT(30), <1>6
  <2> HIDE DEF N
  <2> QED
    BY ZenonT(30), <1>3, <1>8, <2>1
<1> QED
  BY ZenonT(30), <1>0, <1>7, <1>9 DEF Fills

\* A merge brings in events of the shard only.
LEMMA MergeSubset ==
    ASSUME NEW kept \in SUBSET Events, NEW order \in Seq(Events), NEW n, NEW side
    PROVE  Merge(kept, order, n, side) \in SUBSET (kept \cup Range(order))
<1> DEFINE N == Len(order)
           U == kept \cup Range(order)
<1>1. PICK h : Fills(h, kept, order, n, side) /\ Merge(kept, order, n, side) = h[N].kept
  BY ZenonT(30), MergeFills
<1>2. N \in Nat /\ \A i \in 1 .. N : order[i] \in U
  BY DEF Range
<1> DEFINE T == {i \in Nat : i <= N => h[i].kept \subseteq U}
<1> HIDE DEF N, U
<1>3. h[0].kept = kept /\ \A i \in 1 .. N : h[i] = Offer(h[i - 1], order[i], n, side) /\ h[i - 1] \in Heaps
  BY <1>1, <1>2 DEF Fills, N
<1>4. 0 \in T
  BY ZenonT(30), <1>3 DEF U
<1>5. ASSUME NEW i \in Nat, i \in T PROVE i + 1 \in T
  <2> SUFFICES ASSUME i + 1 <= N PROVE h[i + 1].kept \subseteq U
    OBVIOUS
  <2>1. i + 1 \in 1 .. N /\ (i + 1) - 1 = i /\ i <= N
    BY <1>2
  <2>2. h[i + 1] = Offer(h[i], order[i + 1], n, side) /\ h[i] \in Heaps
    BY ZenonT(30), <1>3, <2>1
  <2>3. h[i].kept \subseteq U /\ order[i + 1] \in U
    BY ZenonT(30), <1>2, <1>5, <2>1
  <2>4. \/ h[i + 1].kept = h[i].kept
        \/ h[i + 1].kept = h[i].kept \cup {order[i + 1]}
        \/ h[i + 1].kept = (h[i].kept \ {Peek(h[i].kept)}) \cup {order[i + 1]}
    BY ZenonT(30), <2>2 DEF Offer, Heaps
  <2> QED
    BY ZenonT(30), <2>3, <2>4
<1>6. \A i \in Nat : i \in T
  <2> HIDE DEF T
  <2> QED
    BY ZenonT(30), <1>4, <1>5, NatInd
<1> QED
  BY <1>1, <1>2, <1>6 DEF U

\* The events of order up to the i-th.
Upto(order, i) == {order[j] : j \in 1 .. i}

LEMMA UptoNext ==
    ASSUME NEW order \in Seq(Events), NEW i \in Nat, i + 1 <= Len(order)
    PROVE  /\ Upto(order, i + 1) = Upto(order, i) \cup {order[i + 1]}
           /\ Upto(order, i) \subseteq Events /\ order[i + 1] \in Events
           /\ Upto(order, 0) = {} /\ Upto(order, Len(order)) = Range(order)
<1>1. 1 .. i + 1 = (1 .. i) \cup {i + 1} /\ 1 .. 0 = {} /\ 1 .. Len(order) = DOMAIN order
  OBVIOUS
<1>2. \A j \in 1 .. i + 1 : order[j] \in Events
  OBVIOUS
<1> QED
  BY ZenonT(30), <1>1, <1>2 DEF Upto, Range

\* A shard that has none of the events kept so far, each of its own once.
Fresh(order, kept) ==
    /\ Range(order) \cap kept = {}
    /\ \A i, j \in 1 .. Len(order) : i < j => order[i] # order[j]

LEMMA FreshNext ==
    ASSUME NEW order \in Seq(Events), NEW kept, Fresh(order, kept),
           NEW i \in Nat, i + 1 <= Len(order)
    PROVE  order[i + 1] \notin kept \cup Upto(order, i)
<1>1. i + 1 \in 1 .. Len(order) /\ \A j \in 1 .. i : j \in 1 .. Len(order) /\ j < i + 1
  OBVIOUS
<1>2. order[i + 1] \in Range(order)
  BY <1>1 DEF Range
<1> QED
  BY ZenonT(30), <1>1, <1>2 DEF Fresh, Upto

\* A heap with room for every event there is keeps the shard whole.
LEMMA MergeWhole ==
    ASSUME NEW kept \in SUBSET Events, NEW order \in Seq(Events), NEW n \in Nat, NEW side,
           n >= Cardinality(Events), Fresh(order, kept)
    PROVE  Merge(kept, order, n, side) = kept \cup Range(order)
<1> DEFINE N == Len(order)
<1>1. PICK h : Fills(h, kept, order, n, side) /\ Merge(kept, order, n, side) = h[N].kept
  BY MergeFills
<1> DEFINE T == {i \in Nat : i <= N => h[i].kept = kept \cup Upto(order, i) /\ ~h[i].done}
<1>2. N \in Nat
  OBVIOUS
<1>3. Upto(order, 0) = {} /\ Upto(order, N) = Range(order)
  BY DEF Upto, Range
<1> HIDE DEF N
<1>4. /\ h[0].kept = kept /\ ~h[0].done
      /\ \A i \in 1 .. N : h[i] = Offer(h[i - 1], order[i], n, side)
      /\ \A i \in 0 .. N : h[i] \in Heaps
  BY <1>1 DEF Fills, N
<1>5. 0 \in T
  BY ZenonT(30), <1>2, <1>3, <1>4
<1>6. ASSUME NEW i \in Nat, i \in T PROVE i + 1 \in T
  <2> SUFFICES ASSUME i + 1 <= N
               PROVE  h[i + 1].kept = kept \cup Upto(order, i + 1) /\ ~h[i + 1].done
    OBVIOUS
  <2> DEFINE K == kept \cup Upto(order, i)
             e == order[i + 1]
  <2>1. i + 1 \in 1 .. N /\ (i + 1) - 1 = i /\ i \in 0 .. N
    BY <1>2
  <2>2. h[i + 1] = Offer(h[i], e, n, side) /\ h[i].kept = K /\ ~h[i].done /\ h[i] \in Heaps
    BY <1>4, <1>6, <2>1
  <2>3. e \notin K
    BY ZenonT(30), FreshNext DEF N
  <2>4. K \in SUBSET Events /\ e \in Events /\ kept \cup Upto(order, i + 1) = K \cup {e}
    BY ZenonT(30), UptoNext DEF N
  <2> HIDE DEF K, e
  <2>5. Cardinality(K) < n
    BY <2>3, <2>4, EventsFinite
  <2>6. h[i + 1].kept = K \cup {e} /\ ~h[i + 1].done
    BY <2>2, <2>5, OfferRoom
  <2> QED
    BY ZenonT(30), <2>4, <2>6
<1>7. \A i \in Nat : i \in T
  <2> HIDE DEF T
  <2> QED
    BY ZenonT(30), <1>5, <1>6, NatInd
<1>8. h[N].kept = kept \cup Upto(order, N)
  BY <1>2, <1>7
<1> QED
  BY ZenonT(30), <1>1, <1>3, <1>8

LEMMA ReverseValues ==
    ASSUME NEW X, NEW s \in Seq(X)
    PROVE  /\ Reverse(s) \in Seq(X) /\ Len(Reverse(s)) = Len(s)
           /\ \A i \in 1 .. Len(s) : Reverse(s)[i] = s[(Len(s) - i) + 1]
           /\ Range(Reverse(s)) = Range(s)
<1> DEFINE n == Len(s)
           r == Reverse(s)
<1>1. n \in Nat /\ DOMAIN s = 1 .. n /\ \A i \in 1 .. n : s[i] \in X /\ (n - i) + 1 \in 1 .. n
  OBVIOUS
<1>2. r = [i \in 1 .. n |-> s[(n - i) + 1]]
  BY ZenonT(30) DEF Reverse
<1> HIDE DEF n, r
<1>3. r \in Seq(X) /\ Len(r) = n /\ DOMAIN r = 1 .. n /\ \A i \in 1 .. n : r[i] = s[(n - i) + 1]
  BY <1>1, <1>2
<1>4. ASSUME NEW i \in 1 .. n PROVE s[i] \in Range(r)
  <2>1. (n - i) + 1 \in 1 .. n /\ (n - ((n - i) + 1)) + 1 = i
    BY <1>1
  <2>2. r[(n - i) + 1] = s[i]
    BY ZenonT(30), <1>3, <2>1
  <2> QED
    BY ZenonT(30), <1>3, <2>1, <2>2 DEF Range
<1>5. Range(r) = Range(s)
  <2>1. ASSUME NEW i \in 1 .. n PROVE r[i] \in Range(s)
    BY ZenonT(30), <1>1, <1>3 DEF Range
  <2> QED
    BY ZenonT(30), <1>1, <1>3, <1>4, <2>1 DEF Range
<1> QED
  BY ZenonT(30), <1>3, <1>5 DEF n, r

\* K holds the oldest of Q, n of them if there are so many.
Oldest(K, Q, n) ==
    /\ K \subseteq Q /\ Cardinality(K) <= n
    /\ K # Q => Cardinality(K) = n
    /\ \A e \in K, f \in Q \ K : CreatedAt[e] <= CreatedAt[f]

\* The heap is full and e does not belong into it.
Full(heap, e, n) ==
    Cardinality(heap.kept) = n /\ \A f \in heap.kept : CreatedAt[f] <= CreatedAt[e]

LEMMA OfferOldest ==
    ASSUME NEW heap \in Heaps, NEW Q \in SUBSET Events, NEW e \in Events, e \notin Q,
           NEW n \in Nat \ {0}, Oldest(heap.kept, Q, n), heap.done => Full(heap, e, n)
    PROVE  LET after == Offer(heap, e, n, "oldest")
           IN  /\ Oldest(after.kept, Q \cup {e}, n)
               /\ after.done => Full(after, e, n)
<1> DEFINE K == heap.kept
           after == Offer(heap, e, n, "oldest")
           top == Peek(K)
<1>1. K \in SUBSET Events /\ K \subseteq Q /\ e \notin K
  BY ZenonT(30) DEF Oldest, Heaps
<1>2. IsFiniteSet(K) /\ Cardinality(K) \in Nat /\ Cardinality(K) <= n
  BY ZenonT(30), <1>1, EventsFinite DEF Oldest
<1>3. \A f \in Q \cup {e} : CreatedAt[f] \in Nat
  BY ZenonT(30), StoreAssumption
<1>4. CASE heap.done
  <2>1. after = heap
    BY ZenonT(30), <1>4 DEF Offer
  <2>2. Full(heap, e, n)
    BY ZenonT(30), <1>4
  <2>3. Oldest(K, Q \cup {e}, n)
    <3> HIDE DEF K
    <3> QED
      BY ZenonT(30), <1>1, <2>2 DEF Oldest, Full, K
  <2> QED
    BY ZenonT(30), <2>1, <2>2, <2>3
<1>5. CASE ~heap.done /\ Cardinality(K) < n
  <2>1. after.kept = K \cup {e} /\ ~after.done
    BY ZenonT(30), <1>5, OfferRoom
  <2>2. K = Q
    BY <1>2, <1>5 DEF Oldest
  <2>3. Cardinality(K \cup {e}) = Cardinality(K) + 1
    <3> HIDE DEF K
    <3> QED
      BY ZenonT(30), <1>1, <1>2, FS_AddElement
  <2>4. Cardinality(K \cup {e}) <= n
    BY <1>2, <1>5, <2>3
  <2> HIDE DEF K, after
  <2>5. Oldest(K \cup {e}, Q \cup {e}, n)
    BY ZenonT(30), <2>2, <2>4 DEF Oldest
  <2> QED
    BY ZenonT(30), <2>1, <2>5 DEF after
<1>6. CASE ~heap.done /\ ~(Cardinality(K) < n)
  <2>1. Cardinality(K) = n
    BY <1>2, <1>6
  <2>2. K # {}
    BY ZenonT(30), <2>1, FS_EmptySet
  <2>3. top \in K /\ \A f \in K : CreatedAt[f] <= CreatedAt[top]
    BY ZenonT(30), <1>1, <2>2, PeekNewest
  <2>4. CASE CreatedAt[e] < CreatedAt[top]
    <3>1. after.kept = (K \ {top}) \cup {e} /\ ~after.done
      <4>1. after = [heap EXCEPT !.kept = (heap.kept \ {Peek(heap.kept)}) \cup {e}]
        BY ZenonT(30), <1>6, <2>4 DEF Offer, Beats
      <4> QED
        BY ZenonT(30), <1>6, <4>1 DEF Heaps
    <3> HIDE DEF K, top, after
    <3>2. IsFiniteSet(K \ {top}) /\ Cardinality(K \ {top}) = n - 1
      BY ZenonT(30), <1>2, <2>1, <2>3, FS_RemoveElement
    <3>3. Cardinality((K \ {top}) \cup {e}) = (n - 1) + 1
      BY ZenonT(30), <1>1, <3>2, FS_AddElement
    <3>4. \A f \in Q \ K : CreatedAt[top] <= CreatedAt[f]
      BY ZenonT(30), <2>3 DEF Oldest, K
    <3>5. ASSUME NEW g \in (K \ {top}) \cup {e},
                 NEW f \in (Q \cup {e}) \ ((K \ {top}) \cup {e})
          PROVE  CreatedAt[g] <= CreatedAt[f]
      <4>1. g \in Q \cup {e} /\ top \in Q /\ CreatedAt[g] <= CreatedAt[top]
        BY <1>1, <1>3, <2>3, <2>4
      <4>2. f = top \/ f \in Q \ K
        BY ZenonT(30)
      <4>3. CreatedAt[top] <= CreatedAt[f]
        BY <1>3, <3>4, <4>1, <4>2
      <4> QED
        BY <1>3, <4>1, <4>3
    <3>6. Oldest((K \ {top}) \cup {e}, Q \cup {e}, n)
      <4>1. (K \ {top}) \cup {e} \subseteq Q \cup {e}
        BY ZenonT(30), <1>1
      <4> QED
        BY <3>3, <3>5, <4>1 DEF Oldest
    <3> QED
      BY ZenonT(30), <3>1, <3>6 DEF after
  <2>5. CASE ~(CreatedAt[e] < CreatedAt[top])
    <3>1. after.kept = K /\ after.done
      <4>1. after = [heap EXCEPT !.done = TRUE]
        BY ZenonT(30), <1>6, <2>5 DEF Offer, Beats
      <4> QED
        BY ZenonT(30), <4>1 DEF Heaps
    <3> HIDE DEF K, top, after
    <3>2. \A f \in K : CreatedAt[f] <= CreatedAt[e]
      BY <1>1, <1>3, <2>3, <2>5
    <3>3. Oldest(K, Q \cup {e}, n)
      BY ZenonT(30), <1>1, <2>1, <3>2 DEF Oldest, K
    <3> QED
      BY ZenonT(30), <2>1, <3>1, <3>2, <3>3 DEF Full, after
  <2> QED
    BY ZenonT(30), <2>4, <2>5
<1> QED
  BY ZenonT(30), <1>4, <1>5, <1>6

\* One shard, oldest first.
LEMMA MergeKeepsOldest ==
    ASSUME NEW Q \in SUBSET Events, NEW kept \in SUBSET Q, NEW order \in Seq(Events),
           NEW n \in Nat \ {0}, Fresh(order, Q), Oldest(kept, Q, n),
           \A i, j \in 1 .. Len(order) : i < j => CreatedAt[order[i]] <= CreatedAt[order[j]]
    PROVE  Oldest(Merge(kept, order, n, "oldest"), Q \cup Range(order), n)
<1> DEFINE N == Len(order)
<1>1. PICK h : Fills(h, kept, order, n, "oldest") /\ Merge(kept, order, n, "oldest") = h[N].kept
  BY MergeFills
<1> DEFINE Good(i) == /\ Oldest(h[i].kept, Q \cup Upto(order, i), n)
                      /\ h[i].done => i # 0 /\ Full(h[i], order[i], n)
           T == {i \in Nat : i <= N => Good(i)}
<1>2. N \in Nat
  OBVIOUS
<1>3. Upto(order, 0) = {} /\ Upto(order, N) = Range(order)
  BY DEF Upto, Range
<1> HIDE DEF N, Good, T
<1>4. /\ h[0].kept = kept /\ ~h[0].done
      /\ \A i \in 1 .. N : h[i] = Offer(h[i - 1], order[i], n, "oldest")
      /\ \A i \in 0 .. N : h[i] \in Heaps
  BY <1>1 DEF Fills, N
<1>5. 0 \in T
  BY ZenonT(30), <1>3, <1>4 DEF T, Good
<1>6. ASSUME NEW i \in Nat, i \in T PROVE i + 1 \in T
  <2> SUFFICES ASSUME i + 1 <= N PROVE Good(i + 1)
    BY DEF T
  <2> DEFINE U == Q \cup Upto(order, i)
             e == order[i + 1]
  <2>1. i + 1 \in 1 .. N /\ (i + 1) - 1 = i /\ i \in 0 .. N /\ i + 1 # 0
    BY <1>2
  <2>2. h[i + 1] = Offer(h[i], e, n, "oldest") /\ h[i] \in Heaps
    BY ZenonT(30), <1>4, <2>1
  <2>3. Good(i)
    BY <1>6, <2>1 DEF T
  <2>4. e \notin U
    BY ZenonT(30), FreshNext DEF N
  <2>5. U \in SUBSET Events /\ e \in Events /\ Q \cup Upto(order, i + 1) = U \cup {e}
    BY ZenonT(30), UptoNext DEF N
  <2>6. h[i].done => Full(h[i], e, n)
    <3> SUFFICES ASSUME h[i].done PROVE Full(h[i], e, n)
      BY ZenonT(30)
    <3>1. i \in 1 .. N /\ Full(h[i], order[i], n)
      BY <1>2, <2>1, <2>3 DEF Good
    <3>2. CreatedAt[order[i]] <= CreatedAt[e]
      BY <2>1, <3>1 DEF N
    <3>3. order[i] \in Events /\ e \in Events /\ h[i].kept \subseteq Events
      BY <2>2, <2>5, <3>1 DEF N, Heaps
    <3>4. \A f \in Events : CreatedAt[f] \in Nat
      BY ZenonT(30), StoreAssumption
    <3> HIDE DEF e
    <3>5. \A f \in h[i].kept : CreatedAt[f] <= CreatedAt[order[i]]
      BY ZenonT(30), <3>1 DEF Full
    <3>6. \A f \in h[i].kept : CreatedAt[f] <= CreatedAt[e]
      BY <3>2, <3>3, <3>4, <3>5
    <3> QED
      BY ZenonT(30), <3>1, <3>6 DEF Full
  <2>7. Oldest(h[i].kept, U, n)
    BY ZenonT(30), <2>3 DEF Good
  <2> HIDE DEF U, e
  <2>8. Oldest(h[i + 1].kept, U \cup {e}, n) /\ (h[i + 1].done => Full(h[i + 1], e, n))
    BY ZenonT(30), <2>2, <2>4, <2>5, <2>6, <2>7, OfferOldest
  <2> QED
    BY ZenonT(30), <2>1, <2>5, <2>8 DEF Good, e
<1>7. \A i \in Nat : i \in T
  BY ZenonT(30), <1>5, <1>6, NatInd
<1>8. Good(N)
  <2>1. N <= N
    BY <1>2
  <2> QED
    BY ZenonT(30), <1>2, <1>7, <2>1 DEF T
<1> QED
  BY ZenonT(30), <1>1, <1>3, <1>8 DEF Good

LEMMA ShardOldestFirst ==
    ASSUME NEW S \in SUBSET Events, NEW k
    PROVE  LET order == Reverse(NewestFirst(IndexSet(S, "shard", k)))
           IN  /\ order \in Seq(Events) /\ Range(order) = {e \in S : Shard[e] = k}
               /\ \A i, j \in 1 .. Len(order) :
                    i < j => order[i] # order[j] /\ CreatedAt[order[i]] <= CreatedAt[order[j]]
<1> DEFINE K == {e \in S : Shard[e] = k}
           s == NewestFirst(K)
           order == Reverse(s)
<1>1. IndexSet(S, "shard", k) = K
  BY ZenonT(30) DEF IndexSet
<1>2. K \in SUBSET Events
  BY ZenonT(30)
<1> HIDE DEF K
<1>3. Newest(s, K)
  BY ZenonT(30), <1>2, NewestFirstLists
<1> HIDE DEF s
<1>4. s \in Seq(Events) /\ s \in Seq(K) /\ Range(s) = K /\ Len(s) \in Nat
  BY <1>2, <1>3 DEF Newest
<1>5. /\ order \in Seq(Events) /\ Len(order) = Len(s) /\ Range(order) = K
      /\ \A i \in 1 .. Len(s) : order[i] = s[(Len(s) - i) + 1]
  BY ZenonT(30), <1>4, ReverseValues
<1> HIDE DEF order
<1>6. ASSUME NEW i \in 1 .. Len(s), NEW j \in 1 .. Len(s), i < j
      PROVE  order[i] # order[j] /\ CreatedAt[order[i]] <= CreatedAt[order[j]]
  <2> DEFINE a == (Len(s) - j) + 1
             b == (Len(s) - i) + 1
  <2>1. a \in 1 .. Len(s) /\ b \in 1 .. Len(s) /\ a < b
    BY <1>4, <1>6
  <2>2. order[j] = s[a] /\ order[i] = s[b]
    BY ZenonT(30), <1>5
  <2> HIDE DEF a, b
  <2>3. s[a] # s[b] /\ Before(s[a], s[b]) /\ s[a] \in Events /\ s[b] \in Events
    BY <1>3, <1>4, <2>1 DEF Newest
  <2>4. CreatedAt[s[a]] \in Nat /\ CreatedAt[s[b]] \in Nat
    BY ZenonT(30), <2>3, StoreAssumption
  <2> QED
    BY <2>2, <2>3, <2>4 DEF Before
<1> QED
  BY ZenonT(30), <1>1, <1>5, <1>6 DEF order, s, K

\* Fewer events outside K, and it is still the oldest.
LEMMA OldestOfFewer ==
    ASSUME NEW Q, NEW K, NEW R, NEW n, Oldest(K, Q, n), K \subseteq R, R \subseteq Q
    PROVE  Oldest(K, R, n)
BY ZenonT(30) DEF Oldest

-----------------------------------------------------------------------------
(* Eviction. *)

\* The events picked from the first k shards, and those that stayed in them meanwhile.
Read_(k) == batch \cup {e \in settled : Shard[e] <= k}

EvictInv ==
    /\ scan \in 0 .. Shards - 1 /\ settled \subseteq stored /\ batch \subseteq Events
    /\ scan # 0 => /\ \A e \in batch : Shard[e] <= scan
                   /\ Oldest(batch, Read_(scan), EvictBatch)
    /\ EvictsOldest

\* The shard after the first k of them is merged into the batch.
LEMMA ShardMerged ==
    ASSUME NEW k \in 0 .. Shards - 1, NEW S \in SUBSET Events, NEW K \in SUBSET Events,
           NEW R \in SUBSET S, \A e \in K : Shard[e] <= k,
           Oldest(K, K \cup {e \in R : Shard[e] <= k}, EvictBatch)
    PROVE  LET after == MergeOldest(K, S, k + 1, EvictBatch)
           IN  /\ after \in SUBSET Events /\ \A e \in after : Shard[e] <= k + 1
               /\ Oldest(after, after \cup {e \in R : Shard[e] <= k + 1}, EvictBatch)
<1> DEFINE order == Reverse(NewestFirst(IndexSet(S, "shard", k + 1)))
           Q == K \cup {e \in R : Shard[e] <= k}
           after == Merge(K, order, EvictBatch, "oldest")
<1>1. after = MergeOldest(K, S, k + 1, EvictBatch)
  BY ZenonT(30) DEF MergeOldest
<1>2. /\ order \in Seq(Events) /\ Range(order) = {e \in S : Shard[e] = k + 1}
      /\ \A i, j \in 1 .. Len(order) :
           i < j => order[i] # order[j] /\ CreatedAt[order[i]] <= CreatedAt[order[j]]
  BY ZenonT(30), ShardOldestFirst
<1>3. \A e \in Events : /\ Shard[e] \in Int /\ k \in Int
                        /\ Shard[e] <= k + 1 <=> Shard[e] <= k \/ Shard[e] = k + 1
                        /\ ~(Shard[e] <= k /\ Shard[e] = k + 1)
  BY StoreAssumption
<1>4. Q \in SUBSET Events /\ K \in SUBSET Q /\ \A e \in Q : Shard[e] <= k
  BY ZenonT(30)
<1>5. EvictBatch \in Nat \ {0}
  BY ZenonT(30), DeletionAssumption
<1> HIDE DEF order, Q
<1>6. Fresh(order, Q)
  BY ZenonT(30), <1>2, <1>3, <1>4 DEF Fresh
<1>7. \A i, j \in 1 .. Len(order) : i < j => CreatedAt[order[i]] <= CreatedAt[order[j]]
  BY ZenonT(30), <1>2
<1>8. Oldest(after, Q \cup Range(order), EvictBatch)
  BY ZenonT(30), <1>2, <1>4, <1>5, <1>6, <1>7, MergeKeepsOldest DEF Q
<1> HIDE DEF after
<1>9. after \subseteq Q \cup Range(order)
  BY ZenonT(30), <1>8 DEF Oldest
<1>10. after \in SUBSET Events /\ \A e \in after : Shard[e] <= k + 1
  BY ZenonT(30), <1>2, <1>3, <1>4, <1>9
<1>11. after \cup {e \in R : Shard[e] <= k + 1} \subseteq Q \cup Range(order)
  BY ZenonT(30), <1>2, <1>3, <1>9 DEF Q
<1>12. Oldest(after, after \cup {e \in R : Shard[e] <= k + 1}, EvictBatch)
  BY ZenonT(30), <1>8, <1>11, OldestOfFewer
<1> QED
  BY ZenonT(30), <1>1, <1>10, <1>12

LEMMA ReadShardEvict ==
    ASSUME Inv, EvictInv, ReadShard
    PROVE  EvictInv'
<1> DEFINE k == scan
<1>0. \A e \in Events : Shard[e] \in 1 .. Shards
  BY ZenonT(30), StoreAssumption
<1>1. k \in 0 .. Shards - 1 /\ stored \in SUBSET Events /\ stored' = stored /\ Shards \in Nat \ {0}
  BY ZenonT(30), StoreAssumption DEF EvictInv, Inv, StoreInv, ReadShard, store
<1>2. /\ batch' = MergeOldest(batch, stored, k + 1, EvictBatch)
      /\ scan' = IF k + 1 = Shards THEN 0 ELSE k + 1
  BY ZenonT(30) DEF ReadShard
<1>3. /\ settled' \in SUBSET stored /\ batch \in SUBSET Events /\ \A e \in batch : Shard[e] <= k
      /\ Oldest(batch, batch \cup {e \in settled' : Shard[e] <= k}, EvictBatch)
  <2>1. CASE scan # 0
    BY ZenonT(30), <2>1 DEF ReadShard, EvictInv, Read_
  <2>2. CASE scan = 0
    <3>1. batch = {} /\ settled' = stored
      BY ZenonT(30), <2>2 DEF ReadShard
    <3>2. \A e \in Events : ~(Shard[e] <= k)
      BY <1>0, <1>1, <2>2
    <3>3. {e \in settled' : Shard[e] <= k} = {}
      BY ZenonT(30), <1>1, <3>1, <3>2
    <3>4. Cardinality({}) <= EvictBatch
      BY FS_EmptySet, DeletionAssumption
    <3>5. Oldest({}, {}, EvictBatch)
      BY ZenonT(30), <3>4 DEF Oldest
    <3> QED
      BY ZenonT(30), <3>1, <3>3, <3>5
  <2> QED
    BY ZenonT(30), <2>1, <2>2
<1>4. /\ batch' \in SUBSET Events /\ \A e \in batch' : Shard[e] <= k + 1
      /\ Oldest(batch', batch' \cup {e \in settled' : Shard[e] <= k + 1}, EvictBatch)
  BY ZenonT(30), <1>1, <1>2, <1>3, ShardMerged
<1>5. scan' \in 0 .. Shards - 1 /\ (scan' # 0 => scan' = k + 1) /\ (scan' = 0 => k + 1 = Shards)
  BY <1>1, <1>2
<1>6. scan' = 0 => {e \in settled' : Shard[e] <= k + 1} = settled'
  <2>1. k + 1 = Shards => \A e \in Events : Shard[e] <= k + 1
    BY <1>0, <1>1
  <2>2. settled' \subseteq Events
    BY ZenonT(30), <1>1, <1>3
  <2> QED
    BY ZenonT(30), <1>5, <2>1, <2>2
<1>7. EvictsOldest'
  BY ZenonT(30), <1>4, <1>6 DEF EvictsOldest, Oldest
<1>8. scan' # 0 => /\ \A e \in batch' : Shard[e] <= scan'
                   /\ Oldest(batch', batch' \cup {e \in settled' : Shard[e] <= scan'}, EvictBatch)
  BY ZenonT(30), <1>4, <1>5
<1> QED
  BY ZenonT(30), <1>1, <1>3, <1>4, <1>5, <1>7, <1>8 DEF EvictInv, Read_

\* A step that leaves the eviction task alone.
LEMMA OtherEvict ==
    ASSUME EvictInv, UNCHANGED <<scan, batch>>, settled' \subseteq settled \cap stored'
    PROVE  EvictInv'
<1>1. settled' \subseteq settled
  BY ZenonT(30)
<1>2. EvictsOldest'
  BY ZenonT(30), <1>1 DEF EvictInv, EvictsOldest
<1>3. scan # 0 => Oldest(batch, batch \cup {e \in settled' : Shard[e] <= scan}, EvictBatch)
  <2> SUFFICES ASSUME scan # 0
               PROVE  Oldest(batch, batch \cup {e \in settled' : Shard[e] <= scan}, EvictBatch)
    BY ZenonT(30)
  <2>1. Oldest(batch, Read_(scan), EvictBatch)
    BY ZenonT(30) DEF EvictInv
  <2>2. batch \cup {e \in settled' : Shard[e] <= scan} \subseteq Read_(scan)
    BY ZenonT(30), <1>1 DEF Read_
  <2> QED
    BY ZenonT(30), <2>1, <2>2, OldestOfFewer
<1> QED
  BY ZenonT(30), <1>2, <1>3 DEF EvictInv, Read_

LEMMA NextEvict == Inv /\ EvictInv /\ [Next]_vars => EvictInv'
<1> SUFFICES ASSUME Inv, EvictInv, [Next]_vars PROVE EvictInv'
  BY ZenonT(30)
<1>1. CASE ReadShard
  BY ZenonT(30), <1>1, ReadShardEvict
<1>2. CASE EvictNext
  <2>1. PICK e : batch' = batch \ {e} /\ stored' = stored \ {e}
    BY ZenonT(30), <1>2 DEF EvictNext
  <2>2. scan = 0 /\ scan' = scan /\ settled' \subseteq settled \cap stored'
    BY ZenonT(30), <1>2 DEF EvictNext
  <2> QED
    BY ZenonT(30), <2>1, <2>2 DEF EvictInv, EvictsOldest
<1>3. CASE UNCHANGED <<scan, batch>> /\ settled' \subseteq settled \cap stored'
  BY ZenonT(30), <1>3, OtherEvict
<1>4. ASSUME ~ReadShard, ~EvictNext
      PROVE  UNCHANGED <<scan, batch>> /\ settled' \subseteq settled \cap stored'
  <2>1. settled \subseteq stored
    BY ZenonT(30) DEF EvictInv
  <2> QED
    BY ZenonT(30), <1>4, <2>1 DEF Next, DeletionStep, Receive, Contains_, Tombstoned, LookupId,
       LookupCoordinate, CheckVersion, DeleteById, Bury, CheckInsert, StoreEvent, StoreBecomes,
       Publish, vars, deletion, evictor, store
<1> QED
  BY ZenonT(30), <1>1, <1>2, <1>3, <1>4

LEMMA AlwaysEvict == Spec => []EvictInv
<1>1. Init => EvictInv
  <2> SUFFICES ASSUME Init PROVE EvictInv
    BY ZenonT(30)
  <2>1. scan = 0 /\ batch = {} /\ settled = {}
    BY ZenonT(30) DEF Init, DeletionInit
  <2>2. 0 \in 0 .. Shards - 1
    BY StoreAssumption
  <2> QED
    BY ZenonT(30), <2>1, <2>2 DEF EvictInv, EvictsOldest
<1> QED
  BY <1>1, NextEvict, AlwaysInv, PTL DEF Spec

\* The eviction task takes the oldest events of the whole store: of the events that
\* stay in it while get_oldest merges its shards, one after the other, none that is
\* left out is older than one that is picked.
THEOREM OldestEvicted == Spec => []EvictsOldest
<1>1. EvictInv => EvictsOldest
  BY ZenonT(30) DEF EvictInv
<1> QED
  BY <1>1, AlwaysEvict, PTL

=============================================================================
