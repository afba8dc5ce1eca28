---------------------------- MODULE FanoutProofs ----------------------------
(***************************************************************************)
(* Proofs about Fanout, for any number of connections, subscriptions,      *)
(* EVENT tasks, events and kinds: type correctness, what a connection may  *)
(* be doing in each phase of its life, that an overflow signal is never    *)
(* lost, that the kind index is exact, that the limit on subscriptions     *)
(* holds, and that there is no gap between the stored events a query reads *)
(* and the live ones.                                                      *)
(***************************************************************************)
EXTENDS Fanout, FiniteSetTheorems, TLAPS

\* What the steps of a task know of its locals.
Shape ==
    /\ \A c \in Conns :
          /\ cpc[c] \in {"opened", "closed", "overflowed"} <=> csub[c] # None
          /\ cpc[c] = "opened" => subs[c][csub[c]] # None
          /\ cpc[c] \in {"closed", "overflowed"} => subs[c][csub[c]] = None
    /\ \A t \in Tasks :
          /\ tpc[t] # "idle" => tev[t] # None /\ tconn[t] # None
          /\ dsubs[t] # {} \/ tpc[t] = "notify" => dconn[t] # None
          /\ dconn[t] # None => tpc[t] \in {"deliver", "notify"}

TypeInv == TypeOK /\ Shape

LEMMA InitTypeInv == Init => TypeInv
  BY ConstantsAssumption DEF Init, TypeInv, TypeOK, Shape

LEMMA TrySendType ==
  ASSUME TypeOK, NEW c \in Conns, TrySend(c)
  PROVE  queue' \in [Conns -> 0 .. QueueCap]
  <1>1. QueueCap \in Nat
    BY ZenonT(30), ConstantsAssumption
  <1>2. queue \in [Conns -> 0 .. QueueCap]
    BY ZenonT(30) DEF TypeOK
  <1>3. CASE HasRoom(c)
    BY <1>1, <1>2, <1>3 DEF TrySend, HasRoom, Enqueue
  <1>4. CASE ~HasRoom(c)
    BY ZenonT(30), <1>2, <1>4 DEF TrySend
  <1> QED
    BY ZenonT(30), <1>3, <1>4

LEMMA RegisterTypeInv ==
  ASSUME TypeInv, NEW c \in Conns, Register(c)
  PROVE  TypeInv'
  BY ZenonT(30), ConstantsAssumption DEF TypeInv, TypeOK, Shape, index, signals, connTask, queries, eventTasks, history,
     Register

LEMMA LeaveTypeInv ==
  ASSUME TypeInv, NEW c \in Conns, Leave(c)
  PROVE  TypeInv'
  BY ConstantsAssumption DEF TypeInv, TypeOK, Shape, index, signals, connTask, queries, eventTasks, history,
     Leave

LEMMA RefuseTypeInv ==
  ASSUME TypeInv, NEW c \in Conns, Refuse(c)
  PROVE  TypeInv'
  BY TrySendType, ConstantsAssumption DEF TypeInv, TypeOK, Shape, index, signals, connTask, queries, eventTasks, history,
     Refuse, Frame

LEMMA ReindexTypeInv ==
  ASSUME TypeInv, NEW c \in Conns, Reindex(c)
  PROVE  TypeInv'
  <1> csub[c] \in SubIds
    BY DEF TypeInv, TypeOK, Shape, Reindex
  <1>1. kind_key' \in [Conns -> {AnyKind} \cup SUBSET Kinds] /\ by_kind' \in [Kinds -> SUBSET Conns]
        /\ any_kind' \subseteq Conns
    <2>1. NewKey(c) \in {AnyKind} \cup SUBSET Kinds
      BY ConstantsAssumption DEF TypeInv, TypeOK, NewKey, Filters, Open
    <2> QED
      BY <2>1 DEF TypeInv, TypeOK, Reindex, Indexed
  <1>2. queue' \in [Conns -> 0 .. QueueCap]
    BY ZenonT(30), TrySendType DEF TypeInv, TypeOK, Reindex
  <1>3. /\ query' \in [Conns -> [SubIds -> {"none", "run", "done"}]]
        /\ unread' \in [Conns -> [SubIds -> SUBSET SUBSET Kinds]]
        /\ pending' \in [Conns -> [SubIds -> SUBSET Events]]
    <2>1. CASE cpc[c] = "opened"
      <3>1. subs[c][csub[c]] \in SUBSET SUBSET Kinds
        BY <2>1, ConstantsAssumption DEF TypeInv, TypeOK, Shape
      <3>2. /\ query' = [query EXCEPT ![c][csub[c]] = "run"]
            /\ unread' = [unread EXCEPT ![c][csub[c]] = subs[c][csub[c]]]
            /\ pending' = [pending EXCEPT ![c][csub[c]] = {}]
        BY ZenonT(30), <2>1 DEF Reindex
      <3> QED
        BY ZenonT(30), <3>1, <3>2 DEF TypeInv, TypeOK
    <2>2. CASE cpc[c] # "opened"
      <3>1. Aborted(c, csub[c])
        BY ZenonT(30), <2>2 DEF Reindex
      <3> QED
        BY ZenonT(30), <3>1 DEF TypeInv, TypeOK, Aborted
    <2> QED
      BY ZenonT(30), <2>1, <2>2
  <1>4. told' \in [Conns -> SUBSET SubIds]
    BY DEF TypeInv, TypeOK, Reindex
  <1>5. /\ cpc' \in [Conns -> {"idle", "opened", "closed", "overflow", "overflowed", "break"}]
        /\ csub' = [csub EXCEPT ![c] = None]
        /\ cpc'[c] \in {"idle", "overflow"}
        /\ \A d \in Conns \ {c} : cpc'[d] = cpc[d]
    <2>1. \E l \in {"idle", "overflow"} : cpc' = [cpc EXCEPT ![c] = l]
      BY ZenonT(30) DEF Reindex
    <2> QED
      BY <2>1 DEF TypeInv, TypeOK, Reindex
  <1>6. TypeOK'
    BY <1>1, <1>2, <1>3, <1>4, <1>5, ConstantsAssumption
       DEF TypeInv, TypeOK, Reindex, signals, eventTasks
  <1>7. Shape'
    BY <1>5 DEF TypeInv, TypeOK, Shape, Reindex, eventTasks
  <1> QED
    BY ZenonT(30), <1>6, <1>7 DEF TypeInv

LEMMA OverflowTypeInv ==
  ASSUME TypeInv, NEW c \in Conns, Overflow(c)
  PROVE  TypeInv'
  <1>1. notified' \in [Conns -> BOOLEAN]
    BY Zenon DEF TypeInv, TypeOK, Overflow
  <1> QED
    BY <1>1, ConstantsAssumption DEF TypeInv, TypeOK, Shape, index, signals, connTask, queries, eventTasks, history,
       Overflow

LEMMA OverflowDoneTypeInv ==
  ASSUME TypeInv, NEW c \in Conns, OverflowDone(c)
  PROVE  TypeInv'
  BY ConstantsAssumption DEF TypeInv, TypeOK, Shape, index, signals, connTask, queries, eventTasks, history,
     OverflowDone

LEMMA UnregisterTypeInv ==
  ASSUME TypeInv, NEW c \in Conns, Unregister(c)
  PROVE  TypeInv'
  BY ZenonT(30), ConstantsAssumption DEF TypeInv, TypeOK, Shape, index, signals, connTask, queries, eventTasks, history,
     Unregister, Indexed

LEMMA DrainTypeInv ==
  ASSUME TypeInv, NEW c \in Conns, Drain(c)
  PROVE  TypeInv'
  BY ConstantsAssumption DEF TypeInv, TypeOK, Shape, index, signals, connTask, queries, eventTasks, history,
     Drain

LEMMA ReqTypeInv ==
  ASSUME TypeInv, NEW c \in Conns, NEW s \in SubIds, NEW filters \in Requests, Req(c, s, filters)
  PROVE  TypeInv'
  BY ConstantsAssumption DEF TypeInv, TypeOK, Shape, index, signals, connTask, queries, eventTasks, history,
     Req, Frame, SubsWrite, SubsUnlocked

LEMMA CloseTypeInv ==
  ASSUME TypeInv, NEW c \in Conns, NEW s \in SubIds, Close(c, s)
  PROVE  TypeInv'
  BY ConstantsAssumption DEF TypeInv, TypeOK, Shape, index, signals, connTask, queries, eventTasks, history,
     Close, Frame, SubsWrite, SubsUnlocked

LEMMA CloseOverflowedTypeInv ==
  ASSUME TypeInv, NEW c \in Conns, NEW s \in SubIds, CloseOverflowed(c, s)
  PROVE  TypeInv'
  BY ConstantsAssumption DEF TypeInv, TypeOK, Shape, index, signals, connTask, queries, eventTasks, history,
     CloseOverflowed, SubsWrite, SubsUnlocked

LEMMA QueryEoseTypeInv ==
  ASSUME TypeInv, NEW c \in Conns, NEW s \in SubIds, QueryEose(c, s)
  PROVE  TypeInv'
  BY ConstantsAssumption DEF TypeInv, TypeOK, Shape, index, signals, connTask, queries, eventTasks, history,
     QueryEose, HasRoom, Enqueue

LEMMA QueryReadTypeInv ==
  ASSUME TypeInv, NEW c \in Conns, NEW s \in SubIds, NEW f \in unread[c][s], QueryRead(c, s, f)
  PROVE  TypeInv'
  BY ConstantsAssumption DEF TypeInv, TypeOK, Shape, index, signals, connTask, queries, eventTasks, history,
     QueryRead

LEMMA QuerySendTypeInv ==
  ASSUME TypeInv, NEW c \in Conns, NEW s \in SubIds, NEW e \in pending[c][s], QuerySend(c, s, e)
  PROVE  TypeInv'
  BY ConstantsAssumption DEF TypeInv, TypeOK, Shape, index, signals, connTask, queries, eventTasks, history,
     QuerySend, HasRoom, Enqueue

LEMMA ReceiveTypeInv ==
  ASSUME TypeInv, NEW c \in Conns, NEW t \in Tasks, NEW e \in Events, Receive(c, t, e)
  PROVE  TypeInv'
  BY ConstantsAssumption DEF TypeInv, TypeOK, Shape, index, signals, connTask, queries, eventTasks, history,
     Receive, Frame, Goto

LEMMA AcquireTypeInv ==
  ASSUME TypeInv, NEW t \in Tasks, Acquire(t)
  PROVE  TypeInv'
  BY ConstantsAssumption DEF TypeInv, TypeOK, Shape, index, signals, connTask, queries, eventTasks, history,
     Acquire, Goto

LEMMA StoreEventTypeInv ==
  ASSUME TypeInv, NEW t \in Tasks, StoreEvent(t)
  PROVE  TypeInv'
  BY ConstantsAssumption DEF TypeInv, TypeOK, Shape, index, signals, connTask, queries, eventTasks, history,
     StoreEvent, Goto

LEMMA RouteTypeInv ==
  ASSUME TypeInv, NEW t \in Tasks, Route(t)
  PROVE  TypeInv'
  BY ConstantsAssumption DEF TypeInv, TypeOK, Shape, index, signals, connTask, queries, eventTasks, history,
     Route, Goto

LEMMA NotifyTypeInv ==
  ASSUME TypeInv, NEW t \in Tasks, Notify(t)
  PROVE  TypeInv'
  <1> dconn[t] \in Conns
    BY DEF TypeInv, TypeOK, Shape, Notify
  <1>1. notified' \in [Conns -> BOOLEAN] /\ kill' \in [Conns -> BOOLEAN]
    BY Zenon DEF TypeInv, TypeOK, Notify
  <1>2. drops' \in [Conns -> 0 .. MaxDrops + 1]
    <2>1. MaxDrops \in Nat /\ drops \in [Conns -> 0 .. MaxDrops + 1]
      BY ZenonT(30), ConstantsAssumption DEF TypeInv, TypeOK
    <2>2. \/ drops' = [drops EXCEPT ![dconn[t]] = 1]
          \/ drops' = [drops EXCEPT ![dconn[t]] = IF @ > MaxDrops THEN @ ELSE @ + 1]
      BY ZenonT(30) DEF Notify
    <2> QED
      BY <2>1, <2>2
  <1> QED
    BY <1>1, <1>2, ConstantsAssumption DEF TypeInv, TypeOK, Shape, index, signals, connTask, queries, eventTasks, history,
       Notify, Goto

LEMMA DeliveredTypeInv ==
  ASSUME TypeInv, NEW t \in Tasks, Delivered(t)
  PROVE  TypeInv'
  BY ConstantsAssumption DEF TypeInv, TypeOK, Shape, index, signals, connTask, queries, eventTasks, history,
     Delivered, Goto

LEMMA PublishedTypeInv ==
  ASSUME TypeInv, NEW t \in Tasks, Published(t)
  PROVE  TypeInv'
  BY ConstantsAssumption DEF TypeInv, TypeOK, Shape, index, signals, connTask, queries, eventTasks, history,
     Published, Goto

LEMMA ReplyTypeInv ==
  ASSUME TypeInv, NEW t \in Tasks, Reply(t)
  PROVE  TypeInv'
  BY TrySendType, ConstantsAssumption DEF TypeInv, TypeOK, Shape, index, signals, connTask, queries, eventTasks, history,
     Reply, Goto

LEMMA DeliverToTypeInv ==
  ASSUME TypeInv, NEW t \in Tasks, NEW c \in targets[t], DeliverTo(t, c)
  PROVE  TypeInv'
  BY ConstantsAssumption DEF TypeInv, TypeOK, Shape, index, signals, connTask, queries, eventTasks, history,
     DeliverTo, Wanting, Open

LEMMA DeliverTypeInv ==
  ASSUME TypeInv, NEW t \in Tasks, NEW s \in dsubs[t], Deliver(t, s)
  PROVE  TypeInv'
  <1> dconn[t] \in Conns
    BY DEF TypeInv, TypeOK, Shape
  <1>1. /\ dsubs' \in [Tasks -> SUBSET SubIds]
        /\ \A u \in Tasks : dsubs'[u] \subseteq dsubs[u]
    BY ZenonT(30) DEF TypeInv, TypeOK, Deliver
  <1>2. /\ queue' \in [Conns -> 0 .. QueueCap]
        /\ sent' \in [Conns -> [SubIds -> SUBSET Events]]
        /\ overflow' \in [Conns -> SUBSET SubIds]
        /\ tpc' = tpc \/ tpc' = [tpc EXCEPT ![t] = "notify"]
    <2>1. s \in SubIds /\ tev[t] \in Events
      BY DEF TypeInv, TypeOK, Shape, Deliver
    <2>2. CASE HasRoom(dconn[t])
      <3>1. TrySend(dconn[t]) /\ UNCHANGED <<overflow, tpc>>
            /\ sent' = [sent EXCEPT ![dconn[t]][s] = @ \cup {tev[t]}]
        BY ZenonT(30), <2>2 DEF Deliver, TrySend
      <3> QED
        BY <2>1, <3>1, TrySendType DEF TypeInv, TypeOK
    <2>3. CASE ~HasRoom(dconn[t])
      <3>1. UNCHANGED <<queue, sent>> /\ tpc' = [tpc EXCEPT ![t] = "notify"]
            /\ overflow' = [overflow EXCEPT ![dconn[t]] = @ \cup {s}]
        BY ZenonT(30), <2>3 DEF Deliver, Goto
      <3> QED
        BY <2>1, <3>1 DEF TypeInv, TypeOK
    <2> QED
      BY ZenonT(30), <2>2, <2>3
  <1>3. TypeOK'
    BY ZenonT(30), <1>1, <1>2 DEF TypeInv, TypeOK, Deliver, index, connTask, queries
  <1>4. Shape'
    BY <1>1, <1>2 DEF TypeInv, TypeOK, Shape, Deliver, connTask
  <1> QED
    BY ZenonT(30), <1>3, <1>4 DEF TypeInv

LEMMA TypeInvStep == TypeInv /\ [Next]_vars => TypeInv'
  <1> SUFFICES ASSUME TypeInv, [Next]_vars PROVE TypeInv'
    BY ZenonT(30)
  <1>1. ASSUME NEW c \in Conns, Input(c) PROVE TypeInv'
    BY ZenonT(30), <1>1, RegisterTypeInv, LeaveTypeInv, RefuseTypeInv, ReqTypeInv, CloseTypeInv,
       ReceiveTypeInv DEF Input
  <1>2. ASSUME NEW c \in Conns, ConnStep(c) PROVE TypeInv'
    BY ZenonT(30), <1>2, ReindexTypeInv, OverflowTypeInv, OverflowDoneTypeInv, UnregisterTypeInv,
       CloseOverflowedTypeInv DEF ConnStep
  <1>3. ASSUME NEW c \in Conns, NEW s \in SubIds, QueryStep(c, s) PROVE TypeInv'
    BY ZenonT(30), <1>3, QueryReadTypeInv, QuerySendTypeInv, QueryEoseTypeInv DEF QueryStep
  <1>4. ASSUME NEW t \in Tasks, EventStep(t) PROVE TypeInv'
    BY <1>4, AcquireTypeInv, StoreEventTypeInv, RouteTypeInv, NotifyTypeInv,
       DeliverToTypeInv, DeliverTypeInv, DeliveredTypeInv, PublishedTypeInv, ReplyTypeInv,
       ZenonT(30) DEF EventStep
  <1>5. CASE UNCHANGED vars
    BY ZenonT(30), <1>5 DEF vars, TypeInv, TypeOK, Shape, index, signals, connTask, queries, eventTasks,
                history
  <1> QED
    BY ZenonT(30), <1>1, <1>2, <1>3, <1>4, <1>5, DrainTypeInv DEF Next

\* Every variable keeps its type; in particular the send queue of a connection never
\* exceeds CONN_SEND_CAP (try_send, and the sends that wait for room).
THEOREM TypeCorrect == Spec => []TypeOK
  <1>1. TypeInv => TypeOK
    BY ZenonT(30) DEF TypeInv
  <1> QED
    BY <1>1, InitTypeInv, TypeInvStep, PTL DEF Spec

-----------------------------------------------------------------------------
(* The life of a connection. *)

\* A connection that is not open yet is untouched; one in the middle of a request is
\* open; subscriptions wait to be closed only in the overflow branch.
Life ==
    \A c \in Conns :
        /\ conn[c] = "new" => /\ cpc[c] = "idle" /\ overflow[c] = {}
                              /\ \A s \in SubIds : subs[c][s] = None
                              /\ \A t \in Tasks : c \notin targets[t] /\ dconn[t] # c
        /\ cpc[c] \notin {"idle", "break"} => conn[c] = "open"
        /\ closing[c] # {} => cpc[c] \in {"overflow", "overflowed"}

LEMMA InitLife == Init => Life
  BY ConstantsAssumption DEF Init, Life

LEMMA LifeStep == TypeInv /\ Life /\ [Next]_vars => Life'
  <1> SUFFICES ASSUME TypeInv, Life, [Next]_vars PROVE Life'
    BY ZenonT(30)
  <1> USE DEF index, signals, connTask, queries, eventTasks, history
  <1> DEFINE Same == UNCHANGED <<conn, cpc, overflow, subs, targets, dconn, closing>>
  <1>0. ASSUME Same PROVE Life'
    BY <1>0, ZenonT(30) DEF Life
  <1>3. ASSUME NEW c \in Conns, Drain(c) PROVE Same
    BY ZenonT(30), <1>3 DEF Drain
  <1>4. ASSUME NEW c \in Conns, NEW s \in SubIds, QueryStep(c, s) PROVE Same
    <2>1. ASSUME NEW f \in unread[c][s], QueryRead(c, s, f) PROVE Same
      BY ZenonT(30), <2>1 DEF QueryRead
    <2>2. ASSUME NEW e \in pending[c][s], QuerySend(c, s, e) PROVE Same
      BY ZenonT(30), <2>2 DEF QuerySend
    <2>3. CASE QueryEose(c, s)
      BY ZenonT(30), <2>3 DEF QueryEose
    <2> QED
      BY ZenonT(30), <1>4, <2>1, <2>2, <2>3 DEF QueryStep
  <1>6. CASE UNCHANGED vars
    BY ZenonT(30), <1>0, <1>6 DEF vars
  <1>7. ASSUME NEW t \in Tasks,
               Acquire(t) \/ StoreEvent(t) \/ Notify(t) \/ Published(t) \/ Reply(t)
        PROVE  Same
    <2>1. CASE Acquire(t)
      BY ZenonT(30), <2>1 DEF Acquire
    <2>2. CASE StoreEvent(t)
      BY ZenonT(30), <2>2 DEF StoreEvent
    <2>3. CASE Notify(t)
      BY ZenonT(30), <2>3 DEF Notify
    <2>4. CASE Published(t)
      BY ZenonT(30), <2>4 DEF Published
    <2>5. CASE Reply(t)
      BY ZenonT(30), <2>5 DEF Reply
    <2> QED
      BY ZenonT(30), <1>7, <2>1, <2>2, <2>3, <2>4, <2>5
  <1> USE DEF TypeInv, TypeOK, Life
  <1>1. ASSUME NEW c \in Conns, Input(c) PROVE Life'
    <2>1. CASE Register(c)
      BY <2>1 DEF Register
    <2>2. CASE Leave(c)
      BY <2>2 DEF Leave
    <2>3. CASE Refuse(c)
      BY ZenonT(30), <2>3 DEF Refuse
    <2>4. ASSUME NEW s \in SubIds, NEW filters \in Requests, Req(c, s, filters) PROVE Life'
      BY <2>4 DEF Req, Frame, SubsWrite
    <2>5. ASSUME NEW s \in SubIds, Close(c, s) PROVE Life'
      BY <2>5 DEF Close, Frame, SubsWrite
    <2>6. ASSUME NEW t \in Tasks, NEW e \in Events, Receive(c, t, e) PROVE Life'
      BY <2>6 DEF Receive
    <2> QED
      BY <1>1, <2>1, <2>2, <2>3, <2>4, <2>5, <2>6, ZenonT(30) DEF Input
  <1>2. ASSUME NEW c \in Conns, ConnStep(c) PROVE Life'
    <2>1. CASE Reindex(c)
      <3>1. \/ cpc[c] \in {"opened", "closed"} /\ cpc' = [cpc EXCEPT ![c] = "idle"]
            \/ cpc[c] = "overflowed" /\ cpc' = [cpc EXCEPT ![c] = "overflow"]
        BY <2>1, ZenonT(30) DEF Reindex
      <3>2. UNCHANGED <<conn, subs, overflow, closing, targets, dconn>>
        BY <2>1, ZenonT(30) DEF Reindex
      <3> QED
        BY <3>1, <3>2
    <2>2. CASE Overflow(c)
      BY <2>2 DEF Overflow
    <2>3. CASE OverflowDone(c)
      BY <2>3 DEF OverflowDone
    <2>4. CASE Unregister(c)
      BY <2>4 DEF Unregister
    <2>5. ASSUME NEW s \in SubIds, CloseOverflowed(c, s) PROVE Life'
      BY <2>5 DEF CloseOverflowed, SubsWrite
    <2> QED
      BY <1>2, <2>1, <2>2, <2>3, <2>4, <2>5, ZenonT(30) DEF ConnStep
  <1>5. ASSUME NEW t \in Tasks, EventStep(t) PROVE Life'
    <2>1. CASE Route(t)
      BY <2>1 DEF Route
    <2>2. ASSUME NEW c \in targets[t], DeliverTo(t, c) PROVE Life'
      BY <2>2 DEF DeliverTo
    <2>3. ASSUME NEW s \in dsubs[t], Deliver(t, s) PROVE Life'
      <3>1. /\ overflow' = overflow \/ overflow' = [overflow EXCEPT ![dconn[t]] = @ \cup {s}]
            /\ UNCHANGED <<conn, cpc, closing, subs, targets, dconn>>
        BY ZenonT(30), <2>3 DEF Deliver
      <3> QED
        BY <3>1
    <2>4. CASE Delivered(t)
      <3>1. /\ dconn' = [dconn EXCEPT ![t] = None]
            /\ UNCHANGED <<conn, cpc, closing, overflow, subs, targets>>
        BY ZenonT(30), <2>4 DEF Delivered
      <3>2. None \notin Conns
        BY ZenonT(30), ConstantsAssumption
      <3> QED
        BY <3>1, <3>2
    <2>5. CASE Acquire(t) \/ StoreEvent(t) \/ Notify(t) \/ Published(t) \/ Reply(t)
      BY <1>0, <1>7, <2>5, ZenonT(30)
    <2> QED
      BY <1>5, <2>1, <2>2, <2>3, <2>4, <2>5, ZenonT(30) DEF EventStep
  <1> QED
    BY ZenonT(30), <1>0, <1>1, <1>2, <1>3, <1>4, <1>5, <1>6 DEF Next

-----------------------------------------------------------------------------
(* The overflow signal. *)

LEMMA SignalStep == TypeInv /\ Life /\ OverflowSignalled /\ [Next]_vars => OverflowSignalled'
  <1> SUFFICES ASSUME TypeInv, Life, OverflowSignalled, [Next]_vars PROVE OverflowSignalled'
    BY ZenonT(30)
  <1> USE DEF OverflowSignalled, index, signals, connTask, queries, eventTasks, history
  <1>1. ASSUME NEW c \in Conns, Input(c) PROVE OverflowSignalled'
    <2>1. CASE Register(c)
      <3>1. overflow[c] = {} /\ \A d \in Conns \ {c} : conn'[d] = conn[d]
        BY <2>1 DEF Register, Life, TypeInv, TypeOK
      <3>2. UNCHANGED <<overflow, notified, tpc, dconn>>
        BY <2>1, ZenonT(30) DEF Register
      <3> QED
        BY ZenonT(30), <3>1, <3>2
    <2>2. ASSUME NEW t \in Tasks, NEW e \in Events, Receive(c, t, e) PROVE OverflowSignalled'
      BY <2>2, ZenonT(30) DEF Receive, Goto, TypeInv, TypeOK
    <2>3. CASE UNCHANGED <<conn, signals, tpc, dconn>>
      BY ZenonT(30), <2>3
    <2> QED
      BY ZenonT(30), <1>1, <2>1, <2>2, <2>3 DEF Input, Leave, Refuse, Req, Close
  <1>2. ASSUME NEW c \in Conns, ConnStep(c) PROVE OverflowSignalled'
    <2>1. CASE Overflow(c)
      BY <2>1, ZenonT(30) DEF Overflow, TypeInv, TypeOK
    <2>2. CASE Unregister(c)
      BY <2>2, ZenonT(30) DEF Unregister, TypeInv, TypeOK
    <2>3. CASE UNCHANGED <<conn, signals, tpc, dconn>>
      BY ZenonT(30), <2>3
    <2> QED
      BY ZenonT(30), <1>2, <2>1, <2>2, <2>3 DEF ConnStep, Reindex, OverflowDone, CloseOverflowed
  <1>3. CASE UNCHANGED <<conn, signals, tpc, dconn>>
    BY ZenonT(30), <1>3
  <1>4. ASSUME NEW t \in Tasks, EventStep(t) PROVE OverflowSignalled'
    <2>1. CASE Notify(t)
      <3>1. /\ dconn[t] \in Conns /\ UNCHANGED <<conn, overflow, dconn>>
            /\ notified'[dconn[t]]
            /\ \A d \in Conns : notified[d] => notified'[d]
            /\ \A u \in Tasks \ {t} : tpc'[u] = tpc[u]
        <4>0. /\ notified \in [Conns -> BOOLEAN] /\ DOMAIN tpc = Tasks
              /\ dconn \in [Tasks -> Conns \cup {None}]
          BY ZenonT(30) DEF TypeInv, TypeOK
        <4>t. tpc[t] = "notify"
          BY ZenonT(30), <2>1 DEF Notify
        <4>1. dconn[t] \in Conns /\ notified \in [Conns -> BOOLEAN] /\ DOMAIN tpc = Tasks
          BY ZenonT(30), <4>t, <4>0 DEF TypeInv, Shape
        <4>2. /\ UNCHANGED <<conn, overflow, dconn>>
              /\ notified' = [notified EXCEPT ![dconn[t]] = TRUE]
              /\ tpc' = [tpc EXCEPT ![t] = "deliver"]
          BY ZenonT(30), <2>1 DEF Notify, Goto
        <4> QED
          BY ZenonT(30), <4>1, <4>2
      <3> QED
        BY <3>1
    <2>2. ASSUME NEW s \in dsubs[t], Deliver(t, s) PROVE OverflowSignalled'
      <3>1. /\ UNCHANGED <<conn, notified, dconn>> /\ tpc[t] # "notify"
            /\ \A u \in Tasks \ {t} : tpc'[u] = tpc[u]
            /\ \A d \in Conns \ {dconn[t]} : overflow'[d] = overflow[d]
            /\ UNCHANGED overflow \/ tpc'[t] = "notify"
        BY <2>2 DEF Deliver, Goto, TypeInv, TypeOK
      <3>2. ASSUME NEW d \in Conns, conn[d] = "open", overflow'[d] # {}
            PROVE  notified[d] \/ \E u \in Tasks : tpc'[u] = "notify" /\ dconn[u] = d
        <4>1. CASE overflow'[d] = overflow[d]
          <5>1. notified[d] \/ \E u \in Tasks : tpc[u] = "notify" /\ dconn[u] = d
            BY ZenonT(30), <3>2, <4>1
          <5> QED
            BY ZenonT(30), <3>1, <5>1
        <4>2. CASE overflow'[d] # overflow[d]
          <5>1. d = dconn[t]
            BY ZenonT(30), <3>1, <4>2
          <5>2. tpc'[t] = "notify"
            BY ZenonT(30), <3>1, <4>2
          <5> QED
            BY ZenonT(30), <5>1, <5>2
        <4> QED
          BY ZenonT(30), <4>1, <4>2
      <3> QED
        BY ZenonT(30), <3>1, <3>2
    <2>3. ASSUME tpc[t] # "notify", UNCHANGED <<conn, signals>>,
                 \A u \in Tasks \ {t} : tpc'[u] = tpc[u] /\ dconn'[u] = dconn[u]
          PROVE  OverflowSignalled'
      BY <2>3
    <2>4. ASSUME NEW c \in targets[t], DeliverTo(t, c) PROVE OverflowSignalled'
      BY <2>3, <2>4, ZenonT(30) DEF DeliverTo, TypeInv, TypeOK
    <2>5. CASE Delivered(t)
      BY <2>3, <2>5, ZenonT(30) DEF Delivered, TypeInv, TypeOK
    <2>6. CASE Acquire(t) \/ StoreEvent(t) \/ Route(t) \/ Published(t) \/ Reply(t)
      <3>1. tpc[t] # "notify" /\ UNCHANGED <<conn, signals, dconn>>
            /\ \A u \in Tasks \ {t} : tpc'[u] = tpc[u]
        <4>1. DOMAIN tpc = Tasks
          BY ZenonT(30) DEF TypeInv, TypeOK
        <4>2. CASE Acquire(t)
          BY <4>1, <4>2, ZenonT(30) DEF Acquire, Goto
        <4>3. CASE StoreEvent(t)
          BY <4>1, <4>3, ZenonT(30) DEF StoreEvent, Goto
        <4>4. CASE Route(t)
          BY ZenonT(30), <4>1, <4>4 DEF Route, Goto
        <4>5. CASE Published(t)
          BY ZenonT(30), <4>1, <4>5 DEF Published, Goto
        <4>6. CASE Reply(t)
          BY ZenonT(30), <4>1, <4>6 DEF Reply, Goto
        <4> QED
          BY <2>6, <4>2, <4>3, <4>4, <4>5, <4>6, ZenonT(30)
      <3> QED
        BY <2>3, <3>1, ZenonT(30)
    <2> QED
      BY <1>4, <2>1, <2>2, <2>4, <2>5, <2>6, ZenonT(30) DEF EventStep
  <1>5. ASSUME NEW c \in Conns, Drain(c) PROVE OverflowSignalled'
    BY <1>3, <1>5, ZenonT(30) DEF Drain
  <1>6. ASSUME NEW c \in Conns, NEW s \in SubIds, QueryStep(c, s) PROVE OverflowSignalled'
    BY ZenonT(30), <1>3, <1>6 DEF QueryStep, QueryRead, QuerySend, QueryEose
  <1>7. CASE UNCHANGED vars
    BY <1>3, <1>7, ZenonT(30) DEF vars
  <1> QED
    BY ZenonT(30), <1>1, <1>2, <1>4, <1>5, <1>6, <1>7 DEF Next

\* No overflow is left without a wake-up, whatever the number of threads that record
\* drops while the connection task consumes the permit and takes the list.
THEOREM NoLostWakeup == Spec => []OverflowSignalled
  <1>1. Init => OverflowSignalled
    BY ZenonT(30) DEF Init, OverflowSignalled
  <1> QED
    BY <1>1, InitTypeInv, TypeInvStep, InitLife, LifeStep, SignalStep, PTL DEF Spec

-----------------------------------------------------------------------------
(* The kind index. *)

LEMMA IndexedExact ==
  ASSUME TypeInv, IndexExact, NEW c \in Conns, NEW key \in {AnyKind} \cup SUBSET Kinds,
         Indexed(c, key)
  PROVE  /\ any_kind' = {d \in Conns : kind_key'[d] = AnyKind}
         /\ \A k \in Kinds :
               by_kind'[k] = {d \in Conns : kind_key'[d] # AnyKind /\ k \in kind_key'[d]}
  BY DEF TypeInv, TypeOK, IndexExact, Indexed

LEMMA NewKeyType ==
  ASSUME TypeInv, NEW c \in Conns
  PROVE  NewKey(c) \in {AnyKind} \cup SUBSET Kinds
  BY ConstantsAssumption DEF TypeInv, TypeOK, NewKey, Filters, Open

\* The key of a connection whose subscriptions stay what they are.
LEMMA SameKey ==
  ASSUME NEW c \in Conns, subs'[c] = subs[c]
  PROVE  NewKey(c)' = NewKey(c)
  BY ZenonT(30) DEF NewKey, Filters, Open

LEMMA InitIndex == Init => IndexExact
  <1> SUFFICES ASSUME Init PROVE IndexExact
    BY ZenonT(30)
  <1>1. AnyKind # {}
    BY ZenonT(30), ConstantsAssumption
  <1>2. \A c \in Conns : NewKey(c) = {} /\ kind_key[c] = {}
    BY ZenonT(30) DEF Init, NewKey, Filters, Open
  <1> QED
    BY ZenonT(30), <1>1, <1>2 DEF Init, IndexExact

LEMMA IndexStep == TypeInv /\ Life /\ IndexExact /\ [Next]_vars => IndexExact'
  <1> SUFFICES ASSUME TypeInv, Life, IndexExact, [Next]_vars PROVE IndexExact'
    BY ZenonT(30)
  <1> DEFINE Rest == {"idle", "overflow", "break"}
  <1> USE DEF index, signals, connTask, queries, eventTasks, history
  <1>1. ASSUME UNCHANGED index, NEW c \in Conns,
               conn'[c] # "open" => kind_key[c] = {},
               conn'[c] = "open" /\ cpc'[c] \in Rest =>
                   kind_key[c] = NewKey(c) /\ subs'[c] = subs[c],
               \A d \in Conns \ {c} : /\ conn'[d] = conn[d] /\ cpc'[d] = cpc[d]
                                      /\ subs'[d] = subs[d]
        PROVE  IndexExact'
    BY ZenonT(30), <1>1, SameKey DEF IndexExact
  <1>2. CASE UNCHANGED <<conn, subs, index, cpc>>
    BY ZenonT(30), <1>2, SameKey DEF IndexExact
  <1>3. ASSUME NEW c \in Conns, Input(c) PROVE IndexExact'
    <2>1. CASE Register(c)
      <3>1. kind_key[c] = {} /\ NewKey(c) = {}
        <4>1. conn[c] = "new"
          BY ZenonT(30), <2>1 DEF Register
        <4>2. kind_key[c] = {}
          BY ZenonT(30), <4>1 DEF IndexExact
        <4>3. Open(c) = {}
          BY ZenonT(30), <4>1 DEF Life, Open
        <4>4. Filters(c) = {}
          BY ZenonT(30), <4>3 DEF Filters
        <4> QED
          BY ZenonT(30), <4>2, <4>4 DEF NewKey
      <3> QED
        BY <2>1, <3>1, <1>1, ZenonT(30) DEF Register, TypeInv, TypeOK
    <2>2. CASE Leave(c)
      BY <2>2, <1>1, ZenonT(30) DEF Leave, TypeInv, TypeOK, IndexExact
    <2>3. ASSUME NEW s \in SubIds, NEW filters \in Requests, Req(c, s, filters)
          PROVE  IndexExact'
      BY <2>3, <1>1, ZenonT(30) DEF Req, Frame, SubsWrite, TypeInv, TypeOK
    <2>4. ASSUME NEW s \in SubIds, Close(c, s) PROVE IndexExact'
      BY ZenonT(30), <2>4, <1>1 DEF Close, Frame, SubsWrite, TypeInv, TypeOK
    <2> QED
      BY ZenonT(30), <1>2, <1>3, <2>1, <2>2, <2>3, <2>4 DEF Input, Refuse, Receive
  <1>4. ASSUME NEW c \in Conns, ConnStep(c) PROVE IndexExact'
    <2>1. ASSUME NEW key \in {AnyKind} \cup SUBSET Kinds, Indexed(c, key), UNCHANGED subs,
                 conn'[c] = "open" => key = NewKey(c), conn'[c] # "open" => key = {},
                 \A d \in Conns \ {c} : conn'[d] = conn[d] /\ cpc'[d] = cpc[d]
          PROVE  IndexExact'
      <3>1. \A d \in Conns : kind_key'[d] = IF d = c THEN key ELSE kind_key[d]
        BY <2>1, ZenonT(30) DEF Indexed, TypeInv, TypeOK
      <3> QED
        <4>1. /\ any_kind' = {d \in Conns : kind_key'[d] = AnyKind}
              /\ \A k \in Kinds :
                    by_kind'[k] = {d \in Conns : kind_key'[d] # AnyKind /\ k \in kind_key'[d]}
          BY ZenonT(30), <2>1, IndexedExact
        <4>2. \A d \in Conns : NewKey(d)' = NewKey(d)
          BY ZenonT(30), <2>1, SameKey
        <4>3. \A d \in Conns \ {c} : kind_key'[d] = kind_key[d]
          BY <3>1, ZenonT(30)
        <4>4. \A d \in Conns \ {c} :
                 /\ conn'[d] # "open" => kind_key'[d] = {}
                 /\ conn'[d] = "open" /\ cpc'[d] \in Rest => kind_key'[d] = NewKey(d)'
          BY <2>1, <4>2, <4>3, ZenonT(30) DEF IndexExact
        <4>5. /\ conn'[c] # "open" => kind_key'[c] = {}
              /\ conn'[c] = "open" => kind_key'[c] = NewKey(c)'
          BY <2>1, <3>1, <4>2, ZenonT(30)
        <4> QED
          BY <4>1, <4>4, <4>5, ZenonT(30) DEF IndexExact
    <2>2. CASE Reindex(c)
      <3>1. conn[c] = "open"
        BY ZenonT(30), <2>2 DEF Reindex, Life
      <3>2. \A d \in Conns \ {c} : cpc'[d] = cpc[d]
        BY <2>2, ZenonT(30) DEF Reindex, TypeInv, TypeOK
      <3> QED
        BY ZenonT(30), <2>1, <2>2, <3>1, <3>2, NewKeyType DEF Reindex
    <2>3. CASE Unregister(c)
      BY <2>1, <2>3, ZenonT(30) DEF Unregister, TypeInv, TypeOK
    <2>4. CASE Overflow(c)
      BY <2>4, <1>1, ZenonT(30) DEF Overflow, TypeInv, TypeOK, IndexExact
    <2>5. CASE OverflowDone(c)
      BY <2>5, <1>1, ZenonT(30) DEF OverflowDone, TypeInv, TypeOK, IndexExact
    <2>6. ASSUME NEW s \in SubIds, CloseOverflowed(c, s) PROVE IndexExact'
      <3>1. conn[c] = "open" /\ cpc'[c] = "overflowed"
        <4>1. cpc[c] = "overflow" /\ cpc' = [cpc EXCEPT ![c] = "overflowed"]
          BY ZenonT(30), <2>6 DEF CloseOverflowed, SubsWrite
        <4>2. conn[c] = "open"
          BY <4>1, ZenonT(30) DEF Life
        <4> QED
          BY ZenonT(30), <4>1, <4>2 DEF TypeInv, TypeOK
      <3>2. UNCHANGED <<index, conn>> /\ \A d \in Conns \ {c} : cpc'[d] = cpc[d] /\ subs'[d] = subs[d]
        BY ZenonT(30), <2>6 DEF CloseOverflowed, SubsWrite, TypeInv, TypeOK
      <3> QED
        BY <3>1, <3>2, <1>1, ZenonT(30)
    <2> QED
      BY ZenonT(30), <1>4, <2>2, <2>3, <2>4, <2>5, <2>6 DEF ConnStep
  <1>5. ASSUME NEW t \in Tasks, EventStep(t) PROVE IndexExact'
    <2>1. CASE Acquire(t) \/ StoreEvent(t) \/ Route(t) \/ Notify(t)
      BY <1>2, <2>1, ZenonT(30) DEF Acquire, StoreEvent, Route, Notify
    <2>2. ASSUME NEW c \in targets[t], DeliverTo(t, c) PROVE IndexExact'
      BY <1>2, <2>2, ZenonT(30) DEF DeliverTo
    <2>3. ASSUME NEW s \in dsubs[t], Deliver(t, s) PROVE IndexExact'
      BY ZenonT(30), <1>2, <2>3 DEF Deliver
    <2>4. CASE Delivered(t) \/ Published(t) \/ Reply(t)
      BY <1>2, <2>4, ZenonT(30) DEF Delivered, Published, Reply
    <2> QED
      BY <1>5, <2>1, <2>2, <2>3, <2>4, ZenonT(30) DEF EventStep
  <1>6. ASSUME NEW c \in Conns, NEW s \in SubIds, QueryStep(c, s) PROVE IndexExact'
    <2>1. ASSUME NEW f \in unread[c][s], QueryRead(c, s, f) PROVE IndexExact'
      BY ZenonT(30), <1>2, <2>1 DEF QueryRead
    <2>2. ASSUME NEW e \in pending[c][s], QuerySend(c, s, e) PROVE IndexExact'
      BY ZenonT(30), <1>2, <2>2 DEF QuerySend
    <2>3. CASE QueryEose(c, s)
      BY ZenonT(30), <1>2, <2>3 DEF QueryEose
    <2> QED
      BY <1>6, <2>1, <2>2, <2>3, ZenonT(30) DEF QueryStep
  <1>7. ASSUME NEW c \in Conns, Drain(c) PROVE IndexExact'
    BY ZenonT(30), <1>2, <1>7 DEF Drain
  <1>8. CASE UNCHANGED vars
    BY ZenonT(30), <1>2, <1>8 DEF vars
  <1> QED
    BY ZenonT(30), <1>3, <1>4, <1>5, <1>6, <1>7, <1>8 DEF Next

\* The kind index is exact for any number of connections: no connection is routed to by
\* a key it no longer has, none is missed, and any_kind and by_kind stay disjoint.
THEOREM IndexCorrect == Spec => []IndexExact
  BY InitTypeInv, TypeInvStep, InitLife, LifeStep, InitIndex, IndexStep, PTL DEF Spec

-----------------------------------------------------------------------------
(* The limit on subscriptions. *)

LEMMA SubsStep == TypeInv /\ SubsBounded /\ [Next]_vars => SubsBounded'
  <1> SUFFICES ASSUME TypeInv, SubsBounded, [Next]_vars, NEW d \in Conns
               PROVE  Cardinality(Open(d)') <= MaxSubs
    BY ZenonT(30) DEF SubsBounded, Open
  <1> USE DEF index, signals, connTask, queries, eventTasks, history
  <1>1. /\ IsFiniteSet(Open(d)) /\ Cardinality(Open(d)) \in Nat
        /\ Cardinality(Open(d)) <= MaxSubs /\ MaxSubs \in Nat
    BY FS_Subset, FS_CardinalityType, ConstantsAssumption, ZenonT(30) DEF SubsBounded, Open
  <1>2. ASSUME Open(d)' \subseteq Open(d) PROVE Cardinality(Open(d)') <= MaxSubs
    <2>1. Cardinality(Open(d)') <= Cardinality(Open(d)) /\ IsFiniteSet(Open(d)')
      BY ZenonT(30), <1>1, <1>2, FS_Subset
    <2>2. Cardinality(Open(d)') \in Nat
      BY ZenonT(30), <2>1, FS_CardinalityType
    <2> QED
      BY <1>1, <2>1, <2>2
  <1>3. CASE UNCHANGED subs
    BY ZenonT(30), <1>2, <1>3 DEF Open
  <1>4. ASSUME NEW c \in Conns, NEW s \in SubIds, NEW filters \in Requests, Req(c, s, filters)
        PROVE  Cardinality(Open(d)') <= MaxSubs
    <2>1. Open(d)' \subseteq Open(d) \/ (c = d /\ Open(d)' = Open(d) \cup {s})
      <3>1. subs' = [subs EXCEPT ![c][s] = filters]
        BY ZenonT(30), <1>4 DEF Req, SubsWrite
      <3>2. subs \in [Conns -> [SubIds -> Requests \cup {None}]]
        BY ZenonT(30) DEF TypeInv, TypeOK
      <3>3. CASE c # d
        BY ZenonT(30), <3>1, <3>2, <3>3 DEF Open
      <3>4. CASE c = d
        <4>1. \A x \in SubIds : subs'[d][x] = IF x = s THEN filters ELSE subs[d][x]
          BY ZenonT(30), <3>1, <3>2, <3>4
        <4>2. filters # None
          BY ZenonT(30), ConstantsAssumption
        <4> QED
          BY ZenonT(30), <3>4, <4>1, <4>2 DEF Open
      <3> QED
        BY ZenonT(30), <3>3, <3>4
    <2>2. CASE c = d /\ s \notin Open(d) /\ Open(d)' = Open(d) \cup {s}
      <3>1. Cardinality(Open(d)) < MaxSubs
        BY ZenonT(30), <1>4, <2>2 DEF Req, WithinLimit
      <3>2. Cardinality(Open(d)') = Cardinality(Open(d)) + 1
        BY <1>1, <2>2, FS_AddElement, ZenonT(30)
      <3> QED
        BY <1>1, <3>1, <3>2
    <2> QED
      BY ZenonT(30), <1>2, <2>1, <2>2
  <1>5. ASSUME NEW c \in Conns, NEW s \in SubIds, Close(c, s) \/ CloseOverflowed(c, s)
        PROVE  Cardinality(Open(d)') <= MaxSubs
    <2>1. subs' = [subs EXCEPT ![c][s] = None]
      BY ZenonT(30), <1>5 DEF Close, CloseOverflowed, SubsWrite
    <2> QED
      BY ZenonT(30), <1>2, <2>1 DEF Open, TypeInv, TypeOK
  <1>6. ASSUME NEW c \in Conns, Input(c) PROVE Cardinality(Open(d)') <= MaxSubs
    BY <1>3, <1>4, <1>5, <1>6, ZenonT(30) DEF Input, Register, Leave, Refuse, Receive
  <1>7. ASSUME NEW c \in Conns, ConnStep(c) PROVE Cardinality(Open(d)') <= MaxSubs
    BY <1>3, <1>5, <1>7, ZenonT(30) DEF ConnStep, Reindex, Overflow, OverflowDone, Unregister
  <1>8. ASSUME NEW t \in Tasks, EventStep(t) PROVE Cardinality(Open(d)') <= MaxSubs
    BY <1>3, <1>8, ZenonT(30) DEF EventStep, Acquire, StoreEvent, Route, Notify, DeliverTo, Deliver,
                      Delivered, Published, Reply
  <1>9. ASSUME NEW c \in Conns, NEW s \in SubIds, QueryStep(c, s)
        PROVE  Cardinality(Open(d)') <= MaxSubs
    BY <1>3, <1>9, ZenonT(30) DEF QueryStep, QueryRead, QuerySend, QueryEose
  <1> QED
    BY ZenonT(30), <1>3, <1>6, <1>7, <1>8, <1>9 DEF Next, Drain, vars

\* The test REQ makes of has_sub and sub_count keeps every connection within
\* max_subscriptions, however its requests and overflows alternate.
THEOREM SubscriptionLimit == Spec => []SubsBounded
  <1>1. Init => SubsBounded
    <2> SUFFICES ASSUME Init, NEW c \in Conns PROVE Cardinality(Open(c)) <= MaxSubs
      BY ZenonT(30) DEF SubsBounded
    <2>1. Open(c) = {}
      BY ZenonT(30) DEF Init, Open
    <2> QED
      BY <2>1, FS_EmptySet, ConstantsAssumption
  <1> QED
    BY <1>1, InitTypeInv, TypeInvStep, SubsStep, PTL DEF Spec

-----------------------------------------------------------------------------
(* No gap between stored and live events. *)

\* Except for the subscription a request is changing, an event that an open
\* subscription matches is routed to its connection.
Routed ==
    \A c \in Conns, s \in SubIds :
        conn[c] = "open" /\ s \in Open(c) /\ csub[c] # s =>
            \A e \in Events :
                s \in Wanting(c, e) => c \in any_kind \cup by_kind[KindOf[e]]

\* How event e reaches subscription s of c: NoGap, with the subscriptions that are being
\* changed and the queries that still run.
Covered(c, s, e) ==
    \/ e \in sent[c][s]
    \/ s \in overflow[c] \cup closing[c]
    \/ \E t \in Tasks : tev[t] = e /\ InFlight(t, c, s)
    \/ csub[c] = s
    \/ query[c][s] = "run" /\ (e \in pending[c][s] \/ \E f \in unread[c][s] : Matches(f, e))

GapInv ==
    \A c \in Conns, s \in SubIds :
        conn[c] = "open" /\ s \in Open(c) =>
            \A e \in stored : s \in Wanting(c, e) => Covered(c, s, e)

\* Between requests the exact index routes whatever the subscriptions match.
RoutedAtRest ==
    \A c \in Conns, s \in SubIds, e \in Events :
        conn[c] = "open" /\ csub[c] = None /\ s \in Wanting(c, e) =>
            c \in any_kind \cup by_kind[KindOf[e]]

LEMMA RestRouted == TypeInv /\ IndexExact => RoutedAtRest
  <1> SUFFICES ASSUME TypeInv, IndexExact, NEW c \in Conns, NEW s \in SubIds, NEW e \in Events,
                      conn[c] = "open", csub[c] = None, s \in Wanting(c, e)
               PROVE  c \in any_kind \cup by_kind[KindOf[e]]
    BY ZenonT(30) DEF RoutedAtRest
  <1>1. kind_key[c] = NewKey(c)
    BY ZenonT(30) DEF TypeInv, TypeOK, Shape, IndexExact
  <1>2. PICK f \in Filters(c) : f = {} \/ KindOf[e] \in f
    BY ZenonT(30) DEF Wanting, Matches, Filters
  <1>3. CASE {} \in Filters(c)
    BY ZenonT(30), <1>1, <1>3 DEF NewKey, IndexExact
  <1>4. CASE {} \notin Filters(c)
    <2>1. KindOf[e] \in UNION Filters(c)
      BY ZenonT(30), <1>2, <1>4
    <2>2. UNION Filters(c) \in SUBSET Kinds
      <3>1. ASSUME NEW r \in Open(c) PROVE subs[c][r] \in SUBSET SUBSET Kinds
        <4>1. subs[c][r] \in Requests \cup {None}
          BY DEF TypeInv, TypeOK, Open
        <4> QED
          BY ZenonT(30), <3>1, <4>1, ConstantsAssumption DEF Open
      <3>2. Filters(c) \in SUBSET SUBSET Kinds
        <4>1. ASSUME NEW g \in Filters(c) PROVE g \in SUBSET Kinds
          <5>1. PICK r \in Open(c) : g \in subs[c][r]
            BY ZenonT(30) DEF Filters
          <5> QED
            BY ZenonT(30), <3>1, <5>1
        <4> QED
          BY ZenonT(30), <4>1
      <3> QED
        BY <3>2, ZenonT(30)
    <2>3. kind_key[c] # AnyKind /\ KindOf[e] \in kind_key[c]
      BY ZenonT(30), <1>1, <1>4, <2>1, <2>2, ConstantsAssumption DEF NewKey
    <2>4. KindOf[e] \in Kinds
      BY ConstantsAssumption, ZenonT(30)
    <2> QED
      BY ZenonT(30), <2>3, <2>4 DEF IndexExact
  <1> QED
    BY ZenonT(30), <1>3, <1>4

LEMMA RestRoutedNext == TypeInv' /\ IndexExact' => RoutedAtRest'
  BY RestRouted, PTL

\* What one step does to the subscriptions, the index entry and the task of connection d
\* when it leaves that task in the middle of a request.
LEMMA MidStep ==
  ASSUME TypeInv, Life, [Next]_vars, NEW d \in Conns, csub'[d] # None
  PROVE  /\ conn'[d] = conn[d]
         /\ csub[d] = csub'[d] \/ csub[d] = None
         /\ \A s \in SubIds : s # csub'[d] => subs'[d][s] = subs[d][s]
         /\ d \in any_kind' <=> d \in any_kind
         /\ \A k \in Kinds : d \in by_kind'[k] <=> d \in by_kind[k]
  <1> DEFINE Goal == /\ conn'[d] = conn[d]
                     /\ csub[d] = csub'[d] \/ csub[d] = None
                     /\ \A s \in SubIds : s # csub'[d] => subs'[d][s] = subs[d][s]
                     /\ d \in any_kind' <=> d \in any_kind
                     /\ \A k \in Kinds : d \in by_kind'[k] <=> d \in by_kind[k]
  <1> USE DEF index, signals, connTask, queries, eventTasks, history
  <1>1. CASE UNCHANGED <<conn, subs, index, csub>>
    BY <1>1, ZenonT(30)
  <1>2. ASSUME NEW c \in Conns, Input(c) PROVE Goal
    <2>1. CASE Register(c)
      <3>1. c # d
        BY <2>1, ConstantsAssumption, ZenonT(30) DEF Register, TypeInv, TypeOK, Shape, Life
      <3> QED
        BY ZenonT(30), <2>1, <3>1 DEF Register, TypeInv, TypeOK
    <2>2. ASSUME NEW s \in SubIds, NEW filters \in Requests \cup {None},
                 NEW l \in {"opened", "closed"}, cpc[c] = "idle", SubsWrite(c, s, filters, l), UNCHANGED <<conn, index>>
          PROVE  Goal
      <3>1. csub[c] = None
        BY <2>2, ZenonT(30) DEF TypeInv, TypeOK, Shape
      <3> QED
        BY ZenonT(30), <2>2, <3>1 DEF SubsWrite, TypeInv, TypeOK
    <2>3. ASSUME NEW s \in SubIds, NEW filters \in Requests, Req(c, s, filters) PROVE Goal
      BY ZenonT(30), <2>2, <2>3 DEF Req, Frame
    <2>4. ASSUME NEW s \in SubIds, Close(c, s) PROVE Goal
      BY <2>2, <2>4, ZenonT(30) DEF Close, Frame
    <2> QED
      BY <1>1, <1>2, <2>1, <2>3, <2>4, ZenonT(30) DEF Input, Leave, Refuse, Receive
  <1>3. ASSUME NEW c \in Conns, ConnStep(c) PROVE Goal
    <2>1. ASSUME NEW key \in {AnyKind} \cup SUBSET Kinds, Indexed(c, key), UNCHANGED subs,
                 c # d, conn'[d] = conn[d], csub'[d] = csub[d]
          PROVE  Goal
      BY <2>1, ZenonT(30) DEF Indexed
    <2>2. CASE Reindex(c)
      BY <2>1, <2>2, NewKeyType, ZenonT(30) DEF Reindex, TypeInv, TypeOK
    <2>3. CASE Unregister(c)
      <3>1. c # d
        BY <2>3, ZenonT(30) DEF Unregister, TypeInv, TypeOK, Shape
      <3> QED
        BY <2>1, <2>3, <3>1, ZenonT(30) DEF Unregister, TypeInv, TypeOK
    <2>4. ASSUME NEW s \in SubIds, CloseOverflowed(c, s) PROVE Goal
      <3>1. csub[c] = None
        BY <2>4, ZenonT(30) DEF CloseOverflowed, TypeInv, TypeOK, Shape
      <3> QED
        BY <2>4, <3>1, ZenonT(30) DEF CloseOverflowed, SubsWrite, TypeInv, TypeOK
    <2> QED
      BY <1>1, <1>3, <2>2, <2>3, <2>4, ZenonT(30) DEF ConnStep, Overflow, OverflowDone
  <1>4. ASSUME NEW t \in Tasks, EventStep(t) PROVE Goal
    BY <1>1, <1>4, ZenonT(30) DEF EventStep, Acquire, StoreEvent, Route, Notify, DeliverTo, Deliver,
                      Delivered, Published, Reply
  <1>5. ASSUME NEW c \in Conns, Drain(c) PROVE Goal
    BY ZenonT(30), <1>1, <1>5 DEF Drain
  <1>6. ASSUME NEW c \in Conns, NEW s \in SubIds, QueryStep(c, s) PROVE Goal
    BY <1>1, <1>6, ZenonT(30) DEF QueryStep, QueryRead, QuerySend, QueryEose
  <1>7. CASE UNCHANGED vars
    BY <1>1, <1>7, ZenonT(30) DEF vars
  <1> QED
    BY <1>2, <1>3, <1>4, <1>5, <1>6, <1>7, ZenonT(30) DEF Next

LEMMA RoutedStep ==
  TypeInv /\ TypeInv' /\ Life /\ IndexExact' /\ Routed /\ [Next]_vars => Routed'
  <1> SUFFICES ASSUME TypeInv, TypeInv', Life, IndexExact', Routed, [Next]_vars,
                      NEW c \in Conns, NEW s \in SubIds, NEW e \in Events,
                      conn'[c] = "open", csub'[c] # s, Wanting(c, e)' # {}, s \in Wanting(c, e)'
               PROVE  c \in any_kind' \cup by_kind'[KindOf[e]]
    BY ZenonT(30) DEF Routed
  <1>1. CASE csub'[c] = None
    BY ZenonT(30), <1>1, RestRoutedNext DEF RoutedAtRest
  <1>2. CASE csub'[c] # None
    <2>1. KindOf[e] \in Kinds /\ s # None
      BY ZenonT(30), ConstantsAssumption
    <2>2. conn[c] = "open" /\ csub[c] # s /\ subs'[c][s] = subs[c][s]
      BY ZenonT(30), <1>2, <2>1, MidStep
    <2>3. s \in Wanting(c, e) /\ s \in Open(c)
      BY ZenonT(30), <2>2 DEF Wanting, Open
    <2>4. c \in any_kind \cup by_kind[KindOf[e]]
      BY ZenonT(30), <2>2, <2>3 DEF Routed
    <2> QED
      BY ZenonT(30), <1>2, <2>1, <2>4, MidStep
  <1> QED
    BY <1>1, <1>2, ZenonT(30)

LEMMA GapStep == TypeInv /\ Life /\ Routed /\ GapInv /\ [Next]_vars => GapInv'
  <1> SUFFICES ASSUME TypeInv, Life, Routed, GapInv, [Next]_vars,
                      NEW d \in Conns, NEW r \in SubIds, NEW e \in stored',
                      conn'[d] = "open", subs'[d][r] # None,
                      \E f \in subs'[d][r] : Matches(f, e)
               PROVE  Covered(d, r, e)'
    BY ZenonT(30) DEF GapInv, Open, Wanting
  <1> DEFINE Flying(t) == tev[t] = e /\ InFlight(t, d, r)
             Querying == query[d][r] = "run" /\ (e \in pending[d][r] \/
                                                 \E f \in unread[d][r] : Matches(f, e))
  <1> USE DEF index, signals, connTask, queries, eventTasks, history
  <1>1. ASSUME conn[d] = "open", subs'[d][r] = subs[d][r], e \in stored
        PROVE  Covered(d, r, e)
    BY ZenonT(30), <1>1 DEF GapInv, Open, Wanting
  <1>2. ASSUME Covered(d, r, e),
               sent[d][r] \subseteq sent'[d][r],
               r \in overflow[d] \cup closing[d] => Covered(d, r, e)',
               \A t \in Tasks : Flying(t) => Covered(d, r, e)',
               csub[d] = r => Covered(d, r, e)',
               Querying => Covered(d, r, e)'
        PROVE  Covered(d, r, e)'
    BY <1>2, ZenonT(30) DEF Covered
  <1>3. ASSUME csub'[d] = r PROVE Covered(d, r, e)'
    BY <1>3, ZenonT(30) DEF Covered
  <1>4. ASSUME r \in overflow'[d] \cup closing'[d] PROVE Covered(d, r, e)'
    BY ZenonT(30), <1>4 DEF Covered
  <1>5. ASSUME NEW t \in Tasks, Flying(t)' PROVE Covered(d, r, e)'
    BY <1>5, ZenonT(30) DEF Covered
  <1>6. ASSUME Querying' PROVE Covered(d, r, e)'
    BY ZenonT(30), <1>6 DEF Covered
  <1>7. ASSUME e \in sent'[d][r] PROVE Covered(d, r, e)'
    BY <1>7, ZenonT(30) DEF Covered
  <1>8. ASSUME UNCHANGED <<tpc, tev, targets, dconn, dsubs>>
        PROVE  \A t \in Tasks : Flying(t) => Covered(d, r, e)'
    BY <1>5, <1>8, ZenonT(30) DEF InFlight
  <1>9. ASSUME UNCHANGED queries PROVE Querying => Covered(d, r, e)'
    BY <1>6, <1>9, ZenonT(30)
  <1>10. CASE UNCHANGED <<conn, subs, stored, sent, overflow, closing, csub, queries, tpc, tev,
                          targets, dconn, dsubs>>
    BY <1>10, <1>1, <1>2, <1>3, <1>4, <1>8, <1>9, ZenonT(30)
  <1>17. ASSUME NEW c \in Conns, NEW s \in SubIds, cpc[c] \in {"idle", "overflow"},
               csub' = [csub EXCEPT ![c] = s]
        PROVE  csub[d] # r \/ csub'[d] = r
    <2>1. csub[c] = None
      BY <1>17, ZenonT(30) DEF TypeInv, TypeOK, Shape
    <2>2. None # r
      BY ConstantsAssumption, ZenonT(30)
    <2> QED
      BY <1>17, <2>1, <2>2, ZenonT(30) DEF TypeInv, TypeOK
  <1>11. ASSUME NEW c \in Conns, Input(c) PROVE Covered(d, r, e)'
    <2>1. CASE Register(c)
      <3>1. c # d
        BY <2>1, ZenonT(30) DEF Register, Life, TypeInv, TypeOK
      <3>2. conn[d] = "open"
        BY <2>1, <3>1, ZenonT(30) DEF Register, TypeInv, TypeOK
      <3> QED
        BY <2>1, <3>2, <1>1, <1>2, <1>3, <1>4, <1>8, <1>9, ZenonT(30) DEF Register
    <2>2. ASSUME NEW s \in SubIds, NEW filters \in Requests, Req(c, s, filters)
          PROVE  Covered(d, r, e)'
      <3>1. CASE c = d /\ s = r
        BY <2>2, <3>1, <1>3, ZenonT(30) DEF Req, SubsWrite, TypeInv, TypeOK
      <3>2. CASE ~(c = d /\ s = r)
        <4>1. subs'[d][r] = subs[d][r] /\ sent'[d][r] = sent[d][r]
          BY <2>2, <3>2, ZenonT(30) DEF Req, SubsWrite, TypeInv, TypeOK
        <4>2. csub[d] # r \/ csub'[d] = r
          BY <2>2, <1>17, ZenonT(30) DEF Req, Frame, SubsWrite
        <4> QED
          BY <2>2, <4>1, <4>2, <1>1, <1>2, <1>3, <1>4, <1>8, <1>9, ZenonT(30) DEF Req
      <3> QED
        BY <3>1, <3>2, ZenonT(30)
    <2>3. ASSUME NEW s \in SubIds, Close(c, s) PROVE Covered(d, r, e)'
      <3>1. subs'[d][r] = subs[d][r]
        BY <2>3, ZenonT(30) DEF Close, SubsWrite, TypeInv, TypeOK
      <3>2. csub[d] # r \/ csub'[d] = r
        BY <2>3, <1>17, ZenonT(30) DEF Close, Frame, SubsWrite
      <3> QED
        BY <2>3, <3>1, <3>2, <1>1, <1>2, <1>3, <1>4, <1>8, <1>9, ZenonT(30) DEF Close
    <2>4. ASSUME NEW t \in Tasks, NEW g \in Events, Receive(c, t, g) PROVE Covered(d, r, e)'
      <3>1. ASSUME NEW u \in Tasks, Flying(u) PROVE Covered(d, r, e)'
        <4>1. u # t
          BY <2>4, <3>1, ZenonT(30) DEF Receive, InFlight
        <4> QED
          BY <2>4, <3>1, <4>1, <1>5, ZenonT(30) DEF Receive, Goto, InFlight, TypeInv, TypeOK
      <3> QED
        BY <2>4, <3>1, <1>1, <1>2, <1>3, <1>4, <1>9, ZenonT(30) DEF Receive
    <2> QED
      BY <1>10, <1>11, <2>1, <2>2, <2>3, <2>4, ZenonT(30) DEF Input, Leave, Refuse
  <1>12. ASSUME NEW c \in Conns, ConnStep(c) PROVE Covered(d, r, e)'
    <2>1. CASE Reindex(c)
      <3>1. CASE csub[c] = r /\ c = d
        <4>1. cpc[d] = "opened"
          BY ZenonT(30), <2>1, <3>1 DEF Reindex, TypeInv, Shape
        <4>2. query'[d][r] = "run" /\ unread'[d][r] = subs'[d][r]
          <5>1. /\ query' = [query EXCEPT ![d][r] = "run"]
                /\ unread' = [unread EXCEPT ![d][r] = subs[d][r]] /\ UNCHANGED subs
            BY ZenonT(30), <2>1, <3>1, <4>1 DEF Reindex
          <5>2. /\ query \in [Conns -> [SubIds -> {"none", "run", "done"}]]
                /\ unread \in [Conns -> [SubIds -> SUBSET SUBSET Kinds]]
            BY ZenonT(30) DEF TypeInv, TypeOK
          <5> QED
            BY <5>1, <5>2, ZenonT(30)
        <4> QED
          BY <4>2, <1>6, ZenonT(30)
      <3>2. CASE ~(csub[c] = r /\ c = d)
        <4>1. csub[d] # r \/ csub'[d] = r
          BY <2>1, <3>2, ZenonT(30) DEF Reindex, TypeInv, TypeOK
        <4>2. query'[d][r] = query[d][r] /\ unread'[d][r] = unread[d][r]
              /\ pending'[d][r] = pending[d][r]
          <5>1. \E q :
                  /\ query' = [query EXCEPT ![c][csub[c]] = q]
                  /\ pending' = [pending EXCEPT ![c][csub[c]] = {}]
            BY ZenonT(30), <2>1 DEF Reindex, Aborted
          <5>2. \E f : unread' = [unread EXCEPT ![c][csub[c]] = f]
            BY ZenonT(30), <2>1 DEF Reindex, Aborted
          <5>3. /\ query \in [Conns -> [SubIds -> {"none", "run", "done"}]]
                /\ unread \in [Conns -> [SubIds -> SUBSET SUBSET Kinds]]
                /\ pending \in [Conns -> [SubIds -> SUBSET Events]]
            BY ZenonT(30) DEF TypeInv, TypeOK
          <5>4. /\ DOMAIN query = Conns /\ DOMAIN unread = Conns /\ DOMAIN pending = Conns
                /\ DOMAIN query[d] = SubIds /\ DOMAIN unread[d] = SubIds
                /\ DOMAIN pending[d] = SubIds
            BY ZenonT(30), <5>3
          <5> HIDE <5>3
          <5>5. query'[d][r] = query[d][r]
            BY <3>2, <5>1, <5>4
          <5>6. pending'[d][r] = pending[d][r]
            BY <3>2, <5>1, <5>4
          <5>7. unread'[d][r] = unread[d][r]
            BY <3>2, <5>2, <5>4
          <5> QED
            BY ZenonT(30), <5>5, <5>6, <5>7
        <4> QED
          BY <2>1, <4>1, <4>2, <1>1, <1>2, <1>3, <1>4, <1>6, <1>8, ZenonT(30) DEF Reindex
      <3> QED
        BY <3>1, <3>2, ZenonT(30)
    <2>2. CASE Overflow(c)
      <3>1. r \in overflow[d] \cup closing[d] => r \in overflow'[d] \cup closing'[d]
        BY <2>2, ZenonT(30) DEF Overflow, TypeInv, TypeOK, Life
      <3> QED
        BY <2>2, <3>1, <1>1, <1>2, <1>3, <1>4, <1>8, <1>9, ZenonT(30) DEF Overflow
    <2>3. ASSUME NEW s \in SubIds, CloseOverflowed(c, s) PROVE Covered(d, r, e)'
      <3>1. ~(c = d /\ s = r) /\ subs'[d][r] = subs[d][r]
        BY <2>3, ZenonT(30) DEF CloseOverflowed, SubsWrite, TypeInv, TypeOK
      <3>2. csub[d] # r \/ csub'[d] = r
        BY <2>3, <1>17, ZenonT(30) DEF CloseOverflowed, SubsWrite
      <3>3. r \in overflow[d] \cup closing[d] => r \in overflow'[d] \cup closing'[d]
        BY <2>3, <3>1, ZenonT(30) DEF CloseOverflowed, TypeInv, TypeOK
      <3> QED
        BY <2>3, <3>1, <3>2, <3>3, <1>1, <1>2, <1>3, <1>4, <1>8, <1>9, ZenonT(30) DEF CloseOverflowed
    <2>4. CASE Unregister(c)
      <3>1. c # d /\ conn[d] = "open"
        BY <2>4, ZenonT(30) DEF Unregister, TypeInv, TypeOK
      <3>2. query'[d] = query[d] /\ unread'[d] = unread[d] /\ pending'[d] = pending[d]
        BY <2>4, <3>1, ZenonT(30) DEF Unregister, TypeInv, TypeOK
      <3> QED
        BY <2>4, <3>1, <3>2, <1>1, <1>2, <1>3, <1>4, <1>6, <1>8, ZenonT(30) DEF Unregister
    <2> QED
      BY <1>10, <1>12, <2>1, <2>2, <2>3, <2>4, ZenonT(30) DEF ConnStep, OverflowDone
  <1>13. ASSUME NEW c \in Conns, NEW s \in SubIds, QueryStep(c, s) PROVE Covered(d, r, e)'
    <2>1. ASSUME NEW f \in unread[c][s], QueryRead(c, s, f) PROVE Covered(d, r, e)'
      <3>1. ASSUME Querying PROVE Covered(d, r, e)'
        <4>1. CASE c = d /\ s = r
          <5>1. /\ query'[d][r] = "run" /\ unread'[d][r] = unread[d][r] \ {f}
                /\ pending[d][r] = {} /\ e \in stored
                /\ pending'[d][r] = {g \in stored : Matches(f, g)}
            BY <2>1, <4>1, <3>1, ZenonT(30) DEF QueryRead, TypeInv, TypeOK
          <5>2. PICK h \in unread[d][r] : Matches(h, e)
            BY <3>1, <5>1, ZenonT(30)
          <5>3. CASE h = f
            BY <5>1, <5>2, <5>3, <1>6, ZenonT(30)
          <5>4. CASE h # f
            BY <5>1, <5>2, <5>4, <1>6, ZenonT(30)
          <5> QED
            BY ZenonT(30), <5>3, <5>4
        <4>2. CASE ~(c = d /\ s = r)
          <5>1. query'[d][r] = query[d][r] /\ unread'[d][r] = unread[d][r]
                /\ pending'[d][r] = pending[d][r]
            BY <2>1, <4>2, ZenonT(30) DEF QueryRead, TypeInv, TypeOK
          <5> QED
            BY <3>1, <5>1, <1>6, ZenonT(30)
        <4> QED
          BY <4>1, <4>2, ZenonT(30)
      <3> QED
        BY ZenonT(30), <2>1, <3>1, <1>1, <1>2, <1>3, <1>4, <1>8 DEF QueryRead
    <2>2. ASSUME NEW g \in pending[c][s], QuerySend(c, s, g) PROVE Covered(d, r, e)'
      <3>1. sent[d][r] \subseteq sent'[d][r]
        BY <2>2, ZenonT(30) DEF QuerySend, TypeInv, TypeOK
      <3>2. ASSUME Querying PROVE Covered(d, r, e)'
        <4>1. CASE c = d /\ s = r /\ g = e
          BY <2>2, <4>1, <1>7, ZenonT(30) DEF QuerySend, TypeInv, TypeOK
        <4>2. CASE ~(c = d /\ s = r /\ g = e)
          <5>1. /\ query'[d][r] = query[d][r] /\ unread'[d][r] = unread[d][r]
                /\ e \in pending[d][r] => e \in pending'[d][r]
            BY ZenonT(30), <2>2, <4>2 DEF QuerySend, TypeInv, TypeOK
          <5> QED
            BY <3>2, <5>1, <1>6, ZenonT(30)
        <4> QED
          BY <4>1, <4>2, ZenonT(30)
      <3> QED
        BY ZenonT(30), <2>2, <3>1, <3>2, <1>1, <1>2, <1>3, <1>4, <1>8 DEF QuerySend
    <2>3. CASE QueryEose(c, s)
      <3>1. ASSUME Querying PROVE Covered(d, r, e)'
        <4>1. ~(c = d /\ s = r)
          BY ZenonT(30), <2>3, <3>1 DEF QueryEose
        <4>2. query'[d][r] = query[d][r] /\ UNCHANGED <<unread, pending>>
          BY ZenonT(30), <2>3, <4>1 DEF QueryEose, TypeInv, TypeOK
        <4> QED
          BY <3>1, <4>2, <1>6, ZenonT(30)
      <3> QED
        BY ZenonT(30), <2>3, <3>1, <1>1, <1>2, <1>3, <1>4, <1>8 DEF QueryEose
    <2> QED
      BY <1>13, <2>1, <2>2, <2>3, ZenonT(30) DEF QueryStep
  <1>14. ASSUME NEW t \in Tasks, EventStep(t) PROVE Covered(d, r, e)'
    <2> DEFINE Others == \A u \in Tasks \ {t} :
                            /\ tpc'[u] = tpc[u] /\ tev'[u] = tev[u]
                            /\ targets'[u] = targets[u] /\ dconn'[u] = dconn[u]
                            /\ dsubs'[u] = dsubs[u]
    <2>1. ASSUME Others, UNCHANGED <<conn, subs, csub, closing, queries>>, e \in stored,
                 sent[d][r] \subseteq sent'[d][r],
                 r \in overflow[d] => r \in overflow'[d],
                 Flying(t) => Covered(d, r, e)'
          PROVE  Covered(d, r, e)'
      <3>1. ASSUME NEW u \in Tasks, Flying(u) PROVE Covered(d, r, e)'
        <4>1. CASE u = t
          BY <2>1, <3>1, <4>1, ZenonT(30)
        <4>2. CASE u # t
          BY <2>1, <3>1, <4>2, <1>5, ZenonT(30) DEF InFlight
        <4> QED
          BY <4>1, <4>2, ZenonT(30)
      <3> QED
        BY <2>1, <3>1, <1>1, <1>2, <1>3, <1>4, <1>9, ZenonT(30)
    <2>2. CASE Acquire(t) \/ Published(t) \/ Reply(t)
      <3>1. Others /\ ~InFlight(t, d, r)
        BY <2>2, ZenonT(30) DEF Acquire, Published, Reply, Goto, InFlight, TypeInv, TypeOK, Shape
      <3> QED
        BY <2>1, <2>2, <3>1, ZenonT(30) DEF Acquire, Published, Reply
    <2>3. CASE StoreEvent(t)
      <3>1. Others /\ ~InFlight(t, d, r) /\ UNCHANGED tev
        BY <2>3, ZenonT(30) DEF StoreEvent, Goto, InFlight, TypeInv, TypeOK
      <3>2. CASE e \in stored
        BY <2>1, <2>3, <3>1, <3>2, ZenonT(30) DEF StoreEvent
      <3>3. CASE e \notin stored
        <4>1. tev'[t] = e /\ tpc'[t] = "route"
          BY ZenonT(30), <2>3, <3>3 DEF StoreEvent, Goto, TypeInv, TypeOK
        <4> QED
          BY <4>1, <1>5, ZenonT(30) DEF InFlight
      <3> QED
        BY ZenonT(30), <3>2, <3>3
    <2>4. CASE Route(t)
      <3>1. Others /\ UNCHANGED <<conn, subs, csub, tev, stored>> /\ tpc'[t] = "deliver"
            /\ targets'[t] = {c \in any_kind \cup by_kind[KindOf[tev[t]]] : conn[c] = "open"}
        BY <2>4, ZenonT(30) DEF Route, Goto, TypeInv, TypeOK
      <3>2. ASSUME Flying(t) PROVE Covered(d, r, e)'
        <4>1. CASE csub[d] = r
          BY ZenonT(30), <3>1, <4>1, <1>3
        <4>2. CASE csub[d] # r
          <5>1. d \in any_kind \cup by_kind[KindOf[e]]
            BY <3>1, <4>2, ZenonT(30) DEF Routed, Open, Wanting, TypeInv, TypeOK
          <5>2. d \in targets'[t] /\ tev'[t] = e
            BY <3>1, <3>2, <5>1, ZenonT(30)
          <5> QED
            BY <3>1, <5>2, <1>5, ZenonT(30) DEF InFlight
        <4> QED
          BY <4>1, <4>2, ZenonT(30)
      <3> QED
        BY <2>1, <2>4, <3>1, <3>2, ZenonT(30) DEF Route
    <2>5. CASE Notify(t)
      <3>1. Others /\ UNCHANGED <<tev, targets, dconn, dsubs>> /\ tpc'[t] = "deliver"
            /\ tpc[t] = "notify"
        BY <2>5, ZenonT(30) DEF Notify, Goto, TypeInv, TypeOK
      <3>2. Flying(t) => Covered(d, r, e)'
        BY <3>1, <1>5, ZenonT(30) DEF InFlight
      <3> QED
        BY <2>1, <2>5, <3>1, <3>2, ZenonT(30) DEF Notify
    <2>6. ASSUME NEW c \in targets[t], DeliverTo(t, c) PROVE Covered(d, r, e)'
      <3>1. /\ Others
            /\ UNCHANGED <<tpc, tev, subs>> /\ tpc[t] = "deliver" /\ dconn[t] = None
            /\ targets'[t] = targets[t] \ {c} /\ dconn'[t] = c
            /\ dsubs'[t] = Wanting(c, tev[t])
        BY <2>6, ZenonT(30) DEF DeliverTo, TypeInv, TypeOK
      <3>2. ASSUME Flying(t) PROVE Covered(d, r, e)'
        <4>1. d \in targets[t]
          BY <3>1, <3>2, ConstantsAssumption, ZenonT(30) DEF InFlight
        <4>2. CASE d = c
          <5>1. r \in dsubs'[t]
            BY <3>1, <3>2, <4>2, ZenonT(30) DEF Wanting, Open
          <5> QED
            BY <3>1, <3>2, <4>2, <5>1, <1>5, ZenonT(30) DEF InFlight
        <4>3. CASE d # c
          BY <3>1, <3>2, <4>1, <4>3, <1>5, ZenonT(30) DEF InFlight
        <4> QED
          BY <4>2, <4>3, ZenonT(30)
      <3> QED
        BY <2>1, <2>6, <3>1, <3>2, ZenonT(30) DEF DeliverTo
    <2>7. ASSUME NEW s \in dsubs[t], Deliver(t, s) PROVE Covered(d, r, e)'
      <3>1. /\ Others
            /\ UNCHANGED <<tev, targets, dconn>> /\ tpc'[t] \in {"deliver", "notify"}
            /\ dsubs'[t] = dsubs[t] \ {s} /\ dconn[t] \in Conns /\ s \in SubIds
        <4>1. /\ tpc[t] = "deliver" /\ UNCHANGED <<tev, targets, dconn>>
              /\ tpc' = tpc \/ tpc' = [tpc EXCEPT ![t] = "notify"]
              /\ dsubs' = [dsubs EXCEPT ![t] = @ \ {s}]
          BY ZenonT(30), <2>7 DEF Deliver, Goto
        <4>2. DOMAIN tpc = Tasks /\ dsubs \in [Tasks -> SUBSET SubIds]
          BY ZenonT(30) DEF TypeInv, TypeOK
        <4>3. dconn[t] \in Conns
          BY <2>7, ZenonT(30) DEF TypeInv, TypeOK, Shape
        <4> QED
          BY <2>7, <4>1, <4>2, <4>3, ZenonT(30)
      <3>2. /\ sent[d][r] \subseteq sent'[d][r]
            /\ r \in overflow[d] => r \in overflow'[d]
        <4>1. \/ overflow' = overflow
              \/ overflow' = [overflow EXCEPT ![dconn[t]] = @ \cup {s}]
          BY ZenonT(30), <2>7 DEF Deliver
        <4>2. \/ sent' = sent
              \/ sent' = [sent EXCEPT ![dconn[t]][s] = @ \cup {tev[t]}]
          BY ZenonT(30), <2>7 DEF Deliver
        <4>3. sent[d][r] \subseteq sent'[d][r]
          <5>1. dconn[t] \in Conns /\ s \in SubIds /\ sent \in [Conns -> [SubIds -> SUBSET Events]]
            BY <3>1, ZenonT(30) DEF TypeInv, TypeOK
          <5>2. CASE sent' = [sent EXCEPT ![dconn[t]][s] = @ \cup {tev[t]}]
            <6>1. sent'[d][r] = sent[d][r] \/ sent'[d][r] = sent[d][r] \cup {tev[t]}
              BY ZenonT(30), <5>1, <5>2
            <6> QED
              BY <6>1, ZenonT(30)
          <5> QED
            BY ZenonT(30), <4>2, <5>2
        <4>4. r \in overflow[d] => r \in overflow'[d]
          <5>1. dconn[t] \in Conns /\ overflow \in [Conns -> SUBSET SubIds]
            BY <3>1, ZenonT(30) DEF TypeInv, TypeOK
          <5> QED
            BY ZenonT(30), <4>1, <5>1
        <4> QED
          BY <4>3, <4>4, ZenonT(30)
      <3>3. dconn[t] = d /\ s = r => tev[t] \in sent'[d][r] \/ r \in overflow'[d]
        <4>1. \/ sent' = [sent EXCEPT ![dconn[t]][s] = @ \cup {tev[t]}]
              \/ overflow' = [overflow EXCEPT ![dconn[t]] = @ \cup {s}]
          BY ZenonT(30), <2>7 DEF Deliver
        <4>2. /\ sent \in [Conns -> [SubIds -> SUBSET Events]]
              /\ overflow \in [Conns -> SUBSET SubIds]
          BY ZenonT(30) DEF TypeInv, TypeOK
        <4>3. CASE sent' = [sent EXCEPT ![dconn[t]][s] = @ \cup {tev[t]}]
          BY <4>2, <4>3, ZenonT(30)
        <4>4. CASE overflow' = [overflow EXCEPT ![dconn[t]] = @ \cup {s}]
          BY <4>2, <4>4, ZenonT(30)
        <4> QED
          BY ZenonT(30), <4>1, <4>3, <4>4
      <3>4. ASSUME Flying(t) PROVE Covered(d, r, e)'
        <4>1. CASE dconn[t] = d /\ s = r
          BY <3>3, <3>4, <4>1, <1>4, <1>7, ZenonT(30)
        <4>2. CASE ~(dconn[t] = d /\ s = r)
          <5>1. tpc[t] = "deliver"
            BY ZenonT(30), <2>7 DEF Deliver
          <5> QED
            BY <3>1, <3>4, <4>2, <5>1, <1>5, ZenonT(30) DEF InFlight
        <4> QED
          BY ZenonT(30), <4>1, <4>2
      <3> QED
        BY <2>1, <2>7, <3>1, <3>2, <3>4, ZenonT(30) DEF Deliver
    <2>8. CASE Delivered(t)
      <3>1. /\ Others
            /\ UNCHANGED <<tpc, tev, targets, dsubs>> /\ dsubs[t] = {}
        BY <2>8, ZenonT(30) DEF Delivered, TypeInv, TypeOK
      <3>2. Flying(t) => Covered(d, r, e)'
        BY <3>1, <1>5, ZenonT(30) DEF InFlight
      <3> QED
        BY <2>1, <2>8, <3>1, <3>2, ZenonT(30) DEF Delivered
    <2> QED
      BY <1>14, <2>2, <2>3, <2>4, <2>5, <2>6, <2>7, <2>8, ZenonT(30) DEF EventStep
  <1>15. ASSUME NEW c \in Conns, Drain(c) PROVE Covered(d, r, e)'
    BY <1>10, <1>15, ZenonT(30) DEF Drain
  <1>16. CASE UNCHANGED vars
    BY <1>10, <1>16, ZenonT(30) DEF vars
  <1> QED
    BY <1>11, <1>12, <1>13, <1>14, <1>15, <1>16, ZenonT(30) DEF Next

\* There is no gap between the stored events a REQ returns and the live events that
\* follow, for any number of connections, subscriptions, filters and EVENT tasks.
THEOREM GapFree == Spec => []NoGap
  <1> DEFINE IInv == TypeInv /\ Life /\ IndexExact /\ Routed /\ GapInv
  <1>1. Init => Routed /\ GapInv
    BY ZenonT(30) DEF Init, Routed, GapInv, Open
  <1>2. IInv => NoGap
    <2> SUFFICES ASSUME IInv, NEW c \in Conns, NEW s \in SubIds, NEW e \in stored,
                        conn[c] = "open", s \in Open(c), query[c][s] = "done", csub[c] # s,
                        s \in Wanting(c, e)
                 PROVE  \/ e \in sent[c][s]
                        \/ s \in overflow[c] \cup closing[c]
                        \/ \E t \in Tasks : tev[t] = e /\ InFlight(t, c, s)
      BY ZenonT(30) DEF NoGap
    <2>1. Covered(c, s, e)
      BY ZenonT(30) DEF GapInv
    <2> QED
      BY <2>1, ZenonT(30) DEF Covered
  <1>3. IInv /\ [Next]_vars => IInv'
    BY ZenonT(30), TypeInvStep, LifeStep, IndexStep, RoutedStep, GapStep
  <1>4. Init => IInv
    BY ZenonT(30), <1>1, InitTypeInv, InitLife, InitIndex
  <1> QED
    BY <1>2, <1>3, <1>4, PTL DEF Spec

=============================================================================
