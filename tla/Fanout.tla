------------------------------- MODULE Fanout -------------------------------
(***************************************************************************)
(* Live delivery (src/src/fanout.rs) and the tasks of a connection that    *)
(* meet in it (handle_socket and process_event_message, src/src/relay.rs). *)
(*                                                                         *)
(* A connection task handles REQ, CLOSE and overflow signals one at a      *)
(* time.  Each REQ has a query task that sends the stored events.  Each    *)
(* EVENT has a task that stores the event, looks the interested            *)
(* connections up in the kind index and delivers to them.  They share the  *)
(* index, each connection's subscriptions and its bounded send queue.      *)
(*                                                                         *)
(* The store is the set of stored events: nothing is evicted or deleted    *)
(* here, and no filter reaches its limit.                                  *)
(***************************************************************************)
EXTENDS Integers, FiniteSets

CONSTANTS
    Conns,        \* the connections; each opens once
    SubIds,       \* the subscription ids a client uses
    Tasks,        \* the EVENT tasks
    Events,       \* the events
    Kinds,        \* the event kinds
    KindOf,       \* KindOf[e]: the kind of e
    Ephemeral,    \* the events that are routed and not stored
    Requests,     \* what a REQ may ask for: a set of filters, a filter being the
                  \* set of kinds it names ({} if it names none)
    AnyKind,      \* KindKey::Any
    None,         \* no subscription, no connection, no event
    QueueCap,     \* CONN_SEND_CAP
    MaxSubs,      \* config.max_subscriptions
    MaxDrops,     \* MAX_DROPS_PER_WINDOW
    Permits,      \* the permits of the verification semaphore
    MaxFrames     \* bound: REQ, CLOSE and EVENT frames

ASSUME ConstantsAssumption ==
    /\ IsFiniteSet(SubIds) /\ IsFiniteSet(Tasks)
    /\ KindOf \in [Events -> Kinds]
    /\ Ephemeral \subseteq Events
    /\ Requests \subseteq SUBSET SUBSET Kinds
    /\ \A K \in SUBSET Kinds : AnyKind # K
    /\ \A r \in Requests : None # r
    /\ None \notin Conns \cup Events \cup SubIds
    /\ {QueueCap, MaxSubs, Permits} \subseteq Nat \ {0}
    /\ MaxDrops \in Nat /\ MaxFrames \in Nat

VARIABLES
    conn,         \* "new", "open" (registered) or "gone"
    subs,         \* ConnState.subs: the filters of each subscription, or None
    kind_key,     \* ConnState.kind_key: AnyKind, or the kinds ({} for KindKey::None)
    by_kind,      \* Index.by_kind
    any_kind,     \* Index.any_kind
    overflow,     \* ConnState.overflow
    notified,     \* the stored permit of ConnState.notify
    kill,         \* ConnState.kill
    drops,        \* the drops in ConnState.drop_window
    queue,        \* how many messages wait in the send queue
    cpc,          \* the step the connection task takes next
    csub,         \* the subscription it works on
    closing,      \* the overflowed subscriptions it still has to close
    query,        \* the query task of each subscription: "none", "run" or "done"
    unread,       \* the filters it has not queried yet
    pending,      \* the events its last query found that it still has to send
    stored,       \* the events in the store
    tpc,          \* the step each EVENT task takes next
    tev,          \* its event
    tconn,        \* the connection its event came from
    targets,      \* the connections it still has to deliver to
    dconn,        \* the connection it delivers to, whose subs it holds locked
    dsubs,        \* the matching subscriptions there it has not come to yet
    sent,         \* history: events queued for a subscription since its REQ
    told,         \* history: subscriptions whose end the client asked for or was told
    frames        \* the bounded counter

index == <<kind_key, by_kind, any_kind>>
signals == <<overflow, notified, kill, drops>>
connTask == <<cpc, csub, closing>>
queries == <<query, unread, pending>>
eventTasks == <<tpc, tev, tconn, targets, dconn, dsubs>>
history == <<sent, told>>
vars == <<conn, subs, index, signals, queue, connTask, queries, stored, eventTasks,
          history, frames>>

TypeOK ==
    /\ conn \in [Conns -> {"new", "open", "gone"}]
    /\ subs \in [Conns -> [SubIds -> Requests \cup {None}]]
    /\ kind_key \in [Conns -> {AnyKind} \cup SUBSET Kinds]
    /\ by_kind \in [Kinds -> SUBSET Conns]
    /\ any_kind \subseteq Conns
    /\ overflow \in [Conns -> SUBSET SubIds]
    /\ notified \in [Conns -> BOOLEAN] /\ kill \in [Conns -> BOOLEAN]
    /\ drops \in [Conns -> 0 .. MaxDrops + 1]
    /\ queue \in [Conns -> 0 .. QueueCap]
    /\ cpc \in [Conns -> {"idle", "opened", "closed", "overflow", "overflowed", "break"}]
    /\ csub \in [Conns -> SubIds \cup {None}]
    /\ closing \in [Conns -> SUBSET SubIds]
    /\ query \in [Conns -> [SubIds -> {"none", "run", "done"}]]
    /\ unread \in [Conns -> [SubIds -> SUBSET SUBSET Kinds]]
    /\ pending \in [Conns -> [SubIds -> SUBSET Events]]
    /\ stored \subseteq Events
    /\ tpc \in [Tasks -> {"idle", "wait", "store", "route", "deliver", "notify", "reply"}]
    /\ tev \in [Tasks -> Events \cup {None}]
    /\ tconn \in [Tasks -> Conns \cup {None}]
    /\ targets \in [Tasks -> SUBSET Conns]
    /\ dconn \in [Tasks -> Conns \cup {None}]
    /\ dsubs \in [Tasks -> SUBSET SubIds]
    /\ sent \in [Conns -> [SubIds -> SUBSET Events]]
    /\ told \in [Conns -> SUBSET SubIds]
    /\ frames \in 0 .. MaxFrames

Init ==
    /\ conn = [c \in Conns |-> "new"]
    /\ subs = [c \in Conns |-> [s \in SubIds |-> None]]
    /\ kind_key = [c \in Conns |-> {}]
    /\ by_kind = [k \in Kinds |-> {}] /\ any_kind = {}
    /\ overflow = [c \in Conns |-> {}]
    /\ notified = [c \in Conns |-> FALSE] /\ kill = [c \in Conns |-> FALSE]
    /\ drops = [c \in Conns |-> 0] /\ queue = [c \in Conns |-> 0]
    /\ cpc = [c \in Conns |-> "idle"] /\ csub = [c \in Conns |-> None]
    /\ closing = [c \in Conns |-> {}]
    /\ query = [c \in Conns |-> [s \in SubIds |-> "none"]]
    /\ unread = [c \in Conns |-> [s \in SubIds |-> {}]]
    /\ pending = [c \in Conns |-> [s \in SubIds |-> {}]]
    /\ stored = {}
    /\ tpc = [t \in Tasks |-> "idle"] /\ tev = [t \in Tasks |-> None]
    /\ tconn = [t \in Tasks |-> None] /\ targets = [t \in Tasks |-> {}]
    /\ dconn = [t \in Tasks |-> None] /\ dsubs = [t \in Tasks |-> {}]
    /\ sent = [c \in Conns |-> [s \in SubIds |-> {}]]
    /\ told = [c \in Conns |-> SubIds]
    /\ frames = 0

-----------------------------------------------------------------------------
(* Filters, keys and the send queue.  A definition whose name ends in Bug is a *)
(* faulty variant of the one after it: Spec does not use it, and each shows    *)
(* that a property below notices the fault.                                    *)

\* What a filter's kinds say of an event; its other conditions are abstracted away.
Matches(f, e) == f = {} \/ KindOf[e] \in f

Open(c) == {s \in SubIds : subs[c][s] # None}

Filters(c) == UNION {subs[c][s] : s \in Open(c)}

\* The key reindex computes; the variant overlooks the filters that name no kind.
NewKeyBug(c) == UNION Filters(c)

NewKey(c) == IF {} \in Filters(c) THEN AnyKind ELSE UNION Filters(c)

\* Index.deindex and then Index.index, under the write lock on the index.
\* The variant leaves the kinds of the old key behind.
IndexedBug(c, key) ==
    /\ kind_key' = [kind_key EXCEPT ![c] = key]
    /\ any_kind' = (any_kind \ {c}) \cup (IF key = AnyKind THEN {c} ELSE {})
    /\ by_kind' = [k \in Kinds |-> by_kind[k] \cup
                                   (IF key # AnyKind /\ k \in key THEN {c} ELSE {})]

Indexed(c, key) ==
    /\ kind_key' = [kind_key EXCEPT ![c] = key]
    /\ any_kind' = (any_kind \ {c}) \cup (IF key = AnyKind THEN {c} ELSE {})
    /\ by_kind' = [k \in Kinds |-> (by_kind[k] \ {c}) \cup
                                   (IF key # AnyKind /\ k \in key THEN {c} ELSE {})]

HasRoom(c) == conn[c] = "open" /\ queue[c] < QueueCap

Enqueue(c) == queue' = [queue EXCEPT ![c] = @ + 1]

\* The variant queues without looking at the capacity.
TrySendBug(c) == IF conn[c] = "open" THEN Enqueue(c) ELSE UNCHANGED queue

TrySend(c) == IF HasRoom(c) THEN Enqueue(c) ELSE UNCHANGED queue

\* The sender task takes a message off the queue and the client's socket accepts it.
Drain(c) ==
    /\ conn[c] = "open" /\ queue[c] > 0
    /\ queue' = [queue EXCEPT ![c] = @ - 1]
    /\ UNCHANGED <<conn, subs, index, signals, connTask, queries, stored, eventTasks,
                   history, frames>>

-----------------------------------------------------------------------------
(* The connection task. *)

Register(c) ==
    /\ conn[c] = "new"
    /\ conn' = [conn EXCEPT ![c] = "open"]
    /\ UNCHANGED <<subs, index, signals, queue, connTask, queries, stored, eventTasks,
                   history, frames>>

Frame(c) ==
    /\ conn[c] = "open" /\ cpc[c] = "idle"
    /\ frames < MaxFrames /\ frames' = frames + 1

\* No EVENT task holds the read lock that deliver keeps on the subscriptions.
SubsUnlocked(c) == \A t \in Tasks : dconn[t] # c

SubsWrite(c, s, filters, next) ==
    /\ SubsUnlocked(c)
    /\ subs' = [subs EXCEPT ![c][s] = filters]
    /\ cpc' = [cpc EXCEPT ![c] = next]
    /\ csub' = [csub EXCEPT ![c] = s]

\* A new id is refused at the limit; an id in use is replaced.
WithinLimitBug(c, s) == Cardinality(Open(c)) <= MaxSubs

WithinLimit(c, s) == s \in Open(c) \/ Cardinality(Open(c)) < MaxSubs

\* REQ: set_sub replaces the filters (the index follows in Reindex).
Req(c, s, filters) ==
    /\ Frame(c) /\ WithinLimit(c, s)
    /\ SubsWrite(c, s, filters, "opened")
    /\ sent' = [sent EXCEPT ![c][s] = {}]
    /\ told' = [told EXCEPT ![c] = @ \ {s}]
    /\ UNCHANGED <<conn, index, signals, queue, closing, queries, stored, eventTasks>>

\* A frame that is refused with a NOTICE: over the limit, too long, unparsable.
Refuse(c) ==
    /\ Frame(c) /\ TrySend(c)
    /\ UNCHANGED <<conn, subs, index, signals, connTask, queries, stored, eventTasks,
                   history>>

\* CLOSE: remove_sub.
Close(c, s) ==
    /\ Frame(c)
    /\ SubsWrite(c, s, None, "closed")
    /\ told' = [told EXCEPT ![c] = @ \cup {s}]
    /\ UNCHANGED <<conn, index, signals, queue, closing, queries, stored, eventTasks, sent>>

\* The abort of the task of subscription s.
Aborted(c, s) ==
    /\ query' = [query EXCEPT ![c][s] = "none"]
    /\ unread' = [unread EXCEPT ![c][s] = {}]
    /\ pending' = [pending EXCEPT ![c][s] = {}]

\* The index follows the subscriptions; then REQ aborts the old task and spawns the
\* new one, CLOSE aborts the task, and the overflow handler aborts it and queues CLOSED.
Reindex(c) ==
    /\ cpc[c] \in {"opened", "closed", "overflowed"}
    /\ Indexed(c, NewKey(c))
    /\ \/ /\ cpc[c] = "opened"
          /\ query' = [query EXCEPT ![c][csub[c]] = "run"]
          /\ unread' = [unread EXCEPT ![c][csub[c]] = subs[c][csub[c]]]
          /\ pending' = [pending EXCEPT ![c][csub[c]] = {}]
          /\ cpc' = [cpc EXCEPT ![c] = "idle"]
          /\ UNCHANGED <<queue, told>>
       \/ /\ cpc[c] = "closed"
          /\ Aborted(c, csub[c])
          /\ cpc' = [cpc EXCEPT ![c] = "idle"]
          /\ UNCHANGED <<queue, told>>
       \/ /\ cpc[c] = "overflowed"
          /\ Aborted(c, csub[c])
          /\ TrySend(c)
          /\ told' = [told EXCEPT ![c] = IF HasRoom(c) THEN @ \cup {csub[c]} ELSE @]
          /\ cpc' = [cpc EXCEPT ![c] = "overflow"]
    /\ csub' = [csub EXCEPT ![c] = None]
    /\ UNCHANGED <<conn, subs, signals, closing, stored, eventTasks, sent, frames>>

\* The notified branch of the select loop: consume the permit, take the overflow.
Overflow(c) ==
    /\ conn[c] = "open" /\ cpc[c] = "idle" /\ notified[c]
    /\ notified' = [notified EXCEPT ![c] = FALSE]
    /\ closing' = [closing EXCEPT ![c] = overflow[c]]
    /\ overflow' = [overflow EXCEPT ![c] = {}]
    /\ cpc' = [cpc EXCEPT ![c] = "overflow"]
    /\ UNCHANGED <<conn, subs, index, kill, drops, queue, csub, queries, stored,
                   eventTasks, history, frames>>

CloseOverflowed(c, s) ==
    /\ cpc[c] = "overflow" /\ s \in closing[c]
    /\ SubsWrite(c, s, None, "overflowed")
    /\ closing' = [closing EXCEPT ![c] = @ \ {s}]
    /\ UNCHANGED <<conn, index, signals, queue, queries, stored, eventTasks, history, frames>>

\* The variant clears the permit only now, with a signal that came in meanwhile.
OverflowDoneBug(c) ==
    /\ cpc[c] = "overflow" /\ closing[c] = {}
    /\ cpc' = [cpc EXCEPT ![c] = IF kill[c] THEN "break" ELSE "idle"]
    /\ notified' = [notified EXCEPT ![c] = FALSE]
    /\ UNCHANGED <<conn, subs, index, overflow, kill, drops, queue, csub, closing, queries,
                   stored, eventTasks, history, frames>>

OverflowDone(c) ==
    /\ cpc[c] = "overflow" /\ closing[c] = {}
    /\ cpc' = [cpc EXCEPT ![c] = IF kill[c] THEN "break" ELSE "idle"]
    /\ UNCHANGED <<conn, subs, index, signals, queue, csub, closing, queries, stored,
                   eventTasks, history, frames>>

\* The other ways out of the loop: the client leaves, the idle reaper, a failed sender.
Leave(c) ==
    /\ conn[c] = "open" /\ cpc[c] = "idle"
    /\ cpc' = [cpc EXCEPT ![c] = "break"]
    /\ UNCHANGED <<conn, subs, index, signals, queue, csub, closing, queries, stored,
                   eventTasks, history, frames>>

\* unregister, then the abort of the query tasks and of the sender.
Unregister(c) ==
    /\ conn[c] = "open" /\ cpc[c] = "break"
    /\ conn' = [conn EXCEPT ![c] = "gone"]
    /\ Indexed(c, {})
    /\ query' = [query EXCEPT ![c] = [s \in SubIds |-> "none"]]
    /\ unread' = [unread EXCEPT ![c] = [s \in SubIds |-> {}]]
    /\ pending' = [pending EXCEPT ![c] = [s \in SubIds |-> {}]]
    /\ UNCHANGED <<subs, signals, queue, connTask, stored, eventTasks, history, frames>>

-----------------------------------------------------------------------------
(* The query task of a REQ.  Its sends wait for room in the queue. *)

\* query_filter returns the stored events that match one filter.
QueryRead(c, s, f) ==
    /\ query[c][s] = "run" /\ pending[c][s] = {} /\ f \in unread[c][s]
    /\ unread' = [unread EXCEPT ![c][s] = @ \ {f}]
    /\ pending' = [pending EXCEPT ![c][s] = {e \in stored : Matches(f, e)}]
    /\ UNCHANGED <<conn, subs, index, signals, queue, connTask, query, stored, eventTasks,
                   history, frames>>

QuerySend(c, s, e) ==
    /\ query[c][s] = "run" /\ e \in pending[c][s]
    /\ HasRoom(c) /\ Enqueue(c)
    /\ pending' = [pending EXCEPT ![c][s] = @ \ {e}]
    /\ sent' = [sent EXCEPT ![c][s] = @ \cup {e}]
    /\ UNCHANGED <<conn, subs, index, signals, connTask, query, unread, stored, eventTasks,
                   told, frames>>

QueryEose(c, s) ==
    /\ query[c][s] = "run" /\ pending[c][s] = {} /\ unread[c][s] = {}
    /\ HasRoom(c) /\ Enqueue(c)
    /\ query' = [query EXCEPT ![c][s] = "done"]
    /\ UNCHANGED <<conn, subs, index, signals, connTask, unread, pending, stored,
                   eventTasks, history, frames>>

-----------------------------------------------------------------------------
(* The task of an EVENT. *)

Goto(t, l) == tpc' = [tpc EXCEPT ![t] = l]

Receive(c, t, e) ==
    /\ Frame(c) /\ tpc[t] = "idle"
    /\ Goto(t, "wait")
    /\ tev' = [tev EXCEPT ![t] = e]
    /\ tconn' = [tconn EXCEPT ![t] = c]
    /\ UNCHANGED <<conn, subs, index, signals, queue, connTask, queries, stored, targets,
                   dconn, dsubs, history>>

\* The permit is held from here until the reply is queued.
Holding == {t \in Tasks : tpc[t] \notin {"idle", "wait"}}

Acquire(t) ==
    /\ tpc[t] = "wait" /\ Cardinality(Holding) < Permits
    /\ Goto(t, "store")
    /\ UNCHANGED <<conn, subs, index, signals, queue, connTask, queries, stored, tev, tconn,
                   targets, dconn, dsubs, history, frames>>

\* store.insert: a duplicate is not routed again.
StoreEvent(t) ==
    /\ tpc[t] = "store"
    /\ \/ tev[t] \in Ephemeral /\ Goto(t, "route") /\ UNCHANGED stored
       \/ tev[t] \in stored /\ Goto(t, "reply") /\ UNCHANGED stored
       \/ /\ tev[t] \notin Ephemeral \cup stored
          /\ Goto(t, "route")
          /\ stored' = stored \cup {tev[t]}
    /\ UNCHANGED <<conn, subs, index, signals, queue, connTask, queries, tev, tconn, targets,
                   dconn, dsubs, history, frames>>

\* publish: the connections that may want the event, read under the index lock.
Route(t) ==
    /\ tpc[t] = "route"
    /\ targets' = [targets EXCEPT ![t] =
                    {c \in any_kind \cup by_kind[KindOf[tev[t]]] : conn[c] = "open"}]
    /\ Goto(t, "deliver")
    /\ UNCHANGED <<conn, subs, index, signals, queue, connTask, queries, stored, tev, tconn,
                   dconn, dsubs, history, frames>>

Wanting(c, e) == {s \in Open(c) : \E f \in subs[c][s] : Matches(f, e)}

\* deliver takes the read lock on the subscriptions of the next target.
DeliverTo(t, c) ==
    /\ tpc[t] = "deliver" /\ dconn[t] = None /\ c \in targets[t]
    /\ targets' = [targets EXCEPT ![t] = @ \ {c}]
    /\ dconn' = [dconn EXCEPT ![t] = c]
    /\ dsubs' = [dsubs EXCEPT ![t] = Wanting(c, tev[t])]
    /\ UNCHANGED <<conn, subs, index, signals, queue, connTask, queries, stored, tpc, tev,
                   tconn, history, frames>>

\* try_send to one subscription; if it fails, record_drop first queues it for closing.
Deliver(t, s) ==
    LET c == dconn[t] IN
    /\ tpc[t] = "deliver" /\ s \in dsubs[t]
    /\ dsubs' = [dsubs EXCEPT ![t] = @ \ {s}]
    /\ \/ /\ HasRoom(c) /\ Enqueue(c)
          /\ sent' = [sent EXCEPT ![c][s] = @ \cup {tev[t]}]
          /\ UNCHANGED <<overflow, tpc>>
       \/ /\ ~HasRoom(c)
          /\ overflow' = [overflow EXCEPT ![c] = @ \cup {s}]
          /\ Goto(t, "notify")
          /\ UNCHANGED <<queue, sent>>
    /\ UNCHANGED <<conn, subs, index, notified, kill, drops, connTask, queries, stored, tev,
                   tconn, targets, dconn, told, frames>>

\* The rest of record_drop: count the drop, in a new window or in this one (saturating
\* past the limit), decide whether to disconnect the peer, and wake its task.
Notify(t) ==
    LET c == dconn[t] IN
    /\ tpc[t] = "notify"
    /\ \/ drops' = [drops EXCEPT ![c] = 1] /\ UNCHANGED kill
       \/ /\ drops' = [drops EXCEPT ![c] = IF @ > MaxDrops THEN @ ELSE @ + 1]
          /\ kill' = [kill EXCEPT ![c] = @ \/ drops'[c] > MaxDrops]
    /\ notified' = [notified EXCEPT ![c] = TRUE]
    /\ Goto(t, "deliver")
    /\ UNCHANGED <<conn, subs, index, overflow, queue, connTask, queries, stored, tev, tconn,
                   targets, dconn, dsubs, history, frames>>

\* The read lock is released.
Delivered(t) ==
    /\ tpc[t] = "deliver" /\ dconn[t] # None /\ dsubs[t] = {}
    /\ dconn' = [dconn EXCEPT ![t] = None]
    /\ UNCHANGED <<conn, subs, index, signals, queue, connTask, queries, stored, tpc, tev,
                   tconn, targets, dsubs, history, frames>>

Published(t) ==
    /\ tpc[t] = "deliver" /\ dconn[t] = None /\ targets[t] = {}
    /\ Goto(t, "reply")
    /\ UNCHANGED <<conn, subs, index, signals, queue, connTask, queries, stored, tev, tconn,
                   targets, dconn, dsubs, history, frames>>

\* The OK waits for room in the queue, or fails once the connection is gone.  The variant
\* waits for ever on a connection that is gone.
CanReplyBug(c) == queue[c] < QueueCap

CanReply(c) == conn[c] = "gone" \/ queue[c] < QueueCap

Reply(t) ==
    /\ tpc[t] = "reply" /\ CanReply(tconn[t])
    /\ TrySend(tconn[t])
    /\ Goto(t, "idle")
    /\ UNCHANGED <<conn, subs, index, signals, connTask, queries, stored, tev, tconn,
                   targets, dconn, dsubs, history, frames>>

-----------------------------------------------------------------------------
ConnStep(c) ==
    \/ Reindex(c) \/ Overflow(c) \/ OverflowDone(c) \/ Unregister(c)
    \/ \E s \in SubIds : CloseOverflowed(c, s)

Input(c) ==
    \/ Register(c) \/ Leave(c) \/ Refuse(c)
    \/ \E s \in SubIds, filters \in Requests : Req(c, s, filters)
    \/ \E s \in SubIds : Close(c, s)
    \/ \E t \in Tasks, e \in Events : Receive(c, t, e)

QueryStep(c, s) ==
    \/ \E f \in unread[c][s] : QueryRead(c, s, f)
    \/ \E e \in pending[c][s] : QuerySend(c, s, e)
    \/ QueryEose(c, s)

EventStep(t) ==
    \/ Acquire(t) \/ StoreEvent(t) \/ Route(t) \/ Notify(t)
    \/ \E c \in targets[t] : DeliverTo(t, c)
    \/ \E s \in dsubs[t] : Deliver(t, s)
    \/ Delivered(t) \/ Published(t) \/ Reply(t)

Next ==
    \/ \E c \in Conns : Input(c) \/ ConnStep(c) \/ Drain(c)
    \/ \E c \in Conns, s \in SubIds : QueryStep(c, s)
    \/ \E t \in Tasks : EventStep(t)

Spec == Init /\ [][Next]_vars

\* Every task runs on.  Nothing is asked of a client: one that stops reading keeps its
\* queue full for ever.  Queued senders are served in turn by the channel and the
\* semaphore, hence strong fairness for the tasks that wait for room or for a permit.
Fairness ==
    /\ \A c \in Conns : WF_vars(ConnStep(c))
    /\ \A c \in Conns, s \in SubIds : SF_vars(QueryStep(c, s))
    /\ \A t \in Tasks : SF_vars(EventStep(t))

FairSpec == Spec /\ Fairness

-----------------------------------------------------------------------------
(* Properties. *)

\* The kind index holds a connection under exactly its kind key, a connection that is
\* not open under none, and between requests the key is the one its subscriptions call
\* for (reindex, unregister; publish relies on any_kind and by_kind being disjoint).
IndexExact ==
    /\ any_kind = {c \in Conns : kind_key[c] = AnyKind}
    /\ \A k \in Kinds : by_kind[k] = {c \in Conns : kind_key[c] # AnyKind /\ k \in kind_key[c]}
    /\ \A c \in Conns : conn[c] # "open" => kind_key[c] = {}
    /\ \A c \in Conns : conn[c] = "open" /\ cpc[c] \in {"idle", "overflow", "break"}
                        => kind_key[c] = NewKey(c)

\* Task t has yet to bring its event to subscription s of c.
InFlight(t, c, s) ==
    \/ tpc[t] = "route"
    \/ tpc[t] \in {"deliver", "notify"} /\ (c \in targets[t] \/ (dconn[t] = c /\ s \in dsubs[t]))

\* Once a subscription has had its EOSE, every stored event that matches it has been
\* queued for it, by the query or live, or is on its way to it, unless the subscription
\* overflowed and is about to be closed: storing before publishing, and subscribing
\* before querying, leave no gap between stored and live events (handle_socket,
\* process_event_message).
NoGap ==
    \A c \in Conns, s \in SubIds :
        conn[c] = "open" /\ s \in Open(c) /\ query[c][s] = "done" /\ csub[c] # s =>
            \A e \in stored :
                s \in Wanting(c, e) =>
                    \/ e \in sent[c][s]
                    \/ s \in overflow[c] \cup closing[c]
                    \/ \E t \in Tasks : tev[t] = e /\ InFlight(t, c, s)

\* An overflow is never left without a wake-up: the connection task has a stored permit,
\* or the thread that recorded the drop is about to store one (record_drop, notified).
OverflowSignalled ==
    \A c \in Conns :
        conn[c] = "open" /\ overflow[c] # {} =>
            notified[c] \/ \E t \in Tasks : tpc[t] = "notify" /\ dconn[t] = c

\* No connection holds more than max_subscriptions subscriptions, however REQs that
\* replace, CLOSEs and overflows alternate (the has_sub / sub_count test of REQ).
SubsBounded == \A c \in Conns : Cardinality(Open(c)) <= MaxSubs

\* A subscription the relay has ended is one whose end the client asked for or was told
\* of ("so the client knows it must resubscribe to resync", the overflow branch).
EndIsTold ==
    \A c \in Conns : conn[c] = "open" /\ cpc[c] = "idle" => SubIds \ Open(c) \subseteq told[c]

\* The queue of c has room again and again, or c is gone.
Reads(c) == []<>(queue[c] < QueueCap \/ conn[c] = "gone")

\* Every EVENT frame is answered, or its connection is gone, as long as no client stops
\* reading while it stays connected.  The reply is sent while the permit is held, so one
\* client whose queue stays full may hold up the others (process_event_message): nothing
\* else keeps a permit for ever.
EventAnswered ==
    (\A c \in Conns : Reads(c)) => \A t \in Tasks : tpc[t] # "idle" ~> tpc[t] = "idle"

\* A recorded overflow is taken up by the connection task, unless it ends (notified).
OverflowHandled ==
    \A c \in Conns : overflow[c] # {} /\ conn[c] = "open" ~> overflow[c] = {} \/ conn[c] = "gone"

=============================================================================
