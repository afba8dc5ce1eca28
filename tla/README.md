# A TLA+ model of memlay

memlay is an in-memory Nostr relay. Clients publish events and subscribe to them
over WebSockets; the relay keeps the events in a concurrent index, evicts the
oldest when memory is short, and can persist them in a write-ahead log and a
snapshot. This directory holds TLA+ models of the parts where concurrency,
crashes or arithmetic make the code hard to test, the TLC instances that check
them, and TLAPS proofs of their main invariants.

## Inventory

| Part | State | Operations | Model |
|---|---|---|---|
| event index (`store/index.rs`) | primary map, secondary sets, replacement keys, tombstones, two counters | `insert`, `remove`, `delete_by_id` | `EventIndex` |
| | | `query_by_*`, `get_oldest`, `get_newest`, `coordinate_targets` | `RelayStore`, `Query`, `Deletion` |
| write-ahead log (`store/wal.rs`) | `wal.log`, `wal.log.old`, dirty flag | `append`, `group_commit`, `rotate`, `replay` | `Persistence` |
| event store (`store/mod.rs`) | index, log, snapshot | `insert`, `apply_deletion`, `checkpoint`, `load_from_disk` | `Persistence`, `StorePromise` |
| memory budget (`store/mod.rs`) | cached RSS, amplification | RSS sampler, `sample_amplification`, `payload_budget`, `maybe_evict` | `MemoryBudget` |
| live fanout (`fanout.rs`) | connections, kind index, per-connection queue and overflow list | `register`, `set_sub`, `remove_sub`, `publish`, `unregister` | `Fanout` |
| connection handling (`relay.rs`) | select loop, query tasks, EVENT tasks, verification permits | EVENT, REQ, CLOSE, overflow, teardown | `Fanout` |
| deletion requests (`deletion.rs`, `relay.rs`) | none of its own | references, author check, the walk over them | `Deletion` |
| filters and queries (`subscription.rs`) | none of its own | `query_filter`, `matches_event` | `Query`; in `Fanout` a filter is its kinds |
| parsing, HTTP, configuration, metrics, client addresses, `main.rs` | - | - | not modelled |

An EVENT task inserts into the store (index, then log) and then publishes through
the fanout. A REQ registers a subscription with the fanout and then starts a task
that queries the index. Background tasks evict, fsync the log and checkpoint.

What makes this hard: the index has no lock of its own, so calls interleave at
every access; memory and log change at different moments; the process may die
between any two steps; the send queues are bounded and publishers never wait; a
query and a deletion request take many steps while the store changes; eviction
acts on measurements that are old when they are used.

## Modules

`Requests` composes `Query` and `Deletion` over the state of `RelayStore`.
`EventIndex`, `Persistence`, `Fanout` and `MemoryBudget` stand alone and abstract
their neighbours. Definitions ending in `Bug` are faulty variants that the
specifications do not use; each shows that some property notices that fault.

**`EventIndex`**: `pc[t]` names the next shared access of the call that thread
`t` runs, and each action is one access. The secondary maps are `NumIndexes` sets
of events, visited in order, `by_oldest` last. `insert` holds its
`by_replaceable` entry from the claim to the end of `internal_remove`
(`HoldsEntry`). DashMap locks whole shards; the model locks single keys, and a
holder never asks for a second entry, so coarser locks add no cycle. The two
counters are adjacent in the code and change in one step. They are integers: a
negative value is a wrapped `usize`; what eviction makes of a wrapped value is not
modelled. An event of `Republished` is published again at any moment; the others only
once they are neither stored nor the subject of a call. `drift` and `drift_bytes` are
history variables for decrements that no increment answers (the undo at
index.rs:305-308): the instances stop inserting at `MaxDrift`, and the proofs use
them. No property of a run mentions them. A batch of evictions is one call per event.

**`Persistence`**: a call on the index is one step on `live`; log appends, the
dirty flag, the two halves of a group commit, and the steps of a checkpoint are
separate. `Restore` is the replay of `load_from_disk` as a fold over the files.
`Crash` keeps all flushed records; `PowerLoss` keeps any prefix of the log that
contains the fsynced part and, with `TornWrites`, part of the next record. What
follows a torn record is taken to be unreadable (`Readable`, `Hidden`); in the
code it is read out of step. Load-time eviction counts events instead of bytes.
`acked` and `durable` are history variables for what the properties promise, and
`raced` for the events that were being deleted, or deleted with their insert still to
be recorded, when the log was rotated (`Racing`); `restored` is what the files would
give at a restart, kept up to date by every step that changes a file. A rename is
taken to be durable when it returns.
The fsync branch of `maybe_checkpoint` is not a second committer here.

**`StorePromise`** is the abstract specification that `Persistence` implements
(`PromiseKept`): instead of files there is one set of events that a restart would
bring back. While the store serves, the set loses no event that memory has, unless
a call about it is in flight, and gains none that memory does not have, with three
exceptions that the code needs. An event evicted after the snapshot copied it comes
back. So does a deleted one that had a call in flight when a checkpoint rotated the
log (`raced`), and only such a one. And so does an old version while the record of a
newer one is still to be written, because a checkpoint can drop the versions between
them: two inserts wrote their records in the other order. A crash leaves the set
alone, and a start brings it back. After a power loss the promise says nothing;
`DurableRecoverable` does. The third exception came out of the proof: without it the
instance of `restart`, which has two versions, passes, and one with three versions
does not.

**`Fanout`**: the connection task, one query task per subscription and the EVENT
tasks. Subscriptions change first and the kind index follows in a later step
(`Reindex`), as in `set_sub` and `remove_sub`. `deliver` holds the read lock on
the subscriptions (`dconn`). The queue is its length. A drop counts in the
current window or starts a new one, nondeterministically. A filter is the set of
kinds it names; nothing is evicted, deleted or replaced, and no limit is reached.
An aborted query task ends at once, while in the code it ends at its next await.
A failed sender leaves the queue open until `Unregister`. Deletion requests are
not routed.

**`RelayStore`** is the index as a caller of one function sees it: the data of an
event, replacement keys, the order of the sets, what an insert leaves in the store, and
the bounded heap that merges the shards for `get_oldest` and `get_newest`. A lookup is a
sorted sequence (`Sorted`, `At`), as the sets of the index are. What a text
parses to (hex ids, coordinates) is given by the constants `Bytes` and
`Coordinates`: texts that do not parse, and two texts of the same bytes, are in
the instances.

**`Query`** is one query task. A filter chooses an index and the keys to look up
(`Plans`); each `Read` locks and copies one set, up to the limit; `Result` applies
the conditions that are left. `MatchesEvent`, the test for live events, is the
reference. `throughout`, `seen` and `gone` (in `Requests`) are history variables for
what was stored since the query began, and for what was deleted before and had no
insert past the tombstone check. A REQ with several filters is several queries.

**`Deletion`** is the EVENT tasks: an event goes to `insert` and then to the
fanout; a deletion request first passes the two checks of
`apply_deletion_request` and walks its references, with lookup, version check and
removal in separate steps. References are sets, so they are taken in any order. An
insert is two steps, the tombstone check and the store, and so is `delete_by_id`, the
removal and the tombstone: another task may come between them. (`EventIndex` has the
steps inside each, `Persistence` the log record before the removal.) `get_oldest` reads
one shard at a time, and each event of the batch it picks is removed in a step of its
own.

**`MemoryBudget`**: the sampler, the eviction task and the clients share the
payload counter, the cached RSS and the amplification, with one step per access.
A chunk of 100 events is any number of bytes up to `ChunkBytes`. How long the
tasks sleep, the adaptive interval and the eviction streak are left out.

## Runs

State counts are from TLC's own reports.

| Run | Instance | Properties | Result |
|---|---|---|---|
| `index` | 2 threads, 2 versions of a key, a regular event, the only version of another key, 2 sets, eviction, deletion of the last two, republishing of the first three; 1,330,326 states | `TypeOK` `NoDeadlock` `CountNotOver` `MemoryNotOver` `StaleVersionHasOwner` `OneVersionAtRest` `IndexesMatchAtRest` `TombstonesBounded` `DeletedStaysOut` | hold |
| `index_latest` | 2 threads, 2 versions | `LatestKeptAtRest` | violated |
| `index_drift` | 2 threads, 2 versions | `CountersAtRest` | violated |
| `index_resurrected` | 2 threads, 1 regular event, deleted and republished | `DeletedStaysDeleted` | violated |
| `restart` | 2 threads, 2 versions and a regular event, 3 calls, deletion of event 3, 1 checkpoint, 1 death; 813,376 states | `TypeOK` `AckedRecoverable` `DurableRecoverable` `DeletedKeptOut` `UnsyncedIsTracked` `PromiseKept` | hold |
| `restart_faults` | 2 threads, 2 regular events, 4 calls, eviction and deletion of event 1, 1 death, torn records, failing snapshot, eviction at startup, no background checkpoint, fairness; 80,098 states | `OnlyHiddenLost` `EventuallySynced` | hold |
| `restart_twice` | death during startup allowed | `AckedRecoverable` | violated |
| `restart_deleted` | `restart` with 2 calls | `DeletedNotRestored` | violated |
| `delivery` | 1 connection, 2 subscription ids, limit 1, 2 EVENT tasks, 1 permit, queue of 1, 3 frames, an ephemeral event, fairness; 81,186 states | `TypeOK` `IndexExact` `NoGap` `OverflowSignalled` `SubsBounded` `OverflowHandled` `EventAnswered` | hold |
| `requests` | 2 EVENT tasks, 7 events of 2 authors (versions, 2 deletion requests, an ephemeral one), 9 filters, 2 shards, 2 messages, 1 eviction, 1 query; 821,657 states | `TypeOK` `DeletionComplete` `StoredIsPublished` `OnlyNamedDeleted` `EvictsOldest` `AnswerComplete` `PlainAnswerMatches` `AnswerBounded` `AnswerNewest` `DeletedNotAnswered` | hold |
| `query_newest` | a filter with only a limit | `BareAnswerNewest` | violated |
| `budget` | limit 64, payload up to 7, three RSS values on both sides of the limit, fairness; 539,468 states | `TypeOK` `EvictFloor` `AmpMovesInEighths` `AmpSettles` `PayloadReturns` | hold |

### What the passing runs assume

Some passing instances leave out behaviour the code has, or state less than one would
wish, because the stronger property fails. These are limits of the results:

- `CountNotOver` and `MemoryNotOver` are bounds from above. Counts can be lost for good
  (`index_drift`), and then the counters wrap when the last events go.
- `DeletedStaysOut` starts when a deletion is over and no insert of the event is past
  the tombstone check. Before that the event can come back (`index_resurrected`).
- `IndexesMatchAtRest` leaves out the events of `Republished`. A removal still walking
  the sets takes out the entries of a new insert of the same event, and the property
  fails for it, with 2 threads, one event, `NumIndexes = 1`, `Evicting = TRUE` and
  `Deletable = {}`. `test_toctou_remove_empty_set_race` (tests/deadlock_test.rs:530-574)
  asserts that `by_id` and the set of a pubkey agree after such calls ran together.
- In `index` a version is deleted only if it is the only one of its key; the
  stale-version theorems assume the same (`DeletedAlone`). `delete_by_id` drops the
  entry of a key whatever version it names (index.rs:574), and with `Deletable = {1}`
  both `StaleVersionHasOwner` and `OneVersionAtRest` fail.
- `restart` has no death during startup (`restart_twice` shows the failure) and
  no failing snapshot. With failing snapshots and two checkpoints, or two deaths,
  `AckedRecoverable` fails: the second rotation overwrites the `wal.log.old` that
  no snapshot covers.
- `AckedRecoverable` stops promising an old version when its replacement reaches
  memory. A snapshot can miss both versions of a replaced event (mod.rs:678); until the
  record of the new one is written, a restart brings back neither. `StorePromise` has
  the same gap: an event in flight may be missing.
- `DeletedKeptOut` leaves out the deletions that a rotation of the log met. Those can
  come back (`restart_deleted`): a checkpoint between deletion record and removal
  (mod.rs:425), or one after the deletion of an event whose own insert is not recorded
  yet, drops the Tombstone record.
- `OnlyHiddenLost` leaves out the records behind half a record. If a power loss tears
  the very first record, the next start reads nothing, so it writes no snapshot
  (`applied > 0`, mod.rs:919) and does not replace the log: what is appended from then
  on is answered as stored and never read again. `AckedRecoverable` and
  `DurableRecoverable` fail with the constants of `restart_faults`.
- `restart_faults` has one death and no background checkpoint. With two deaths
  `OnlyHiddenLost` fails: a startup that cannot write its snapshot leaves the events in
  `wal.log.old`, which the next one removes (mod.rs:914 again).
- `restart` evicts nothing while it runs or starts. Eviction, also at startup, is
  in `restart_faults`. A replay that evicts can evict an old version before it reads
  the newer one, outside what `StorePromise` allows.
- `restart` has two versions of a key. Three versions are left to the proof of
  `PromiseKept`.
- In `restart` no version of a replaceable event is deletable. Deleting a version
  and publishing the older one again, beside a checkpoint, breaks
  `AckedRecoverable` (`Deletable = {2}`, 4 calls) and `PromiseKept`.
- `OverflowHandled` says that an overflow is taken up. The stronger `EndIsTold`, that
  the client is told, fails in `delivery`: CLOSED goes through the same full queue
  with `try_send` (relay.rs:535).
- `EventAnswered` assumes that every queue has room again and again, or its connection
  ends. Without it the property fails: a client that stops reading keeps a permit for
  as long as its connection lasts (relay.rs:404), although the send channel is there to
  keep slow clients from blocking (relay.rs:319).
- `requests` has one query per behaviour and does not go on from a state with an answer
  (`UpToTheAnswer`): nothing that follows changes the answer, and the tasks take the
  same steps in the states without a query.
- `DeletedNotAnswered` speaks of events that were out when the query began: tombstoned,
  not stored, and no insert of them past the tombstone check.
- `AnswerComplete` speaks of filters whose limit is not below the number of events
  and whose `#e` and `#p` values are hex: the limit cuts each lookup before the
  other conditions are applied, and values that do not parse are not looked up.
  `PlainAnswerMatches` and `AnswerNewest` name the filters they are about (`Plain`,
  `OneCondition`). With more conditions the limit can leave out newer matching events
  (subscription.rs:288). Upper-case hex in a filter matches stored events by their bytes
  and live events by their text; `Plain` leaves it out.
- `DeletionComplete` holds if no addressable event has an empty identifier
  (`NoEmptyIdentifier`): such an event is stored under a form of the key that no
  coordinate is looked up under (index.rs:520). The instance has none.
- `EvictFloor` speaks of passes that read an RSS within the limit. While the cached
  RSS is over it, a pass removes its whole batch whatever the target (mod.rs:351).

### Bounds

Two versions and one key are the least that replace each other; two threads race on
them, and an evictor or a deletion takes the place of either; two sets make a walk
that can be interrupted; no insert starts once a count is lost (`MaxDrift = 1`). The
proofs cover any number of threads and lost counts. A tombstone cap of 1 is exceeded by
two deletions. Three calls give a version, its replacement and a deletion or another
event, and a fourth a publication after the deletion; one checkpoint and one death fall
at every point between their steps. A queue of 1 is full after one message, and one
permit is contended by two tasks. Three frames are a REQ and two EVENTs, or two REQs for
one subscription and an EVENT. One connection is enough for the safety properties, which
speak of one connection each and are proved for any number. It is a limit of the two
liveness properties of `delivery`.

In `requests` the store starts with one of two sets of restored events,
so that two messages suffice for a request to meet a stored, a replaced, a foreign
and a deleted event, or a copy of itself; two shards and a limit or batch of two
make the merge drop events. In `budget` an amplification of 1 is 4 instead of 1000,
which keeps eighths, rounding and both ends of the range; the payload passes
`MinSample` and every target; proofs cover the real numbers. Symmetry is used only
in runs without liveness properties.

`CHECK_DEADLOCK FALSE` everywhere: bounded calls and frames run out.
`NoDeadlock` states absence of lock cycles in the index explicitly.

### Fairness

`Persistence`: weak fairness of started calls, group commit, checkpoint and
startup, since the loops in `store/mod.rs` run for ever and take an uncontended
lock. `Fanout`: weak fairness of the connection task; strong fairness of query and
EVENT tasks, since tokio's channel and semaphore serve waiters in order. Nothing is
assumed of `Drain`, since the code cannot make a client read: `EventAnswered` names that
condition itself (`Reads`), and `OverflowHandled` needs none. `MemoryBudget`: weak
fairness of the sampler and of the eviction task, two loops that sleep and run for ever; clients need not do
anything. `PayloadReturns` starts when they stop publishing.

## Findings

1. An older version can displace a newer one that is claimed and not yet stored
   (`index_latest`, index.rs:277).
2. An insert that undoes its store does not look whether the store was still there, and
   the counters lose a count for good (`index_drift`, index.rs:306).
3. An insert past the tombstone check brings a deleted event back
   (`index_resurrected`, index.rs:254).
4. Startup removes `wal.log.old` before a snapshot covers it (`restart_twice`,
   mod.rs:914).
5. A checkpoint between deletion record and removal brings a deleted event back at the
   next restart (`restart_deleted`, mod.rs:425).
6. `get_newest` drops the newest instead of the oldest event from a full heap, so
   a filter with only a limit gets the wrong events (`query_newest`,
   index.rs:702).

More have no run of their own. The query for stored events leaves out tag conditions
that the live test applies, all of them beside ids and those of a second letter
(subscription.rs:439): `AnswerMatches` fails for such filters, as with ids 1 and 2 and
`#t` = y, answered with both notes, or with `#t` = x and `#d` = d, answered with
event 3. The others are described above: a snapshot that misses both versions of a
replaced event, events appended behind half a record, entries of a republished event
taken out by an older removal, a version deleted beside another one, a CLOSED that is
dropped, and a permit kept by a client that does not read.

These are behaviours of the models; none was reproduced on the running program.

## Proofs

Every safety property of a passing run but `OnlyHiddenLost` is also a theorem, for every
value of the constants that satisfies the named assumptions: any number of threads, events,
versions, connections, filters, calls, checkpoints and crashes. Hardly any of them is
inductive as it stands: each proof names a stronger invariant and has one step per
action.

**`EventIndexProofs`**: `TypeCorrect`, `DeadlockFree`, `NeverOverCounted`,
`NeverOverweight`. `TypeInv` adds to `TypeOK` which call and which arguments each `pc`
has. Deadlock freedom follows from it, since a thread that holds an entry never waits
for one. The two counter proofs show an equation first (`CountAccount`,
`MemoryAccount`): the counter is what the store holds, up to the calls caught between
map and counter and up to the drift. They follow how one thread's move changes the sets
of such calls. As drift only grows, the bounds from above follow.

**`EventIndexRestProofs`**: `StaleOwned` and `OneVersion`, if a deletable version is the
only one of its key (`DeletedAlone`: `delete_by_id` drops the entry of a key whatever
version it names); `IndexesMatch`; `TombstonesKept`; `StaysOut`. `FilingInv` says for
every event and set whether it is filed, about to be filed or about to be taken out, and
by whom. `StaysOut` rests on the count of the tombstones, which is not zero while one
is queued, so that no insert skips the check.

**`PersistenceProofs`**: `NoForgottenRecord`, `TypeCorrect`, and `DeletionKept`, if
snapshots can be written. `DelInv` says of every deleted event that no rotation met:
its Tombstone record is in the log, or else the log does not insert it and, in each phase
of a checkpoint, no copy is left that the checkpoint or a start would bring back
(`Away`, `Uncopied`). The module also holds what the proofs know of `Replay`: what each record adds, what
a replay brings back (`RestoreSafe`) and what it cannot lose (`RestoreCovers`).

**`RecoveryProofs`**: `AckedRecovered` and `DurableRecovered`, if records are not torn,
startup is not interrupted, snapshots can be written and no version of a replaceable
event is deleted or evicted (`Undisturbed`: half a record hides what follows it, and
each of the others can lose an answered event). `RecInv` says where every event of
memory is on disk, or about to be, in each phase of a checkpoint (`Saves`, `Syncs`), that of every version on disk memory has that one or a
newer one, and that what a record removes is gone from memory, or about to go (`Old`).
`PromiseImplemented` shows from the same invariant and `DelInv` that each step
is a step of `StorePromise` or changes nothing of it, if startup evicts nothing
(`Unlimited`).

**`FanoutProofs`**: `TypeCorrect`, `NoLostWakeup`, `IndexCorrect`, `SubscriptionLimit`,
`GapFree`. `Shape` adds the shape of each task, `Life` what a connection may be doing
in each phase. `GapFree` is the deepest: `Routed` says that the index leads to a
subscription, except the one a request is changing, and `GapInv` that every matching
stored event is sent, pending, still unread, in flight or given up by an overflow.

**`RequestsProofs`**: `OnlyNamed`; `NothingMissed`, if no identifier is empty
(`NoEmptyIdentifier`); `Published`; `OldestEvicted`. `Inv` adds one version per key in
the store and what a task in the walk knows of its target; `DueInv` that every event
still due is among the references not yet looked at, or is the target. For the eviction
it shows that after each shard the bounded heap of `get_oldest` holds the oldest of what
it has read and of what stayed stored meanwhile.

**`AnswerProofs`**: `TypeCorrect`, `NothingMissing`, `OnlyMatching`, `Bounded`,
`NewestAnswered`, `DeletedUnanswered`. `QueryInv` says of a query between two reads
that every event stored all the time and matching the filter is collected or can still
be found by a lookup to come (`Pending`), that no shard is merged twice (`Apart`), and
that what is collected matches once it passes the conditions applied at the end. The
lemmas before it are about the plan: which index and keys a filter leads to, and that
a matching event is under one of them.

**`MemoryBudgetProofs`**: `TypeCorrect`, `FloorKept`, `EighthSteps`. `PassInv` adds
what a pass has read so far; the rest is the monotonicity of products and quotients.

The assumptions are `ConstantsAssumption` in `EventIndex`, `Persistence` and `Fanout`,
`StoreAssumption`, `DeletionAssumption` and `QueryAssumption` (limits are natural
numbers, lists are sequences, a filter names finitely many tag letters), and
`BudgetAssumption`; TLC evaluates them in the runs. `Replay` and the heap merge are
recursive functions. What they compute is proved by a minimal counterexample over a set
of naturals (`NatInd`), since induction with an operator parameter is out of reach.

Only model-checked: the liveness properties `EventuallySynced`, `EventAnswered`,
`OverflowHandled`, `AmpSettles` and `PayloadReturns`, since fairness is out of the
prover's reach; and `OnlyHiddenLost`, recovery with torn records, a failing snapshot and
eviction at startup, which `restart_faults` checks for one death without background
checkpoints. The recovery theorems exclude those.

## Not modelled

- Parsing and printing (`message.rs`, the JSON of events and filters), hashing and
  signatures: pure functions of their input, abstracted by constants.
- HTTP endpoints, metrics, configuration, client addresses: no state that an
  operation of the models reads.
- `insert_batch` (a loop over what `insert` does), `save_to_disk` and the mode
  without a log; `compact` and `truncate`, which only tests call.
- The shutdown checkpoint beside a background one (main.rs:143), I/O errors of the
  log (wal.rs:158), late effects of `abort` (relay.rs:441).

## Plan

1. Two checkpoints at a time, the second group committer and failing fsyncs in
   `Persistence`; late aborts in `Fanout`.
2. An abstract index that `EventIndex` is shown to implement, so that the single
   steps of `RelayStore` rest on it; a composition of store and fanout.
3. Recovery proofs that admit torn records and evictions at startup.
