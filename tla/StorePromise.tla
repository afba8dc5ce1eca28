---------------------------- MODULE StorePromise ----------------------------
(***************************************************************************)
(* What EventStore promises about a restart, without its files: at every   *)
(* moment there is a set of events that a restart would bring back.  While *)
(* the store serves, that set only moves toward memory: it loses no event  *)
(* that memory has, unless a call about it is in flight, and gains none    *)
(* that memory does not have, save for what a snapshot has copied, what    *)
(* was deleted beside a checkpoint, and the old versions of an event in    *)
(* flight.  A crash leaves it as it is, and the next start brings it back. *)
(***************************************************************************)

CONSTANTS
    Events,
    Older         \* Older[e]: the versions that e replaces

VARIABLES
    up,           \* the process runs
    live,         \* the events in memory
    saved,        \* the events that a restart would bring back
    inflight,     \* the events of calls that have log records to write
    copied,       \* the events a snapshot in the making has taken from memory
    raced         \* the deleted events that had a call in flight when a checkpoint started

promise == <<up, live, saved, inflight, copied, raced>>

Init ==
    /\ up = FALSE /\ live = {} /\ saved = {} /\ inflight = {} /\ copied = {}
    /\ raced = {}

\* A call starts: what is new in memory is on its way to the log.
Call ==
    /\ up /\ live' \ live \subseteq inflight'
    /\ inflight \subseteq inflight' /\ inflight' \subseteq Events
    /\ UNCHANGED <<up, saved, copied, raced>>

\* A deletion that was in flight meets a checkpoint.
Race == raced \subseteq raced' /\ raced' \subseteq raced \cup inflight

\* Eviction, or the end of a deletion.
Remove ==
    /\ up /\ live' \subseteq live
    /\ Race
    /\ inflight' \subseteq inflight
    /\ UNCHANGED <<up, saved, copied>>

\* A record is written, or a checkpoint takes a step.  An event that was evicted after
\* the snapshot had copied it may come back, and so may a deleted one that had a call in
\* flight when the checkpoint started, which drops its Tombstone record.  So may an old
\* version, while the record of a newer one is still to be written: the checkpoint can
\* drop the versions between them.
Save ==
    /\ up /\ inflight' \subseteq inflight
    /\ Race
    /\ (saved \cap live) \ inflight \subseteq saved'
    /\ saved' \subseteq saved \cup live \cup inflight \cup copied \cup raced
                         \cup UNION {Older[e] : e \in inflight}
    /\ copied' \subseteq copied \cup live
    /\ UNCHANGED <<up, live>>

Stop == up' = FALSE /\ live' = {} /\ inflight' = {} /\ copied' = {} /\ raced' = {}

Crash == up /\ Stop /\ UNCHANGED saved

\* The disk loses what no fsync covered.
PowerLoss == up /\ Stop /\ saved' \subseteq Events

\* A start brings back what was saved, as far as the memory budget allows.
Recover ==
    /\ ~up /\ up'
    /\ live' \subseteq saved /\ saved' = live'
    /\ UNCHANGED <<inflight, copied, raced>>

Next == Call \/ Remove \/ Save \/ Crash \/ PowerLoss \/ Recover

Spec == Init /\ [][Next]_promise

=============================================================================
