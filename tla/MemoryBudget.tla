---------------------------- MODULE MemoryBudget ----------------------------
(***************************************************************************)
(* The memory budget of EventStore (src/src/store/mod.rs).  A sampler      *)
(* reads the RSS of the process and smooths its ratio to the payload, the  *)
(* amplification; the eviction task derives a budget for the payload from  *)
(* it and removes the oldest events, a chunk at a time; clients add and    *)
(* remove events all the while.  The three share atomics, each read or     *)
(* written in a step of its own.                                           *)
(*                                                                         *)
(* Sizes are in bytes.  What a chunk of 100 events frees is any number of  *)
(* bytes up to ChunkBytes.  There is no time: how long the tasks sleep,    *)
(* and state.interval_seconds with it, is left out.                        *)
(*                                                                         *)
(* A definition whose name ends in Bug is a faulty variant of the one      *)
(* after it: Spec does not use it.                                         *)
(***************************************************************************)
EXTENDS Integers

CONSTANTS
    MaxBytes,     \* config.max_bytes; 0 is no limit
    Milli,        \* an amplification of 1 (1000 in the code)
    MinSample,    \* MIN_AMPLIFICATION_SAMPLE_BYTES
    Batch, BigBatch,   \* chunks in a batch: 10, and 50 when RSS is over the limit
    ChunkBytes,   \* bound: the most bytes a chunk of events has
    EventBytes,   \* bound: the most bytes a client adds or removes at a time
    MaxPayload,   \* bound: the payload
    MaxOthers,    \* bound: what clients remove during one pass of the eviction
    RssValues     \* what the operating system says of the RSS; 0 if it says nothing

MaxAmp == 16 * Milli

ASSUME BudgetAssumption ==
    /\ MaxBytes \in Nat /\ Milli \in Nat \ {0} /\ MinSample \in Nat \ {0}
    /\ Batch \in Nat \ {0} /\ BigBatch \in Nat \ {0}
    /\ ChunkBytes \in Nat \ {0} /\ EventBytes \in Nat
    /\ MaxPayload \in Nat /\ MaxOthers \in Nat /\ RssValues \subseteq Nat

VARIABLES
    mem,          \* index.memory_bytes()
    rss,          \* cached_rss_bytes
    amp,          \* amplification_milli
    spc,          \* the sampler: "read" or "ratio"
    epc,          \* the eviction task: "sleep", "process", "budget", "oldest", "evict", "check"
    current,      \* its current_mem
    over,         \* its process_mem is more than max_bytes
    target,       \* its target
    chunks,       \* the chunks it still has in its batch
    open,         \* clients still publish
    others        \* history: what clients removed since the pass began

sampler == <<rss, amp, spc>>
evictor == <<epc, current, over, target, chunks>>
vars == <<mem, sampler, evictor, open, others>>

-----------------------------------------------------------------------------
(* The arithmetic. *)

Least(a, b) == IF a < b THEN a ELSE b
Greatest(a, b) == IF a < b THEN b ELSE a

ClampBug(x) == Greatest(x, Milli)
Clamp(x) == Greatest(Least(x, MaxAmp), Milli)

Observed(r, payload) == Clamp((r * Milli) \div payload)

\* Division of an i64 rounds toward zero.
Eighth(x) == IF x >= 0 THEN x \div 8 ELSE -((-x) \div 8)

\* The same in u64: a falling ratio wraps around.
SmoothedBug(previous, observed) ==
    Clamp(previous + (IF observed >= previous THEN observed - previous
                      ELSE 2^20 + observed - previous) \div 8)
Smoothed(previous, observed) == Clamp(previous + Eighth(observed - previous))

RepresentativeBug(r, payload) == payload > 0 /\ payload < MinSample /\ r # 0
Representative(r, payload) == payload >= MinSample /\ r # 0

PayloadBudget(a) == (MaxBytes * Milli) \div Greatest(a, Milli)

TargetBug(a) == (PayloadBudget(a) * 50) \div 100
Target(a) == (PayloadBudget(a) * 90) \div 100

-----------------------------------------------------------------------------

\* The RSS is read once before the tasks start; the amplification starts as a guess
\* of 4; what the restart left in the store is any payload.
Init ==
    /\ mem \in 0 .. MaxPayload /\ rss \in RssValues /\ amp = 4 * Milli
    /\ spc = "read" /\ epc = "sleep"
    /\ current = 0 /\ over = FALSE /\ target = 0 /\ chunks = 0
    /\ open = TRUE /\ others = 0

(* Clients. *)

Insert(n) ==
    /\ open /\ mem + n <= MaxPayload
    /\ mem' = mem + n
    /\ UNCHANGED <<sampler, evictor, open, others>>

\* Deletion or replacement.
Remove(n) ==
    /\ open /\ n <= mem /\ others + n <= MaxOthers
    /\ mem' = mem - n
    /\ others' = IF epc = "sleep" THEN 0 ELSE others + n
    /\ UNCHANGED <<sampler, evictor, open>>

Leave == open /\ open' = FALSE /\ UNCHANGED <<mem, sampler, evictor, others>>

(* The sampler of start_eviction_task, and sample_amplification. *)

SampleRss ==
    /\ spc = "read" /\ spc' = "ratio"
    /\ rss' \in RssValues
    /\ UNCHANGED <<mem, amp, evictor, open, others>>

SampleRatio ==
    /\ spc = "ratio" /\ spc' = "read"
    /\ amp' = IF Representative(rss, mem) THEN Smoothed(amp, Observed(rss, mem)) ELSE amp
    /\ UNCHANGED <<mem, rss, evictor, open, others>>

(* maybe_evict. *)

Sleep == epc' = "sleep" /\ current' = 0 /\ over' = FALSE /\ target' = 0 /\ chunks' = 0

ReadPayload ==
    /\ epc = "sleep"
    /\ IF MaxBytes = 0 THEN UNCHANGED <<epc, current>>
       ELSE epc' = "process" /\ current' = mem
    /\ others' = 0
    /\ UNCHANGED <<mem, sampler, over, target, chunks, open>>

ReadProcess ==
    /\ epc = "process" /\ epc' = "budget"
    /\ over' = (rss > MaxBytes)
    /\ UNCHANGED <<mem, sampler, current, target, chunks, open, others>>

ReadBudgetBug ==
    /\ epc = "budget"
    /\ IF over
         THEN /\ epc' = "oldest" /\ current' = 0 /\ target' = Target(amp)
              /\ UNCHANGED <<over, chunks>>
         ELSE Sleep
    /\ UNCHANGED <<mem, sampler, open, others>>

\* The budget, and whether the payload or the RSS is over.
ReadBudget ==
    /\ epc = "budget"
    /\ IF current > Target(amp) \/ over
         THEN /\ epc' = "oldest" /\ current' = 0 /\ target' = Target(amp)
              /\ UNCHANGED <<over, chunks>>
         ELSE Sleep
    /\ UNCHANGED <<mem, sampler, open, others>>

\* get_oldest: a whole batch, or all there is.
GetOldest ==
    LET batch == IF over THEN BigBatch ELSE Batch
    IN  /\ epc = "oldest"
        /\ \E n \in 0 .. batch :
             /\ n = batch \/ n * ChunkBytes >= mem
             /\ n = 0 <=> mem = 0
             /\ IF n = 0 THEN Sleep
                ELSE /\ epc' = "evict" /\ chunks' = n
                     /\ UNCHANGED <<current, over, target>>
        /\ UNCHANGED <<mem, sampler, open, others>>

\* One chunk.  It frees nothing only if its events are gone already.
EvictChunk(n) ==
    /\ epc = "evict" /\ epc' = "check"
    /\ n <= mem /\ (n > 0 \/ others > 0 \/ mem = 0)
    /\ mem' = mem - n
    /\ chunks' = chunks - 1
    /\ UNCHANGED <<sampler, current, over, target, open, others>>

\* The test after a chunk; of the RSS it is the value read at the start.
Check ==
    /\ epc = "check"
    /\ IF chunks = 0 \/ (mem <= target /\ ~over) THEN Sleep
       ELSE epc' = "evict" /\ UNCHANGED <<current, over, target, chunks>>
    /\ UNCHANGED <<mem, sampler, open, others>>

Evictor ==
    \/ ReadPayload \/ ReadProcess \/ ReadBudget \/ GetOldest
    \/ \E n \in 0 .. ChunkBytes : EvictChunk(n)
    \/ Check

Sampler == SampleRss \/ SampleRatio

Next ==
    \/ \E n \in 1 .. EventBytes : Insert(n) \/ Remove(n)
    \/ Leave
    \/ Sampler \/ Evictor

\* Both tasks are loops that sleep and run for ever.
Spec == Init /\ [][Next]_vars /\ WF_vars(Sampler) /\ WF_vars(Evictor)

-----------------------------------------------------------------------------
(* Properties. *)

TypeOK ==
    /\ mem \in 0 .. MaxPayload /\ rss \in RssValues
    /\ amp \in Milli .. MaxAmp
    /\ spc \in {"read", "ratio"}
    /\ epc \in {"sleep", "process", "budget", "oldest", "evict", "check"}
    /\ current \in 0 .. MaxPayload /\ over \in BOOLEAN
    /\ target \in 0 .. MaxBytes
    /\ chunks \in 0 .. Greatest(Batch, BigBatch)
    /\ open \in BOOLEAN /\ others \in 0 .. MaxOthers

\* What the budget is worth at the worst amplification.
Floor == (((MaxBytes * Milli) \div MaxAmp) * 90) \div 100

\* While the RSS it read is within the limit, a pass never brings the payload more
\* than one chunk under the target for the worst amplification, apart from what
\* clients remove meanwhile (mod.rs:326-328 "a deep cut just throws away events that
\* fit"): whatever the sampler measured, and whenever it did.
EvictFloor ==
    epc = "check" /\ ~over => mem + others + ChunkBytes > Floor

\* A sample moves the amplification toward the ratio it observed and never past it,
\* by an eighth of the way at most (mod.rs:254-260 "Moves in eighths so a transient
\* spike cannot collapse the budget").
AmpMovesInEighths ==
    [][amp' # amp =>
         /\ mem >= MinSample
         /\ LET observed == Observed(rss, mem)
            IN  \/ amp < amp' /\ 8 * (amp' - amp) <= observed - amp
                \/ amp' < amp /\ 8 * (amp - amp') <= amp - observed]_vars

\* Once payload and RSS stay as they are, the amplification comes within 8 of their
\* ratio and stays there (sample_amplification).
AmpSettles ==
    <>[][FALSE]_<<mem, rss>> =>
        <>[](mem >= MinSample /\ rss # 0 =>
               LET observed == Observed(rss, mem) IN amp - observed < 8 /\ observed - amp < 8)

\* Once clients stop publishing, the payload is brought within the target, however
\* the measured amplification moves (maybe_evict).
PayloadReturns == MaxBytes > 0 /\ ~open ~> mem <= Target(amp)

=============================================================================
