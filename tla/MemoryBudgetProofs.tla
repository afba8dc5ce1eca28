------------------------- MODULE MemoryBudgetProofs -------------------------
(***************************************************************************)
(* Proofs about the memory budget for every value of its constants: the    *)
(* types, the size of one move of the amplification, and the floor under   *)
(* an eviction.                                                            *)
(***************************************************************************)
EXTENDS MemoryBudget, TLAPS

-----------------------------------------------------------------------------
(* The arithmetic. *)

LEMMA ProductOrder ==
    ASSUME NEW a \in Nat, NEW b \in Nat, NEW c \in Nat, NEW d \in Nat, a <= b, c <= d
    PROVE  a * c <= b * d
<1>1. a * c <= b * c
  <2>1. PICK k \in Nat : b = a + k
    BY b - a \in Nat, b = a + (b - a)
  <2>2. b * c = a * c + k * c /\ k * c \in Nat
    BY <2>1
  <2> QED
    BY <2>2
<1>2. b * c <= b * d
  <2>1. PICK k \in Nat : d = c + k
    BY d - c \in Nat, d = c + (d - c)
  <2>2. b * d = b * c + b * k /\ b * k \in Nat
    BY <2>1
  <2> QED
    BY <2>2
<1> QED
  BY <1>1, <1>2

LEMMA QuotientType ==
    ASSUME NEW a \in Nat, NEW b \in Nat \ {0}
    PROVE  /\ a \div b \in Nat
           /\ b * (a \div b) <= a
           /\ a < b * (a \div b) + b
OBVIOUS

\* A larger divisor gives a smaller quotient.
LEMMA QuotientOrder ==
    ASSUME NEW a \in Nat, NEW b \in Nat \ {0}, NEW c \in Nat \ {0}, b <= c
    PROVE  a \div c <= a \div b
<1> DEFINE p == a \div b
           q == a \div c
<1>1. p \in Nat /\ a < b * p + b
  BY QuotientType
<1>2. q \in Nat /\ c * q <= a
  BY QuotientType
<1> HIDE DEF p, q
<1>3. ASSUME p + 1 <= q PROVE FALSE
  <2>1. b * (p + 1) <= c * q
    BY <1>1, <1>2, <1>3, ProductOrder
  <2>2. b * (p + 1) = b * p + b
    BY <1>1
  <2> QED
    BY <1>1, <1>2, <2>1, <2>2
<1>4. q <= p
  BY <1>1, <1>2, <1>3
<1> QED
  BY <1>4 DEF p, q

LEMMA ClampRange ==
    ASSUME NEW x \in Int
    PROVE  Clamp(x) \in Milli .. MaxAmp
BY BudgetAssumption DEF Clamp, Greatest, Least, MaxAmp

\* An eighth of a difference, rounded toward zero, does not overshoot.
LEMMA SmoothedMoves ==
    ASSUME NEW a \in Milli .. MaxAmp, NEW b \in Milli .. MaxAmp
    PROVE  /\ Smoothed(a, b) \in Milli .. MaxAmp
           /\ a < Smoothed(a, b) => 8 * (Smoothed(a, b) - a) <= b - a
           /\ Smoothed(a, b) < a => 8 * (a - Smoothed(a, b)) <= a - b
<1>1. /\ a \in Nat /\ b \in Nat /\ Milli \in Nat /\ MaxAmp \in Nat
      /\ Milli <= a /\ a <= MaxAmp /\ Milli <= b /\ b <= MaxAmp
  BY BudgetAssumption DEF MaxAmp
<1>2. CASE a <= b
  <2>1. PICK k \in Nat : k = (b - a) \div 8 /\ 8 * k <= b - a
    BY <1>1, <1>2
  <2>2. Smoothed(a, b) = a + k
    BY <1>1, <1>2, <2>1, BudgetAssumption DEF Smoothed, Eighth, Clamp, Greatest, Least, MaxAmp
  <2> QED
    BY <1>1, <1>2, <2>1, <2>2
<1>3. CASE b < a
  <2>1. PICK k \in Nat : k = (a - b) \div 8 /\ 8 * k <= a - b
    BY <1>1, <1>3
  <2>2. Eighth(b - a) = -k
    BY <1>1, <1>3, <2>1 DEF Eighth
  <2>3. Smoothed(a, b) = a - k
    BY <1>1, <1>3, <2>1, <2>2, BudgetAssumption DEF Smoothed, Clamp, Greatest, Least, MaxAmp
  <2> QED
    BY <1>1, <1>3, <2>1, <2>3
<1> QED
  BY <1>1, <1>2, <1>3

LEMMA ObservedRange ==
    ASSUME NEW r \in RssValues, NEW m \in Nat \ {0}
    PROVE  Observed(r, m) \in Milli .. MaxAmp
<1>1. r * Milli \in Nat
  BY BudgetAssumption
<1>2. (r * Milli) \div m \in Int
  BY <1>1, QuotientType
<1> QED
  BY <1>2, ClampRange DEF Observed

\* The target lies between the floor and the limit of the process.
LEMMA TargetRange ==
    ASSUME NEW a \in Milli .. MaxAmp
    PROVE  Target(a) \in Floor .. MaxBytes /\ Floor \in Nat
<1> DEFINE total == MaxBytes * Milli
           b == PayloadBudget(a)
           f == total \div MaxAmp
<1>1. /\ total \in Nat /\ MaxAmp \in Nat \ {0} /\ a \in Nat \ {0} /\ a <= MaxAmp /\ Milli <= a
      /\ MaxBytes \in Nat /\ Milli \in Nat \ {0}
  BY BudgetAssumption DEF MaxAmp
<1>2. b = total \div a
  BY <1>1 DEF PayloadBudget, Greatest
<1> HIDE DEF total
<1>3. f \in Nat /\ b \in Nat /\ f <= b
  BY <1>1, <1>2, QuotientType, QuotientOrder
<1>4. b <= total \div Milli
  BY <1>1, <1>2, QuotientOrder
<1>5. total \div Milli = MaxBytes
  BY <1>1 DEF total
<1> HIDE DEF b, f
<1>6. /\ (b * 90) \div 100 \in Nat /\ (f * 90) \div 100 \in Nat
      /\ (f * 90) \div 100 <= (b * 90) \div 100
      /\ (b * 90) \div 100 <= b
  BY <1>3
<1>7. Target(a) = (b * 90) \div 100
  BY DEF Target, b
<1>8. Floor = (f * 90) \div 100
  BY DEF Floor, f, total
<1> QED
  BY <1>1, <1>3, <1>4, <1>5, <1>6, <1>7, <1>8

-----------------------------------------------------------------------------
(* The invariant. *)

\* While the eviction task evicts with the RSS within the limit, its target is at
\* least the floor, and the payload was above the target before the chunk it is
\* about to remove, or has removed.
PassInv ==
    /\ epc \in {"oldest", "evict", "check"} => target \in Floor .. MaxBytes
    /\ epc \in {"process", "budget"} => mem + others >= current
    /\ epc \in {"oldest", "evict"} /\ ~over => mem + others > target
    /\ epc = "check" /\ ~over => mem + others + ChunkBytes > target
    /\ epc = "evict" => chunks > 0

Inv == TypeOK /\ PassInv

LEMMA BatchType == Greatest(Batch, BigBatch) \in Nat
BY BudgetAssumption DEF Greatest

LEMMA InitInv == Init => Inv
<1> SUFFICES ASSUME Init PROVE Inv
  OBVIOUS
<1>1. over \in BOOLEAN /\ open \in BOOLEAN
  BY ZenonT(30) DEF Init
<1>2. TypeOK
  BY <1>1, BudgetAssumption, BatchType DEF Init, TypeOK, MaxAmp
<1> QED
  BY <1>2 DEF Init, Inv, PassInv

LEMMA ClientInv ==
    ASSUME Inv, NEW n \in 1 .. EventBytes, Insert(n) \/ Remove(n) \/ Leave
    PROVE  Inv'
<1>1. CASE Insert(n)
  <2>1. TypeOK'
    BY <1>1, BudgetAssumption DEF Inv, TypeOK, Insert, sampler, evictor
  <2>2. PassInv'
    BY <1>1, BudgetAssumption DEF Inv, TypeOK, PassInv, Insert, sampler, evictor
  <2> QED
    BY <2>1, <2>2 DEF Inv
<1>2. CASE Remove(n)
  <2>1. TypeOK'
    BY <1>2, BudgetAssumption DEF Inv, TypeOK, Remove, sampler, evictor
  <2>2. PassInv'
    BY <1>2, BudgetAssumption DEF Inv, TypeOK, PassInv, Remove, sampler, evictor
  <2> QED
    BY <2>1, <2>2 DEF Inv
<1>3. CASE Leave
  BY <1>3 DEF Inv, TypeOK, PassInv, Leave, sampler, evictor
<1> QED
  BY <1>1, <1>2, <1>3

LEMMA SamplerInv == Inv /\ Sampler => Inv'
<1> SUFFICES ASSUME Inv, Sampler PROVE Inv'
  OBVIOUS
<1>1. PassInv'
  BY DEF Inv, PassInv, Sampler, SampleRss, SampleRatio, evictor
<1>2. CASE SampleRss
  BY <1>1, <1>2 DEF Inv, TypeOK, SampleRss, evictor
<1>3. CASE SampleRatio
  <2>1. amp' \in Milli .. MaxAmp
    <3>1. CASE Representative(rss, mem)
      <4>1. mem \in Nat \ {0}
        BY <3>1, BudgetAssumption DEF Inv, TypeOK, Representative
      <4>2. Observed(rss, mem) \in Milli .. MaxAmp
        BY <4>1, ObservedRange DEF Inv, TypeOK
      <4> QED
        BY <1>3, <3>1, <4>2, SmoothedMoves DEF Inv, TypeOK, SampleRatio
    <3>2. CASE ~Representative(rss, mem)
      BY <1>3, <3>2 DEF Inv, TypeOK, SampleRatio
    <3> QED
      BY <3>1, <3>2
  <2> QED
    BY <1>1, <1>3, <2>1 DEF Inv, TypeOK, SampleRatio, evictor
<1> QED
  BY <1>2, <1>3 DEF Sampler

LEMMA EvictorInv == Inv /\ Evictor => Inv'
<1> SUFFICES ASSUME Inv, Evictor PROVE Inv'
  OBVIOUS
<1> USE BudgetAssumption
<1>1. CASE ReadPayload
  BY <1>1 DEF Inv, TypeOK, PassInv, ReadPayload, sampler
<1>2. CASE ReadProcess
  BY <1>2 DEF Inv, TypeOK, PassInv, ReadProcess, sampler
<1>3. CASE ReadBudget
  <2>1. Target(amp) \in Floor .. MaxBytes /\ Floor \in Nat
    BY TargetRange DEF Inv, TypeOK
  <2>2. TypeOK'
    <3>1. over' \in BOOLEAN
      BY <1>3, ZenonT(30) DEF Inv, TypeOK, ReadBudget, Sleep
    <3> QED
      BY <1>3, <2>1, <3>1, BatchType DEF Inv, TypeOK, ReadBudget, Sleep, sampler
  <2>3. PassInv'
    BY <1>3, <2>1 DEF Inv, TypeOK, PassInv, ReadBudget, Sleep
  <2> QED
    BY <2>2, <2>3 DEF Inv
<1>4. CASE GetOldest
  <2>1. TypeOK'
    <3>1. over' \in BOOLEAN
      BY <1>4, ZenonT(30) DEF Inv, TypeOK, GetOldest, Sleep
    <3> QED
      BY <1>4, <3>1, BatchType DEF Inv, TypeOK, GetOldest, Sleep, sampler, Greatest
  <2>2. PassInv'
    BY <1>4 DEF Inv, TypeOK, PassInv, GetOldest, Sleep
  <2> QED
    BY <2>1, <2>2 DEF Inv
<1>5. ASSUME NEW n \in 0 .. ChunkBytes, EvictChunk(n) PROVE Inv'
  <2>1. TypeOK'
    BY <1>5, BatchType DEF Inv, TypeOK, PassInv, EvictChunk, sampler
  <2>2. PassInv'
    BY <1>5 DEF Inv, TypeOK, PassInv, EvictChunk
  <2> QED
    BY <2>1, <2>2 DEF Inv
<1>6. CASE Check
  <2>1. TypeOK'
    <3>1. over' \in BOOLEAN
      BY <1>6, ZenonT(30) DEF Inv, TypeOK, Check, Sleep
    <3> QED
      BY <1>6, <3>1, BatchType DEF Inv, TypeOK, Check, Sleep, sampler
  <2>2. PassInv'
    BY <1>6 DEF Inv, TypeOK, PassInv, Check, Sleep
  <2> QED
    BY <2>1, <2>2 DEF Inv
<1> QED
  BY <1>1, <1>2, <1>3, <1>4, <1>5, <1>6 DEF Evictor

LEMMA AlwaysInv == Spec => []Inv
<1>1. Inv /\ [Next]_vars => Inv'
  <2> SUFFICES ASSUME Inv, [Next]_vars PROVE Inv'
    OBVIOUS
  <2>1. CASE Leave
    BY <2>1 DEF Inv, TypeOK, PassInv, Leave, sampler, evictor
  <2>2. CASE UNCHANGED vars
    BY <2>2 DEF Inv, TypeOK, PassInv, vars, sampler, evictor
  <2> QED
    BY <2>1, <2>2, ClientInv, SamplerInv, EvictorInv DEF Next
<1> QED
  BY <1>1, InitInv, PTL DEF Spec

-----------------------------------------------------------------------------
(* The results. *)

\* The amplification stays in its range and the locals of the two tasks in theirs
\* (sample_amplification, maybe_evict).
THEOREM TypeCorrect == Spec => []TypeOK
BY AlwaysInv, PTL DEF Inv

\* No pass that read an RSS within the limit evicts more than a chunk below the
\* target for an amplification of 16 (maybe_evict).
THEOREM FloorKept == Spec => []EvictFloor
<1>1. Inv => EvictFloor
  <2> SUFFICES ASSUME Inv, epc = "check", ~over
               PROVE  mem + others + ChunkBytes > Floor
    BY DEF EvictFloor
  <2>1. amp \in Milli .. MaxAmp
    BY DEF Inv, TypeOK
  <2>2. Floor \in Nat
    BY <2>1, TargetRange
  <2> QED
    BY <2>2, BudgetAssumption DEF Inv, TypeOK, PassInv
<1> QED
  BY <1>1, AlwaysInv, PTL

\* A sample moves the amplification toward what it observed, by an eighth of the way
\* at most (sample_amplification).
THEOREM EighthSteps == Spec => AmpMovesInEighths
<1>1. Inv /\ [Next]_vars =>
        (amp' # amp =>
           /\ mem >= MinSample
           /\ LET observed == Observed(rss, mem)
              IN  \/ amp < amp' /\ 8 * (amp' - amp) <= observed - amp
                  \/ amp' < amp /\ 8 * (amp - amp') <= amp - observed)
  <2> SUFFICES ASSUME Inv, [Next]_vars, amp' # amp
               PROVE  /\ mem >= MinSample
                      /\ \/ amp < amp' /\ 8 * (amp' - amp) <= Observed(rss, mem) - amp
                         \/ amp' < amp /\ 8 * (amp - amp') <= amp - Observed(rss, mem)
    OBVIOUS
  <2>1. SampleRatio
    BY DEF Next, vars, Insert, Remove, Leave, Sampler, SampleRss, Evictor, ReadPayload,
           ReadProcess, ReadBudget, GetOldest, EvictChunk, Check, sampler
  <2>2. Representative(rss, mem) /\ amp' = Smoothed(amp, Observed(rss, mem))
    BY <2>1 DEF SampleRatio
  <2>3. mem >= MinSample /\ mem \in Nat \ {0}
    BY <2>2, BudgetAssumption DEF Representative, Inv, TypeOK
  <2>4. /\ amp \in Milli .. MaxAmp /\ Observed(rss, mem) \in Milli .. MaxAmp
        /\ Milli \in Nat /\ MaxAmp \in Nat
    BY <2>3, ObservedRange, BudgetAssumption DEF Inv, TypeOK, MaxAmp
  <2>5. amp' \in Milli .. MaxAmp
    BY <2>2, <2>4, SmoothedMoves
  <2>6. amp < amp' \/ amp' < amp
    BY <2>4, <2>5
  <2> QED
    BY <2>2, <2>3, <2>4, <2>6, SmoothedMoves
<1> QED
  BY <1>1, AlwaysInv, PTL DEF Spec, AmpMovesInEighths

=============================================================================
