----------------------------- MODULE MiningLanes -----------------------------
(***************************************************************************)
(* The mining lanes of one card: runMiningOnDevice (main.cpp) and the mine *)
(* loop (MineUnit.cpp), one thread per CUDA stream, each rebuilding its    *)
(* unit whenever the memory cost it should mine at has changed; how the    *)
(* cost follows difficulty, margin and lock (MiningCommon.cpp), how much   *)
(* memory a lane takes (HashApiTuning.cpp), and whom a batch is mined for. *)
(*                                                                         *)
(* Memory is counted in the unit of the cost. Difficulty and margin are    *)
(* two atomics: a lane reads one, then the other.                          *)
(***************************************************************************)
EXTENDS Integers, FiniteSets, FiniteSetsExt

CONSTANTS
  Streams,                \* globalCudaStreamsPerDevice
  Total, Headroom,        \* the card's memory; kDeviceHeadroom
  Reserve,                \* reserve_bytes
  Tuned,                  \* recommendedCudaBatchSize: {[upTo |-> d, batch |-> n]}
  Difficulties, Margins,
  MaxInt,                 \* INT32_MAX
  Cycle,                  \* 1000
  Options,                \* what a user may ask for: see opt
  MaxChanges              \* bound: changes of settings

ASSUME LanesAssumption ==
  /\ Streams \in Nat \ {0}
  /\ Total \in Nat /\ Headroom \in Nat /\ Reserve \in Nat \ {0}
  /\ Difficulties \subseteq Nat \ {0} /\ Margins \subseteq Nat /\ MaxInt \in Nat
  /\ Difficulties # {} /\ Margins # {}
  /\ Cycle \in Nat \ {0} /\ MaxChanges \in Nat
  /\ Tuned \subseteq [upTo : Nat, batch : Nat]
  /\ Options \subseteq [lock : Nat, live : Nat, max : Nat, fees : 0..Cycle, eco : BOOLEAN]

Lanes == 0..(Streams - 1)

VARIABLES
  difficulty, margin,   \* globalDifficulty, globalDifficultyMargin
  running,
  leased, prefixed,     \* platform mining; a self-mining prefix is set
  lane,                 \* of each stream: its unit and where the loop is
  opt,                  \* the command line: [lock, live, max, fees, eco]
  changes

settings == <<difficulty, margin, running, leased, prefixed, opt, changes>>
vars == <<settings, lane>>

Lock == opt.lock            \* globalMiningDifficultyLock, 0 is none
LiveLanes == opt.live       \* globalLockLiveLanes
ExplicitMax == opt.max      \* globalMaxBatchSize, 0 is automatic
FeeSlots == opt.fees        \* globalDevfeePermillage
Eco == opt.eco              \* an eco address is set

Smaller(a, b) == IF a <= b THEN a ELSE b

(***************************************************************************)
(* The cost.                                                               *)
(***************************************************************************)
\* liveMiningDifficulty, of the two values it has read.
LiveMiningDifficulty(d, m) == IF m <= 0 \/ d + m > MaxInt THEN d ELSE d + m

\* Broken lane split: one lane too many mines the live difficulty.
LockedLate(l) == Lock > 0 /\ l > LiveLanes

Locked(l) == Lock > 0 /\ l >= LiveLanes
LaneMiningDifficulty(l) == IF Locked(l) THEN Lock ELSE LiveMiningDifficulty(difficulty, margin)

(***************************************************************************)
(* The size of a batch.                                                    *)
(***************************************************************************)
\* estimateCudaMemoryBatchLimit: 1.001 times the cost per attempt.
MemoryLimit(free, d) ==
  IF d = 0 \/ free <= Reserve THEN 0 ELSE ((free - Reserve) * 1000) \div (d * 1001)

RecommendedBatch(d) ==
  LET fits == {t \in Tuned : d <= t.upTo}
  IN  IF fits = {} THEN 0 ELSE (CHOOSE t \in fits : \A u \in fits : t.upTo <= u.upTo).batch

SelectBatchSize(free, d) ==
  LET limit == MemoryLimit(free, d)
  IN  IF ExplicitMax > 0 THEN Smaller(limit, ExplicitMax)
      ELSE IF RecommendedBatch(d) > 0 THEN Smaller(limit, RecommendedBatch(d)) ELSE limit

\* Memory the pools of all lanes but l hold.
Held(l) == MapThenSumSet(LAMBDA k : lane[k].pool, Lanes \ {l})

\* Broken: several streams are sized as if each had the card to itself.
FreeForWhole(l) == Total - Held(l)

FreeFor(l) ==
  LET share == IF Total > Headroom THEN Total - Headroom ELSE Total
  IN  IF Streams = 1 THEN Total - Held(l) ELSE Smaller(Total - Held(l), share \div Streams)

(***************************************************************************)
(* Whom a batch is for.                                                    *)
(***************************************************************************)
\* Broken devfee: one batch too few.
FeeLate(count) ==
  IF leased \/ prefixed \/ Cycle - count >= FeeSlots THEN "none"
  ELSE IF Eco /\ Cycle - count < (FeeSlots \div 2) THEN "eco" ELSE "dev"

Fee(count) ==
  IF leased \/ prefixed \/ Cycle - count > FeeSlots THEN "none"
  ELSE IF Eco /\ Cycle - count <= (FeeSlots \div 2) THEN "eco" ELSE "dev"
-----------------------------------------------------------------------------
\* Counts of a unit start anew with it. low: the least difficulty since the
\* lane last began to read; fees, ecos, plain: of the
\* cycle so far, the devfee batches and whether all were mined for the owner.
NewLane(l) ==
  [pc |-> "build", read |-> 0, cost |-> 0, batch |-> 0, pool |-> 0, count |-> 0,
   fees |-> 0, ecos |-> 0, begun |-> FALSE, plain |-> TRUE, low |-> 0]

TypeOK ==
  /\ difficulty \in Difficulties /\ margin \in Margins
  /\ {running, leased, prefixed} \subseteq BOOLEAN
  /\ \A l \in Lanes :
       /\ lane[l].pc \in {"build", "built", "size", "retry", "check", "checked", "batch", "ended"}
       /\ lane[l].count \in 0..(Cycle - 1) /\ lane[l].batch \in Nat
       /\ lane[l].pool \in Nat
       /\ lane[l].pc \in {"check", "checked", "batch"} => lane[l].batch > 0

Init ==
  /\ difficulty \in Difficulties /\ margin \in Margins /\ running = TRUE
  /\ leased = FALSE /\ prefixed = FALSE /\ changes = 0
  /\ opt \in Options
  /\ lane = [l \in Lanes |-> NewLane(l)]

Becomes(l, r) == lane' = [lane EXCEPT ![l] = r]

\* runMiningOnDevice's loop, or the end of it: the difficulty is read.
ReadDifficulty(l) ==
  /\ lane[l].pc = "build"
  /\ IF running
     THEN Becomes(l, [NewLane(l) EXCEPT !.pc = "built", !.read = difficulty, !.low = difficulty,
                                        !.pool = lane[l].pool])
     ELSE Becomes(l, [lane[l] EXCEPT !.pc = "ended"])
  /\ UNCHANGED settings

\* The margin is read; the unit's cost is fixed.
BuildUnit(l) ==
  /\ lane[l].pc = "built"
  /\ Becomes(l, [lane[l] EXCEPT !.pc = "size",
       !.cost = IF Locked(l) THEN Lock ELSE LiveMiningDifficulty(lane[l].read, margin)])
  /\ UNCHANGED settings

\* releaseBuffers, getFreeMemory, selectCudaBatchSize; 0 returns 1: 5 s and again.
SizeBatch(l) ==
  /\ lane[l].pc = "size"
  /\ LET n == SelectBatchSize(FreeFor(l), lane[l].cost)
     IN  Becomes(l, [lane[l] EXCEPT !.pc = IF n = 0 THEN "retry" ELSE "check",
                                        !.batch = n, !.pool = 0])
  /\ UNCHANGED settings

Retry(l) ==
  /\ lane[l].pc = "retry"
  /\ Becomes(l, [lane[l] EXCEPT !.pc = "build"])
  /\ UNCHANGED settings

\* The head of the mine loop: running, then the difficulty is read again.
CheckRunning(l) ==
  /\ lane[l].pc = "check"
  /\ Becomes(l, IF running THEN [lane[l] EXCEPT !.pc = "checked", !.read = difficulty, !.low = difficulty]
                ELSE [lane[l] EXCEPT !.pc = "build"])
  /\ UNCHANGED settings

\* Broken: a unit keeps the cost it was built with.
CheckCostNever(l) ==
  /\ lane[l].pc = "checked"
  /\ Becomes(l, [lane[l] EXCEPT !.pc = "batch"])
  /\ UNCHANGED settings

CheckCost(l) ==
  /\ lane[l].pc = "checked"
  /\ LET now == IF Locked(l) THEN Lock ELSE LiveMiningDifficulty(lane[l].read, margin)
     IN  Becomes(l, [lane[l] EXCEPT !.pc = IF now = lane[l].cost THEN "batch" ELSE "build"])
  /\ UNCHANGED settings

\* runBatch's answer is not ok (HashRunner has the reasons).
BatchFails(l) ==
  /\ lane[l].pc = "batch"
  /\ Becomes(l, [lane[l] EXCEPT !.pc = "retry"])
  /\ UNCHANGED settings

\* Broken: the counter is not taken round.
CountedOn(n) == n + 1

Counted(n) == IF n + 1 >= Cycle THEN 0 ELSE n + 1

\* A batch, its matches and its statistics. The first one allocates the pool.
MineBatch(l) ==
  /\ lane[l].pc = "batch"
  /\ lane[l].pool = 0 => lane[l].batch * lane[l].cost <= Total - Held(l)
  /\ LET u == lane[l]
         fee == Fee(u.count)
         was(n) == IF u.count = 0 THEN 0 ELSE n
     IN  Becomes(l, [u EXCEPT !.pc = "check", !.pool = u.batch * u.cost, !.count = Counted(u.count),
           !.begun = TRUE, !.plain = (u.count = 0 \/ u.plain) /\ ~leased /\ ~prefixed,
           !.fees = was(u.fees) + (IF fee = "none" THEN 0 ELSE 1),
           !.ecos = was(u.ecos) + (IF fee = "eco" THEN 1 ELSE 0)])
  /\ UNCHANGED settings

Lowered(d) == [l \in Lanes |-> [lane[l] EXCEPT !.low = Smaller(@, d)]]

\* updateDifficulty or a server's hint.
SetDifficulty ==
  /\ changes < MaxChanges /\ changes' = changes + 1
  /\ difficulty' \in Difficulties \ {difficulty}
  /\ lane' = Lowered(difficulty')
  /\ UNCHANGED <<margin, running, leased, prefixed, opt>>

\* The margin callback.
SetMargin ==
  /\ changes < MaxChanges /\ changes' = changes + 1
  /\ margin' \in Margins \ {margin}
  /\ UNCHANGED <<difficulty, running, leased, prefixed, opt, lane>>

\* MiningCoordinator::updateContext, setSelfMiningPrefix.
SetIdentity ==
  /\ changes < MaxChanges /\ changes' = changes + 1
  /\ \/ leased' = ~leased /\ UNCHANGED prefixed
     \/ prefixed' = ~prefixed /\ UNCHANGED leased
  /\ UNCHANGED <<difficulty, margin, running, opt, lane>>

StopMining ==
  /\ running /\ running' = FALSE
  /\ UNCHANGED <<difficulty, margin, leased, prefixed, opt, changes, lane>>

LaneStep(l) ==
  \/ ReadDifficulty(l) \/ BuildUnit(l) \/ SizeBatch(l) \/ Retry(l)
  \/ CheckRunning(l) \/ CheckCost(l) \/ BatchFails(l) \/ MineBatch(l)

AllEnded == (\A l \in Lanes : lane[l].pc = "ended") /\ UNCHANGED vars

Next ==
  \/ AllEnded
  \/ \E l \in Lanes : LaneStep(l)
  \/ SetDifficulty \/ SetMargin \/ SetIdentity \/ StopMining

\* Every lane's thread runs.
Spec == Init /\ [][Next]_vars /\ \A l \in Lanes : WF_vars(LaneStep(l))
-----------------------------------------------------------------------------
\* What a lane holds of the card, or will when its unit's first batch runs.
Claim(l) == IF lane[l].pc \in {"check", "checked", "batch"} THEN lane[l].batch * lane[l].cost
            ELSE lane[l].pool

\* The pools of all lanes, those only sized and not yet allocated included, fit
\* on the card together: lanes that size at the same time cannot starve another.
PoolsFit == MapThenSumSet(Claim, Lanes) <= Total

\* A batch on a live lane costs at least a difficulty that was current after
\* the lane last looked, although difficulty and margin are read one after the
\* other; a locked lane mines the lock exactly.
BatchCostCurrent ==
  \A l \in Lanes : lane[l].pc = "batch" =>
    IF Lock > 0 /\ l >= LiveLanes THEN lane[l].cost = Lock ELSE lane[l].cost >= lane[l].low

\* Of every cycle that was mined for the owner alone, exactly the last FeeSlots
\* batches are for the developers, the later half of them for the eco address
\* when there is one.
FeeShare ==
  \A l \in Lanes : lane[l].plain =>
    LET mined == IF lane[l].count = 0 /\ lane[l].begun THEN Cycle ELSE lane[l].count
        due == mined - (Cycle - FeeSlots)
        eco == mined - (Cycle - (FeeSlots \div 2))
    IN  /\ lane[l].fees = (IF due > 0 THEN due ELSE 0)
        /\ lane[l].ecos = (IF Eco /\ eco > 0 THEN eco ELSE 0)

\* A lane comes to mine at the cost its settings ask for, or is told again and
\* again that it has no memory for it, or mining ends.
LaneFollows ==
  \A l \in Lanes :
    []<>(\/ ~running \/ lane[l].pc = "retry"
         \/ lane[l].pc = "batch" /\ lane[l].cost = LaneMiningDifficulty(l))

\* Lanes share the card's memory, mine at a cost that is current and take the
\* fee that is due, while settings change between any two of their reads.
LanesInvariant == TypeOK /\ PoolsFit /\ BatchCostCurrent /\ FeeShare
==============================================================================
