---------------------------- MODULE FeedbackProofs ----------------------------
(***************************************************************************)
(* Proofs about what the miner concludes from the server's health: the     *)
(* circuit breaker (BreakerDriver), the difficulty margin (MarginRamp) and  *)
(* the polled difficulty (DifficultyCache), for every threshold, interval,  *)
(* cap, period and answer that their assumptions allow and for any number   *)
(* of kills and restarts of the poller.                                     *)
(***************************************************************************)
EXTENDS BreakerDriver, MarginRamp, DifficultyCache, TLAPS

(* The circuit breaker.                                                     *)

(* The jitter never pushes a delay beyond the jitter fraction of a larger  *)
(* interval: the arithmetic behind ProbeBounded.                           *)
LEMMA JitterBound ==
  ASSUME NEW pct \in Nat, NEW base \in Nat, NEW bound \in Nat, NEW j \in Nat,
         base <= bound, j = 0 \/ 100 * j < pct * base
  PROVE  100 * (base + j) <= (100 + pct) * bound
<1>1. 100 * j <= pct * base
  <2>1. pct * base \in Nat
    OBVIOUS
  <2>2. QED
    BY <2>1
<1>2. PICK d \in Nat : bound = base + d
  <2>1. bound - base \in Nat /\ bound = base + (bound - base)
    OBVIOUS
  <2>2. QED
    BY <2>1
<1>3. (100 + pct) * bound = 100 * base + pct * base + (100 + pct) * d
  BY <1>2
<1>4. pct * base \in Nat /\ (100 + pct) * d \in Nat
  BY <1>2
<1>5. QED
  BY <1>1, <1>3, <1>4

(* Every delay scheduleProbe_ computes stays within the jitter fraction of *)
(* the interval, and within the XUNI cap while an eligible XUNI exists.    *)
LEMMA DelayBound ==
  ASSUME NEW b \in BreakerRecord, NEW j \in Jitters(ProbeBaseDelay(b))
  PROVE  /\ ProbeDelay(b, j) \in Nat
         /\ 100 * ProbeDelay(b, j) <= (100 + JitterPct) * b.interval
         /\ b.pressure => ProbeDelay(b, j) <= ProbeCapXuni
<1> DEFINE base == ProbeBaseDelay(b)
<1>1. /\ base \in Nat /\ base <= b.interval
      /\ ActiveCap(b) \in Nat
      /\ b.pressure => ActiveCap(b) <= ProbeCapXuni
      /\ b.interval \in Nat /\ b.pressure \in BOOLEAN
  BY BreakerAssumption DEF BreakerRecord, ProbeBaseDelay, ActiveCap, Lesser
<1>2. /\ j \in Nat
      /\ j = 0 \/ 100 * j < JitterPct * base
  <2>1. JitterPct * base \in Nat
    BY <1>1, BreakerAssumption
  <2>2. QED
    BY <2>1 DEF Jitters
<1> HIDE DEF base
<1>3. 100 * (base + j) <= (100 + JitterPct) * b.interval
  BY <1>1, <1>2, JitterBound, BreakerAssumption
<1>4. ProbeDelay(b, j) \in Nat /\ ProbeDelay(b, j) <= base + j
  BY <1>1, <1>2 DEF ProbeDelay, Lesser, base
<1>5. b.pressure => ProbeDelay(b, j) <= ProbeCapXuni
  BY <1>1, <1>2, BreakerAssumption DEF ProbeDelay, Lesser, base
<1>6. (100 + JitterPct) * b.interval \in Nat
  BY <1>1, BreakerAssumption
<1>7. QED
  BY <1>1, <1>2, <1>3, <1>4, <1>5, <1>6

-----------------------------------------------------------------------------
(* HALF_OPEN is entered from Open, so the interval a failed test submission *)
(* escalates is already within its bounds.                                 *)
IntervalSettled ==
  breaker.state = "HalfOpen" => ProbeBase <= breaker.interval /\ breaker.interval <= ProbeCap

IInv ==
  /\ BreakerTypeOK
  /\ SingleAdmission
  /\ CountsConsecutive
  /\ ProbeBounded
  /\ IntervalSettled

(* The part of IInv that speaks of the breaker and its counters; the two   *)
(* Boolean flags are typed by a lemma of their own.                        *)
Core ==
  /\ breaker \in BreakerRecord
  /\ streak \in 0..FailureThreshold
  /\ SingleAdmission
  /\ CountsConsecutive
  /\ ProbeBounded
  /\ IntervalSettled

(* The invariant is the breaker's part and two flags.                       *)
LEMMA IInvSplit == IInv <=> Core /\ inflight \in BOOLEAN /\ up \in BOOLEAN
BY DEF IInv, Core, BreakerTypeOK

(* The breaker starts closed.                                               *)
LEMMA InitIInv == BreakerInit => IInv
<1> SUFFICES ASSUME BreakerInit PROVE IInv
  OBVIOUS
<1>1. inflight \in BOOLEAN /\ up \in BOOLEAN
  BY DEF BreakerInit
<1>2. breaker \in BreakerRecord
  BY DEF BreakerInit, InitBreaker, BreakerRecord, BreakerStates
<1>3. streak \in 0..FailureThreshold
  BY BreakerAssumption DEF BreakerInit
<1>4. SingleAdmission /\ ProbeBounded /\ IntervalSettled
  BY DEF BreakerInit, InitBreaker, SingleAdmission, ProbeBounded, IntervalSettled
<1>5. CountsConsecutive
  BY BreakerAssumption DEF BreakerInit, InitBreaker, CountsConsecutive
<1>6. QED
  BY <1>1, <1>2, <1>3, <1>4, <1>5, IInvSplit DEF Core

(* Every step keeps the two flags typed.                                    *)
LEMMA NextFlags ==
  inflight \in BOOLEAN /\ up \in BOOLEAN /\ [BreakerNext]_breakerVars
    => inflight' \in BOOLEAN /\ up' \in BOOLEAN
BY DEF BreakerNext, breakerVars, Tick, Probe, TryAdmit, ReportSuccess, ReportFailure, ReportInconclusive,
       SetPressure, ServerChanges

(* Whatever reschedules a probe of an Open breaker keeps ProbeBounded.     *)
LEMMA ScheduleBounded ==
  ASSUME NEW b \in BreakerRecord, NEW j \in Jitters(ProbeBaseDelay(b))
  PROVE  /\ ScheduleProbe(b, j) \in BreakerRecord
         /\ ScheduleProbe(b, j).state = b.state
         /\ ScheduleProbe(b, j).interval = b.interval
         /\ ScheduleProbe(b, j).admission = b.admission
         /\ ScheduleProbe(b, j).pressure = b.pressure
         /\ 100 * ScheduleProbe(b, j).probeIn <= (100 + JitterPct) * b.interval
         /\ b.pressure => ScheduleProbe(b, j).probeIn <= ProbeCapXuni
<1>1. ScheduleProbe(b, j).probeIn = ProbeDelay(b, j)
  BY DEF ScheduleProbe, BreakerRecord
<1>2. QED
  BY <1>1, DelayBound DEF ScheduleProbe, BreakerRecord

(* Every step keeps the breaker's part of the invariant.                    *)
LEMMA NextCore == Core /\ [BreakerNext]_breakerVars => Core'
<1> SUFFICES ASSUME Core, [BreakerNext]_breakerVars PROVE Core'
  OBVIOUS
<1> USE BreakerAssumption
<1> USE DEF BreakerRecord, BreakerStates, SingleAdmission, CountsConsecutive,
            IntervalSettled, Core
<1>0. breaker \in BreakerRecord
  OBVIOUS
<1>1. CASE Tick
  BY <1>1 DEF Tick, ElapseBreaker, ProbeBounded
<1>2. CASE Probe
  <2>1. CASE up /\ breaker' = OnProbeSuccess(breaker)
    BY <1>2, <2>1 DEF Probe, ProbeDue, OnProbeSuccess, ProbeBounded
  <2>2. CASE ~up /\ \E j \in Jitters(ProbeBaseDelay(OnProbeFailure(breaker, 0))) :
                      breaker' = OnProbeFailure(breaker, j)
    <3> DEFINE raised == [breaker EXCEPT !.interval = Lesser(2 * breaker.interval, ProbeCap)]
    <3>1. breaker.state = "Open"
      BY <1>2 DEF Probe, ProbeDue
    <3>2. /\ raised \in BreakerRecord
          /\ ProbeBase <= raised.interval /\ raised.interval <= ProbeCap
          /\ raised.state = "Open" /\ ~raised.admission
          /\ raised.pressure = breaker.pressure
      BY <3>1 DEF Lesser, ProbeBounded
    <3>3. ProbeBaseDelay(OnProbeFailure(breaker, 0)) = ProbeBaseDelay(raised)
      BY <3>1, <3>2 DEF OnProbeFailure, ScheduleProbe, ProbeBaseDelay, ActiveCap
    <3>4. PICK j \in Jitters(ProbeBaseDelay(raised)) : breaker' = ScheduleProbe(raised, j)
      BY <2>2, <3>1, <3>3 DEF OnProbeFailure
    <3>5. /\ breaker' \in BreakerRecord
          /\ breaker'.state = "Open" /\ ~breaker'.admission
          /\ breaker'.interval = raised.interval
          /\ 100 * breaker'.probeIn <= (100 + JitterPct) * raised.interval
          /\ breaker'.pressure => breaker'.probeIn <= ProbeCapXuni
      BY <3>2, <3>4, ScheduleBounded
    <3> HIDE DEF raised
    <3>6. ~inflight' /\ streak' = streak
      BY <1>2, <3>1 DEF Probe
    <3>7. ProbeBounded'
      BY <3>2, <3>5 DEF ProbeBounded
    <3>8. QED
      BY <3>5, <3>6, <3>7
  <2>3. QED
    BY <1>2, <2>1, <2>2 DEF Probe
<1>3. CASE TryAdmit
  BY <1>3 DEF TryAdmit, CanAdmit, Admit, ProbeBounded
<1>4. CASE ReportSuccess
  <2>1. /\ breaker' \in BreakerRecord
        /\ breaker'.state = "Closed" /\ breaker'.failures = 0 /\ ~breaker'.admission
    BY <1>4 DEF ReportSuccess, OnVerifySuccess
  <2>2. streak' = 0
    BY <1>4 DEF ReportSuccess
  <2>3. QED
    BY <2>1, <2>2 DEF ProbeBounded
<1>5. CASE ReportFailure
  <2>1. CASE breaker.state = "Closed" /\ breaker.failures + 1 < FailureThreshold
    BY <1>5, <2>1 DEF ReportFailure, OnVerifyTransportFailure, Lesser, ProbeBounded
  <2>2. CASE ~(breaker.state = "Closed" /\ breaker.failures + 1 < FailureThreshold)
    <3>a. /\ breaker.state \in {"Closed", "HalfOpen"} /\ breaker.failures \in Nat
          /\ breaker.state = "Closed" => breaker.failures + 1 >= FailureThreshold
      BY <1>5, <2>2 DEF ReportFailure
    <3> DEFINE raised == IF breaker.state = "HalfOpen"
                         THEN [breaker EXCEPT !.interval = ReopenInterval(breaker),
                                              !.state = "Open", !.admission = FALSE]
                         ELSE [breaker EXCEPT !.failures = breaker.failures + 1,
                                              !.interval = ProbeBase,
                                              !.state = "Open", !.admission = FALSE]
    <3>0. /\ breaker.failures + 1 \in Nat
          /\ breaker.state = "HalfOpen" =>
               /\ ReopenInterval(breaker) \in Nat
               /\ ProbeBase <= ReopenInterval(breaker) /\ ReopenInterval(breaker) <= ProbeCap
      BY DEF ReopenInterval, Lesser, Greater
    <3>1. /\ raised \in BreakerRecord
          /\ ProbeBase <= raised.interval /\ raised.interval <= ProbeCap
          /\ raised.state = "Open" /\ ~raised.admission
      <4>1. CASE breaker.state = "HalfOpen"
        BY <3>a, <3>0, <4>1
      <4>2. CASE breaker.state # "HalfOpen"
        <5>1. raised = [breaker EXCEPT !.failures = breaker.failures + 1,
                                       !.interval = ProbeBase,
                                       !.state = "Open", !.admission = FALSE]
          BY <4>2
        <5> HIDE DEF raised
        <5>2. /\ raised.interval = ProbeBase /\ raised.state = "Open"
              /\ ~raised.admission
          BY <5>1
        <5>3. raised \in BreakerRecord
          BY <3>0, <5>1
        <5>4. QED
          BY <5>2, <5>3
      <4>3. QED
        BY <4>1, <4>2
    <3>2. \A j : OnVerifyTransportFailure(breaker, j) = ScheduleProbe(raised, j)
      BY <3>a DEF OnVerifyTransportFailure, OpenBreaker
    <3> HIDE DEF raised
    <3>3. ProbeBaseDelay(ScheduleProbe(raised, 0)) = ProbeBaseDelay(raised)
      BY <3>1 DEF ScheduleProbe, ProbeBaseDelay, ActiveCap
    <3>4. PICK j \in Jitters(ProbeBaseDelay(raised)) : breaker' = ScheduleProbe(raised, j)
      BY <1>5, <3>2, <3>3 DEF ReportFailure
    <3>5. /\ breaker' \in BreakerRecord
          /\ breaker'.state = "Open" /\ ~breaker'.admission
          /\ breaker'.interval = raised.interval
          /\ 100 * breaker'.probeIn <= (100 + JitterPct) * raised.interval
          /\ breaker'.pressure => breaker'.probeIn <= ProbeCapXuni
      BY <3>1, <3>4, ScheduleBounded
    <3>6. ~inflight' /\ streak' \in 0..FailureThreshold
      BY <1>5 DEF ReportFailure, Lesser
    <3>7. ProbeBounded'
      BY <3>1, <3>5 DEF ProbeBounded
    <3>8. QED
      BY <3>5, <3>6, <3>7
  <2>3. QED
    BY <2>1, <2>2
<1>6. CASE ReportInconclusive
  <2>1. /\ breaker' \in BreakerRecord
        /\ breaker'.state = breaker.state /\ breaker'.failures = 0
        /\ breaker'.interval = breaker.interval
        /\ breaker.state = "HalfOpen" => breaker'.admission
        /\ breaker.state = "Closed" => ~breaker'.admission
    BY <1>6 DEF ReportInconclusive, OnVerifyInconclusive
  <2>2. breaker.state # "Open" /\ streak' = 0 /\ ~inflight'
    BY <1>6 DEF ReportInconclusive
  <2>3. QED
    BY <2>1, <2>2 DEF ProbeBounded
<1>7. CASE SetPressure
  <2>1. PICK eligible \in BOOLEAN : breaker' = SetXuniPressure(breaker, eligible)
    BY <1>7 DEF SetPressure
  <2>2. /\ breaker' \in BreakerRecord
        /\ breaker'.state = breaker.state
        /\ breaker'.failures = breaker.failures /\ breaker'.interval = breaker.interval
        /\ breaker'.probeIn <= breaker.probeIn
    <3>1. CASE ~breaker.pressure /\ eligible /\ breaker.state = "Open"
      <4> DEFINE cap == ActiveCap([breaker EXCEPT !.pressure = eligible])
      <4>1. cap \in Nat
        BY DEF ActiveCap, Lesser
      <4> HIDE DEF cap
      <4>2. /\ Lesser(breaker.probeIn, cap) \in Nat
            /\ Lesser(breaker.probeIn, cap) <= breaker.probeIn
        BY <4>1 DEF Lesser
      <4>3. breaker' = [breaker EXCEPT !.pressure = eligible,
                                       !.probeIn = Lesser(breaker.probeIn, cap)]
        BY <2>1, <3>1 DEF SetXuniPressure, cap
      <4>4. QED
        BY <4>2, <4>3
    <3>2. CASE ~(~breaker.pressure /\ eligible /\ breaker.state = "Open")
      <4>1. breaker' = [breaker EXCEPT !.pressure = eligible]
        BY <2>1, <3>2 DEF SetXuniPressure
      <4>2. QED
        BY <4>1
    <3>3. QED
      BY <3>1, <3>2
  <2>3. /\ breaker'.admission = breaker.admission
        /\ breaker'.pressure = eligible
    BY <2>1 DEF SetXuniPressure
  <2>4. breaker.state = "Open" /\ eligible => breaker'.probeIn <= ProbeCapXuni
    BY <2>1 DEF SetXuniPressure, ActiveCap, Lesser, ProbeBounded
  <2>5. UNCHANGED <<inflight, streak>>
    BY <1>7 DEF SetPressure
  <2>6. ProbeBounded'
    <3>1. /\ breaker.probeIn \in Nat /\ breaker'.probeIn \in Nat /\ breaker.interval \in Nat
      BY <2>2
    <3>2. (100 + JitterPct) * breaker.interval \in Nat
      BY <3>1
    <3>3. 100 * breaker'.probeIn <= 100 * breaker.probeIn
      BY <2>2, <3>1
    <3>4. QED
      BY <2>2, <2>3, <2>4, <3>1, <3>2, <3>3 DEF ProbeBounded
  <2>7. CountsConsecutive' /\ IntervalSettled'
    BY <2>2, <2>5
  <2>8. SingleAdmission'
    BY <2>2, <2>3, <2>5
  <2>9. QED
    BY <2>2, <2>5, <2>6, <2>7, <2>8 DEF Core
<1>8. CASE ServerChanges
  BY <1>8 DEF ServerChanges, ProbeBounded
<1>9. CASE UNCHANGED breakerVars
  BY <1>9 DEF breakerVars, ProbeBounded
<1>10. QED
  BY <1>1, <1>2, <1>3, <1>4, <1>5, <1>6, <1>7, <1>8, <1>9 DEF BreakerNext

(* The inductive invariant holds.                                           *)
LEMMA Invariance == BreakerSpec => []IInv
<1>1. IInv /\ [BreakerNext]_breakerVars => IInv'
  BY NextCore, NextFlags DEF IInv, Core, BreakerTypeOK
<1>2. QED
  BY InitIInv, <1>1, PTL DEF BreakerSpec

(* The breaker's state stays in its declared ranges, whatever the order of *)
(* probes, submissions, pressure changes and clock ticks.                  *)
THEOREM BreakerTypeCorrect == BreakerSpec => []BreakerTypeOK
<1>1. IInv => BreakerTypeOK
  BY DEF IInv
<1>2. QED
  BY Invariance, <1>1, PTL

(* tryAdmit never lets a second test submission out of HALF_OPEN, none out *)
(* of OPEN, and never loses the admission it has to give.                  *)
THEOREM BreakerSingleAdmission == BreakerSpec => []SingleAdmission
<1>1. IInv => SingleAdmission
  BY DEF IInv
<1>2. QED
  BY Invariance, <1>1, PTL

(* consecutive_failures_ counts consecutive failures, for every threshold. *)
THEOREM BreakerCountsConsecutive == BreakerSpec => []CountsConsecutive
<1>1. IInv => CountsConsecutive
  BY DEF IInv
<1>2. QED
  BY Invariance, <1>1, PTL

(* scheduleProbe_, onProbeFailure and setXuniPressure keep the wait of an  *)
(* OPEN breaker within its caps, for every base, cap and jitter fraction.  *)
THEOREM BreakerProbeBounded == BreakerSpec => []ProbeBounded
<1>1. IInv => ProbeBounded
  BY DEF IInv
<1>2. QED
  BY Invariance, <1>1, PTL

(* Only onVerifySuccess for the admitted submission closes the breaker.    *)
THEOREM BreakerClosesOnlyOnSuccess == BreakerSpec => ClosesOnlyOnSuccess
<1>1. ASSUME IInv, [BreakerNext]_breakerVars, breaker.state # "Closed", breaker'.state = "Closed"
      PROVE  breaker.state = "HalfOpen" /\ inflight /\ up
  <2>1. breaker \in BreakerRecord /\ SingleAdmission
    BY <1>1 DEF IInv, BreakerTypeOK
  <2>2. CASE ReportSuccess
    <3>1. inflight /\ up
      BY <2>2 DEF ReportSuccess
    <3>2. QED
      BY <1>1, <2>1, <3>1 DEF SingleAdmission, BreakerRecord, BreakerStates
  <2>3. CASE ReportFailure
    BY <1>1, <2>1, <2>3
    DEF ReportFailure, OnVerifyTransportFailure, OpenBreaker, ScheduleProbe, BreakerRecord
  <2>4. CASE Tick \/ SetPressure \/ ReportInconclusive
    BY <1>1, <2>1, <2>4
    DEF Tick, ElapseBreaker, SetPressure, SetXuniPressure, ReportInconclusive,
        OnVerifyInconclusive, BreakerRecord
  <2>5. CASE Probe
    BY <1>1, <2>1, <2>5
    DEF Probe, OnProbeSuccess, OnProbeFailure, ScheduleProbe, BreakerRecord
  <2>6. CASE TryAdmit \/ ServerChanges \/ UNCHANGED breakerVars
    BY <1>1, <2>1, <2>6 DEF TryAdmit, Admit, ServerChanges, breakerVars, BreakerRecord
  <2>7. QED
    BY <1>1, <2>2, <2>3, <2>4, <2>5, <2>6 DEF BreakerNext
<1>2. QED
  BY Invariance, <1>1, PTL DEF BreakerSpec, ClosesOnlyOnSuccess

(* CircuitBreaker.cpp keeps admission, count and wait right together, for   *)
(* every threshold, interval and jitter.                                    *)
THEOREM BreakerSound == BreakerSpec => []BreakerInvariant
<1>1. BreakerTypeOK /\ SingleAdmission /\ CountsConsecutive /\ ProbeBounded => BreakerInvariant
  BY DEF BreakerInvariant
<1>2. QED
  BY <1>1, BreakerTypeCorrect, BreakerSingleAdmission, BreakerCountsConsecutive,
     BreakerProbeBounded, PTL

-----------------------------------------------------------------------------
(* The difficulty margin.                                                   *)

(* The history clocks tell which side of the breaker is in force.           *)
SidesKnown ==
  /\ openFor # NoAge <=> path.state = "Open"
  /\ upFor # NoAge <=> path.state # "Open"

(* The outage clock starts one poll after the breaker opened, at the latest *)
(* in the next unit of time, and runs with it from then on.                 *)
OutageFollows ==
  path.state = "Open" =>
    IF outage = NoAge THEN openFor = 0 \/ (openFor = 1 /\ ~polled) ELSE outage >= openFor - 1

(* An evaluation is never older than the delay, and younger after a poll.   *)
EvalFresh ==
  mode = "Auto" =>
    IF evaluated = NoAge THEN ~polled /\ openFor = NoAge /\ upFor = 0
    ELSE evaluated <= EvalDelay /\ (polled => evaluated < EvalDelay)

(* The step of the schedule after an outage of this age.                    *)
RampAt(age) == Lesser(MarginKib * (1 + (age \div Period)), MaxKib)

(* The margin was on pace when it was last evaluated with the path down.    *)
PaceSinceEval ==
  mode = "Auto" /\ evaluated # NoAge /\ openFor > evaluated => margin >= RampAt(openFor - evaluated - 1)

(* The ramp had ended when it was last evaluated with the path up.          *)
EndSinceEval ==
  mode = "Auto" /\ evaluated # NoAge /\ upFor > evaluated => margin <= MarginKib

MarginInductive ==
  MarginTypeOK /\ SidesKnown /\ OutageFollows /\ EvalFresh /\ PaceSinceEval /\ EndSinceEval

(* Division of natural numbers is monotonic.                                *)
LEMMA DivMonotonic ==
  ASSUME NEW a \in Nat, NEW b \in Nat, NEW p \in Nat \ {0}, a <= b
  PROVE  a \div p \in Nat /\ a \div p <= b \div p
<1> DEFINE qa == a \div p
           qb == b \div p
<1>1. qa \in Int /\ p * qa <= a /\ a < p * qa + p
  OBVIOUS
<1>2. qb \in Int /\ p * qb <= b /\ b < p * qb + p
  OBVIOUS
<1> HIDE DEF qa, qb
<1>3. ASSUME NEW x \in Int, NEW y \in Int, y >= x + 1
      PROVE  p * y >= p * x + p
  <2>1. PICK d \in Nat : y = x + 1 + d
    <3>1. y - x - 1 \in Nat /\ y = x + 1 + (y - x - 1)
      BY <1>3
    <3>2. QED
      BY <3>1
  <2>2. p * y = p * x + p + p * d /\ p * d \in Nat
    BY <2>1
  <2>3. p * x \in Int /\ p * y \in Int
    OBVIOUS
  <2>4. QED
    BY <2>2, <2>3
<1>4. qa <= qb
  <2>1. SUFFICES ASSUME qa >= qb + 1 PROVE FALSE
    BY <1>1, <1>2
  <2>2. p * qa >= p * qb + p
    BY <1>1, <1>2, <1>3, <2>1
  <2>3. p * qa \in Int /\ p * qb \in Int
    BY <1>1, <1>2
  <2>4. QED
    BY <1>1, <1>2, <2>2, <2>3
<1>5. qa >= 0
  <2>1. SUFFICES ASSUME 0 >= qa + 1 PROVE FALSE
    BY <1>1
  <2>2. p * 0 >= p * qa + p
    BY <1>1, <1>3, <2>1
  <2>3. p * qa \in Int /\ p * 0 = 0
    BY <1>1
  <2>4. QED
    BY <1>1, <2>2, <2>3
<1>6. QED
  BY <1>1, <1>4, <1>5 DEF qa, qb

(* The schedule of computeMargin never goes down and stops at the ceiling.  *)
LEMMA RampMonotonic ==
  ASSUME NEW a \in Nat, NEW b \in Nat, a <= b
  PROVE  RampAt(a) \in 0..MaxKib /\ RampAt(a) <= RampAt(b)
<1>1. /\ a \div Period \in Nat /\ b \div Period \in Nat /\ a \div Period <= b \div Period
  BY DivMonotonic, MarginAssumption
<1>2. \A x, y \in Nat : x <= y => MarginKib * (1 + x) \in Nat /\ MarginKib * (1 + x) <= MarginKib * (1 + y)
  <2>1. SUFFICES ASSUME NEW x \in Nat, NEW y \in Nat, x <= y
                 PROVE  MarginKib * (1 + x) \in Nat /\ MarginKib * (1 + x) <= MarginKib * (1 + y)
    OBVIOUS
  <2>2. PICK d \in Nat : y = x + d
    <3>1. y - x \in Nat /\ y = x + (y - x)
      BY <2>1
    <3>2. QED
      BY <3>1
  <2>3. MarginKib * (1 + y) = MarginKib * (1 + x) + MarginKib * d
    BY <2>2, MarginAssumption
  <2>4. MarginKib * (1 + x) \in Nat /\ MarginKib * d \in Nat
    BY <2>2, MarginAssumption
  <2>5. QED
    BY <2>3, <2>4
<1> DEFINE ma == MarginKib * (1 + (a \div Period))
           mb == MarginKib * (1 + (b \div Period))
<1>3. ma \in Nat /\ mb \in Nat /\ ma <= mb
  BY <1>1, <1>2
<1>4. RampAt(a) = Lesser(ma, MaxKib) /\ RampAt(b) = Lesser(mb, MaxKib)
  BY DEF RampAt
<1> HIDE DEF ma, mb
<1>5. QED
  BY <1>3, <1>4, MarginAssumption DEF Lesser

(* Whatever a step does to the breaker leaves a breaker.                    *)
LEMMA StepsTyped == ASSUME NEW b \in BreakerRecord PROVE StepsOf(b) \subseteq BreakerRecord
<1>1. ASSUME NEW c \in BreakerRecord PROVE ScheduleProbe(c, 0) \in BreakerRecord
  <2>1. ProbeBaseDelay(c) \in Nat
    BY BreakerAssumption DEF BreakerRecord, ProbeBaseDelay, ActiveCap, Lesser
  <2>2. JitterPct * ProbeBaseDelay(c) \in Nat
    BY <2>1, BreakerAssumption
  <2>3. 0 \in Jitters(ProbeBaseDelay(c))
    BY <2>2 DEF Jitters
  <2>4. QED
    BY <2>3, ScheduleBounded
<1>2. ASSUME NEW c \in BreakerRecord
      PROVE  /\ OnProbeSuccess(c) \in BreakerRecord /\ OnProbeFailure(c, 0) \in BreakerRecord
             /\ Admit(c) \in BreakerRecord /\ OnVerifySuccess(c) \in BreakerRecord
             /\ OnVerifyInconclusive(c) \in BreakerRecord
  <2>1. [c EXCEPT !.interval = Lesser(2 * c.interval, ProbeCap)] \in BreakerRecord
    BY BreakerAssumption DEF BreakerRecord, Lesser
  <2>2. OnProbeFailure(c, 0) \in BreakerRecord
    BY <1>1, <2>1 DEF OnProbeFailure
  <2>3. OnProbeSuccess(c) \in BreakerRecord /\ Admit(c) \in BreakerRecord
    BY DEF OnProbeSuccess, Admit, BreakerRecord, BreakerStates
  <2>4. OnVerifySuccess(c) \in BreakerRecord /\ OnVerifyInconclusive(c) \in BreakerRecord
    BY BreakerAssumption DEF OnVerifySuccess, OnVerifyInconclusive, BreakerRecord, BreakerStates
  <2>5. QED
    BY <2>2, <2>3, <2>4
<1>3. ASSUME NEW c \in BreakerRecord PROVE OnVerifyTransportFailure(c, 0) \in BreakerRecord
  <2>1. [c EXCEPT !.interval = ReopenInterval(c), !.state = "Open", !.admission = FALSE] \in BreakerRecord
    <3>1. ReopenInterval(c) \in Nat
      BY BreakerAssumption DEF ReopenInterval, Lesser, Greater, BreakerRecord
    <3>2. QED
      BY <3>1 DEF BreakerRecord, BreakerStates
  <2>2. [c EXCEPT !.failures = c.failures + 1, !.interval = ProbeBase, !.state = "Open",
                  !.admission = FALSE] \in BreakerRecord
    <3>1. c.failures + 1 \in Nat /\ ProbeBase \in Nat
      BY BreakerAssumption DEF BreakerRecord
    <3>2. QED
      BY <3>1 DEF BreakerRecord, BreakerStates
  <2>3. [c EXCEPT !.failures = c.failures + 1] \in BreakerRecord
    BY DEF BreakerRecord
  <2>4. CASE c.state = "HalfOpen"
    BY <1>1, <2>1, <2>4 DEF OnVerifyTransportFailure, OpenBreaker
  <2>5. CASE c.state # "HalfOpen"
    BY <1>1, <2>2, <2>3, <2>5 DEF OnVerifyTransportFailure, OpenBreaker
  <2>6. QED
    BY <2>4, <2>5
<1>4. QED
  BY <1>2, <1>3 DEF StepsOf, Probed, Drained

(* The margin starts at zero, with no outage.                               *)
LEMMA InitMarginInductive == MarginInit => MarginInductive
<1> SUFFICES ASSUME MarginInit PROVE MarginInductive
  OBVIOUS
<1>1. owed \in BOOLEAN /\ quarantined \in BOOLEAN /\ polled \in BOOLEAN
  BY Zenon DEF MarginInit
<1>2. path \in BreakerRecord /\ path.state = "Closed"
  BY DEF MarginInit, InitBreaker, BreakerRecord, BreakerStates
<1>3. /\ mode \in {"Off", "Fixed", "Auto"}
      /\ outage \in -1..MaxAge /\ evaluated \in -1..MaxAge /\ span \in 0..MaxAge
      /\ openFor \in -1..MaxAge /\ upFor \in -1..MaxAge
  BY MarginAssumption DEF MarginInit, NoAge
<1>4. margin \in 0..(IF mode = "Auto" THEN MaxKib ELSE MarginKib)
  BY MarginAssumption DEF MarginInit
<1>5. MarginTypeOK
  BY <1>1, <1>2, <1>3, <1>4 DEF MarginTypeOK
<1>6. SidesKnown /\ OutageFollows /\ EvalFresh /\ PaceSinceEval /\ EndSinceEval
  BY <1>2 DEF MarginInit, SidesKnown, OutageFollows, EvalFresh, PaceSinceEval, EndSinceEval, NoAge
<1>7. QED
  BY <1>5, <1>6 DEF MarginInductive

(* The clocks of one step, without the margin.                              *)
LEMMA SinceTyped ==
  ASSUME NEW age \in -1..MaxAge, NEW holds \in BOOLEAN
  PROVE  /\ Since(age, holds) \in -1..MaxAge
         /\ Since(age, holds) # NoAge <=> holds
         /\ holds /\ age # NoAge => Since(age, holds) = age
         /\ holds /\ age = NoAge => Since(age, holds) = 0
BY MarginAssumption DEF Since, NoAge

(* What computeMargin returns.                                              *)
LEMMA MarginComputed ==
  ASSUME mode \in {"Off", "Fixed", "Auto"}, NEW isOpen \in BOOLEAN, NEW age \in Int, NEW backlog \in BOOLEAN,
         isOpen => age \in Nat
  PROVE  /\ ComputeMargin(isOpen, age, backlog) \in 0..(IF mode = "Auto" THEN MaxKib ELSE MarginKib)
         /\ mode = "Auto" /\ isOpen => ComputeMargin(isOpen, age, backlog) = RampAt(age)
         /\ mode = "Auto" /\ ~isOpen => ComputeMargin(isOpen, age, backlog) <= MarginKib
<1>1. CASE mode # "Auto"
  BY <1>1, MarginAssumption DEF ComputeMargin
<1>2. CASE mode = "Auto" /\ isOpen
  <2>1. ComputeMargin(isOpen, age, backlog) = RampAt(age)
    BY <1>2 DEF ComputeMargin, RampAt
  <2>2. RampAt(age) \in 0..MaxKib
    BY <1>2, RampMonotonic
  <2>3. QED
    BY <1>2, <2>1, <2>2
<1>3. CASE mode = "Auto" /\ ~isOpen
  <2>1. MarginKib * (1 + 0) = MarginKib
    BY MarginAssumption
  <2>2. ComputeMargin(isOpen, age, backlog) = 0 \/ ComputeMargin(isOpen, age, backlog) = Lesser(MarginKib, MaxKib)
    BY <1>3, <2>1 DEF ComputeMargin
  <2>3. QED
    BY <1>3, <2>2, MarginAssumption DEF Lesser
<1>4. QED
  BY <1>1, <1>2, <1>3

(* A step of the submission thread keeps the invariant.                     *)
LEMMA RunStepMargin == MarginInductive /\ RunStep => MarginInductive'
<1> SUFFICES ASSUME MarginInductive, RunStep PROVE MarginInductive'
  OBVIOUS
<1> DEFINE isOpen == path.state = "Open"
           opens == path'.state = "Open"
<1>0. /\ mode \in {"Off", "Fixed", "Auto"} /\ path \in BreakerRecord
      /\ outage \in -1..MaxAge /\ evaluated \in -1..MaxAge /\ span \in 0..MaxAge
      /\ margin \in 0..(IF mode = "Auto" THEN MaxKib ELSE MarginKib)
      /\ openFor \in -1..MaxAge /\ upFor \in -1..MaxAge
  BY DEF MarginInductive, MarginTypeOK
<1>b. owed \in BOOLEAN /\ quarantined \in BOOLEAN
  BY Zenon DEF MarginInductive, MarginTypeOK
<1>s. SidesKnown /\ OutageFollows /\ EvalFresh /\ PaceSinceEval /\ EndSinceEval
  BY DEF MarginInductive
<1>1. path' \in BreakerRecord
  BY <1>0, StepsTyped DEF RunStep
<1>2. mode' = mode /\ owed' = owed /\ quarantined' = quarantined /\ polled' = TRUE
  BY DEF RunStep
<1>3. /\ outage' \in -1..MaxAge /\ (outage' # NoAge <=> isOpen)
      /\ isOpen /\ outage # NoAge => outage' = outage
      /\ isOpen /\ outage = NoAge => outage' = 0
  BY <1>0, SinceTyped DEF RunStep, UpdateMargin, OutageClock
<1>4. /\ openFor' \in -1..MaxAge /\ (openFor' # NoAge <=> opens)
      /\ opens /\ openFor # NoAge => openFor' = openFor
      /\ opens /\ openFor = NoAge => openFor' = 0
  BY <1>0, SinceTyped DEF RunStep
<1>5. /\ upFor' \in -1..MaxAge /\ (upFor' # NoAge <=> ~opens)
      /\ ~opens /\ upFor # NoAge => upFor' = upFor
      /\ ~opens /\ upFor = NoAge => upFor' = 0
  BY <1>0, SinceTyped DEF RunStep
<1>6. span' \in 0..MaxAge
  BY <1>0 DEF RunStep, UpdateMargin, NoAge
<1>7. /\ EvalDue => evaluated' = 0 /\ margin' = ComputeMargin(isOpen, outage', owed \/ quarantined)
      /\ ~EvalDue => evaluated' = evaluated /\ margin' = margin
  BY DEF RunStep, UpdateMargin
<1>8. isOpen => outage' \in Nat
  BY <1>3 DEF NoAge
<1>9. /\ ComputeMargin(isOpen, outage', owed \/ quarantined) \in 0..(IF mode = "Auto" THEN MaxKib ELSE MarginKib)
      /\ mode = "Auto" /\ isOpen => ComputeMargin(isOpen, outage', owed \/ quarantined) = RampAt(outage')
      /\ mode = "Auto" /\ ~isOpen => ComputeMargin(isOpen, outage', owed \/ quarantined) <= MarginKib
  <2>1. isOpen \in BOOLEAN /\ (owed \/ quarantined) \in BOOLEAN /\ outage' \in Int
    BY <1>3
  <2>2. QED
    BY <1>0, <1>8, <2>1, MarginComputed
<1>10. MarginTypeOK'
  <2>1. polled' \in BOOLEAN /\ owed' \in BOOLEAN /\ quarantined' \in BOOLEAN
    BY <1>b, <1>2, Zenon
  <2>2. evaluated' \in -1..MaxAge
    BY <1>0, <1>7, MarginAssumption
  <2>3. margin' \in 0..(IF mode' = "Auto" THEN MaxKib ELSE MarginKib)
    BY <1>0, <1>2, <1>7, <1>9
  <2>4. QED
    BY <1>0, <1>1, <1>2, <1>3, <1>4, <1>5, <1>6, <2>1, <2>2, <2>3 DEF MarginTypeOK
<1>11. SidesKnown'
  BY <1>4, <1>5 DEF SidesKnown
<1>12. OutageFollows'
  <2>1. SUFFICES ASSUME opens
                 PROVE  IF outage' = NoAge THEN openFor' = 0 \/ (openFor' = 1 /\ ~polled') ELSE outage' >= openFor' - 1
    BY DEF OutageFollows
  <2>2. CASE isOpen
    BY <1>0, <1>3, <1>4, <1>s, <2>1, <2>2 DEF OutageFollows, SidesKnown, NoAge
  <2>3. CASE ~isOpen
    BY <1>0, <1>3, <1>4, <1>s, <2>1, <2>3 DEF SidesKnown, NoAge
  <2>4. QED
    BY <2>2, <2>3
<1>13. EvalFresh'
  <2>1. SUFFICES ASSUME mode = "Auto"
                 PROVE  evaluated' # NoAge /\ evaluated' <= EvalDelay /\ evaluated' < EvalDelay
    BY <1>2 DEF EvalFresh, EvalDelay
  <2>2. EvalDelay \in Nat /\ EvalDelay >= 1 /\ EvalDelay >= EvalInterval
    BY MarginAssumption DEF EvalDelay, Greater
  <2>3. QED
    BY <1>0, <1>7, <2>1, <2>2, MarginAssumption DEF EvalDue, NoAge
<1>14. PaceSinceEval'
  <2>1. SUFFICES ASSUME mode = "Auto", evaluated' # NoAge, openFor' > evaluated'
                 PROVE  margin' >= RampAt(openFor' - evaluated' - 1)
    BY <1>2 DEF PaceSinceEval
  <2>2. isOpen /\ openFor' = openFor
    <3>1. evaluated' \in Int /\ evaluated' >= 0
      BY <1>0, <1>7, <2>1 DEF NoAge
    <3>2. QED
      BY <1>0, <1>4, <1>s, <2>1, <3>1 DEF SidesKnown, NoAge
  <2>3. CASE EvalDue
    <3>1. outage' >= openFor - 1 /\ outage' \in Nat /\ openFor - 1 \in Nat
      BY <1>0, <1>3, <1>7, <1>8, <1>s, <2>1, <2>2, <2>3 DEF OutageFollows, NoAge
    <3>2. margin' = RampAt(outage') /\ openFor' - evaluated' - 1 = openFor - 1
      BY <1>0, <1>7, <1>9, <2>1, <2>2, <2>3
    <3>3. RampAt(openFor - 1) \in 0..MaxKib /\ RampAt(openFor - 1) <= RampAt(outage')
      BY <3>1, RampMonotonic
    <3>4. RampAt(outage') \in 0..MaxKib
      BY <3>1, RampMonotonic
    <3>5. QED
      BY <3>2, <3>3, <3>4, MarginAssumption
  <2>4. CASE ~EvalDue
    BY <1>7, <1>s, <2>1, <2>2, <2>4 DEF PaceSinceEval
  <2>5. QED
    BY <2>3, <2>4
<1>15. EndSinceEval'
  <2>1. SUFFICES ASSUME mode = "Auto", evaluated' # NoAge, upFor' > evaluated'
                 PROVE  margin' <= MarginKib
    BY <1>2 DEF EndSinceEval
  <2>2. ~isOpen /\ upFor' = upFor
    <3>1. evaluated' \in Int /\ evaluated' >= 0
      BY <1>0, <1>7, <2>1 DEF NoAge
    <3>2. QED
      BY <1>0, <1>5, <1>s, <2>1, <3>1 DEF SidesKnown, NoAge
  <2>3. CASE EvalDue
    BY <1>7, <1>9, <2>1, <2>2, <2>3
  <2>4. CASE ~EvalDue
    BY <1>7, <1>s, <2>1, <2>2, <2>4 DEF EndSinceEval
  <2>5. QED
    BY <2>3, <2>4
<1>16. QED
  BY <1>10, <1>11, <1>12, <1>13, <1>14, <1>15 DEF MarginInductive

(* Time passing keeps the invariant.                                        *)
LEMMA TickMargin == MarginInductive /\ MarginTick => MarginInductive'
<1> SUFFICES ASSUME MarginInductive, MarginTick PROVE MarginInductive'
  OBVIOUS
<1>0. /\ mode \in {"Off", "Fixed", "Auto"} /\ path \in BreakerRecord
      /\ outage \in -1..MaxAge /\ evaluated \in -1..MaxAge /\ span \in 0..MaxAge
      /\ margin \in 0..(IF mode = "Auto" THEN MaxKib ELSE MarginKib)
      /\ openFor \in -1..MaxAge /\ upFor \in -1..MaxAge
  BY DEF MarginInductive, MarginTypeOK
<1>b. owed \in BOOLEAN /\ quarantined \in BOOLEAN
  BY Zenon DEF MarginInductive, MarginTypeOK
<1>s. SidesKnown /\ OutageFollows /\ EvalFresh /\ PaceSinceEval /\ EndSinceEval
  BY DEF MarginInductive
<1>1. path' \in BreakerRecord /\ path'.state = path.state
  BY <1>0 DEF MarginTick, ElapseBreaker, BreakerRecord
<1>2. /\ polled /\ ~polled' /\ polled' = FALSE
      /\ UNCHANGED <<mode, span, margin, owed, quarantined>>
  BY DEF MarginTick
<1>3. ASSUME NEW age \in -1..MaxAge
      PROVE  /\ Older(age) \in -1..MaxAge
             /\ Older(age) = NoAge <=> age = NoAge
             /\ Older(age) <= age + 1
             /\ age # NoAge => Older(age) = age + 1 \/ (Older(age) = MaxAge /\ age = MaxAge)
  BY <1>3, MarginAssumption DEF Older, Lesser, NoAge
<1>4. outage' = Older(outage) /\ evaluated' = Older(evaluated) /\ openFor' = Older(openFor) /\ upFor' = Older(upFor)
  BY DEF MarginTick
<1>5. MarginTypeOK'
  <2>1. polled' \in BOOLEAN /\ owed' \in BOOLEAN /\ quarantined' \in BOOLEAN
    BY <1>b, <1>2, Zenon
  <2>2. margin' \in 0..(IF mode' = "Auto" THEN MaxKib ELSE MarginKib)
    BY <1>0, <1>2
  <2>3. QED
    BY <1>0, <1>1, <1>2, <1>3, <1>4, <2>1, <2>2 DEF MarginTypeOK
<1>6. SidesKnown'
  BY <1>0, <1>1, <1>3, <1>4, <1>s DEF SidesKnown
<1>7. OutageFollows'
  BY <1>0, <1>1, <1>2, <1>3, <1>4, <1>s DEF OutageFollows, SidesKnown, NoAge
<1>8. EvalFresh'
  <2>1. EvalDelay \in Nat
    BY MarginAssumption DEF EvalDelay, Greater
  <2>2. QED
    BY <1>0, <1>2, <1>3, <1>4, <1>s, <2>1 DEF EvalFresh, EvalDelay, NoAge
<1>9. PaceSinceEval'
  <2>1. SUFFICES ASSUME mode = "Auto", evaluated' # NoAge, openFor' > evaluated'
                 PROVE  margin >= RampAt(openFor' - evaluated' - 1)
    BY <1>2 DEF PaceSinceEval
  <2>2. /\ openFor > evaluated /\ evaluated # NoAge
        /\ openFor - evaluated - 1 \in Nat /\ openFor' - evaluated' - 1 \in Nat
        /\ openFor' - evaluated' - 1 <= openFor - evaluated - 1
    BY <1>0, <1>3, <1>4, <2>1 DEF NoAge
  <2>3. margin >= RampAt(openFor - evaluated - 1)
    BY <1>s, <2>1, <2>2 DEF PaceSinceEval
  <2>4. /\ RampAt(openFor' - evaluated' - 1) <= RampAt(openFor - evaluated - 1)
        /\ RampAt(openFor' - evaluated' - 1) \in 0..MaxKib /\ RampAt(openFor - evaluated - 1) \in 0..MaxKib
    BY <2>2, RampMonotonic
  <2>5. QED
    BY <1>0, <2>1, <2>3, <2>4, MarginAssumption
<1>10. EndSinceEval'
  <2>1. SUFFICES ASSUME mode = "Auto", evaluated' # NoAge, upFor' > evaluated'
                 PROVE  margin <= MarginKib
    BY <1>2 DEF EndSinceEval
  <2>2. upFor > evaluated /\ evaluated # NoAge
    BY <1>0, <1>3, <1>4, <2>1 DEF NoAge
  <2>3. QED
    BY <1>s, <2>1, <2>2 DEF EndSinceEval
<1>11. QED
  BY <1>5, <1>6, <1>7, <1>8, <1>9, <1>10 DEF MarginInductive

(* Finds that come and go keep the invariant.                               *)
LEMMA JournalMargin == MarginInductive /\ JournalChanges => MarginInductive'
<1> SUFFICES ASSUME MarginInductive, JournalChanges PROVE MarginInductive'
  OBVIOUS
<1>1. owed' \in BOOLEAN /\ quarantined' \in BOOLEAN
  <2>1. owed \in BOOLEAN /\ quarantined \in BOOLEAN
    BY Zenon DEF MarginInductive, MarginTypeOK
  <2>2. QED
    BY <2>1, Zenon DEF JournalChanges
<1>2. UNCHANGED <<mode, path, outage, span, evaluated, margin, polled, openFor, upFor>>
  BY DEF JournalChanges
<1>3. QED
  BY <1>1, <1>2 DEF MarginInductive, MarginTypeOK, SidesKnown, OutageFollows, EvalFresh,
                    PaceSinceEval, EndSinceEval

(* With an evaluation no older than the delay, the margin of the last       *)
(* evaluation is the margin the schedule asks for.                          *)
LEMMA MarginImplied == MarginInductive => MarginInvariant
<1> SUFFICES ASSUME MarginInductive PROVE MarginInvariant
  OBVIOUS
<1>0. /\ MarginTypeOK /\ evaluated \in -1..MaxAge
      /\ margin \in 0..(IF mode = "Auto" THEN MaxKib ELSE MarginKib)
      /\ openFor \in -1..MaxAge /\ upFor \in -1..MaxAge
  BY DEF MarginInductive, MarginTypeOK
<1>s. EvalFresh /\ PaceSinceEval /\ EndSinceEval
  BY DEF MarginInductive
<1>1. EvalDelay \in Nat /\ EvalDelay >= 1
  BY MarginAssumption DEF EvalDelay, Greater
<1>2. RampKeepsPace
  <2>1. SUFFICES ASSUME mode = "Auto", openFor > EvalDelay
                 PROVE  margin >= RampAt(openFor - EvalDelay - 1)
    BY DEF RampKeepsPace, RampAt
  <2>2. /\ evaluated # NoAge /\ openFor > evaluated
        /\ openFor - EvalDelay - 1 \in Nat /\ openFor - evaluated - 1 \in Nat
        /\ openFor - EvalDelay - 1 <= openFor - evaluated - 1
    BY <1>0, <1>1, <1>s, <2>1 DEF EvalFresh, NoAge
  <2>3. margin >= RampAt(openFor - evaluated - 1)
    BY <1>s, <2>1, <2>2 DEF PaceSinceEval
  <2>4. /\ RampAt(openFor - EvalDelay - 1) <= RampAt(openFor - evaluated - 1)
        /\ RampAt(openFor - EvalDelay - 1) \in 0..MaxKib /\ RampAt(openFor - evaluated - 1) \in 0..MaxKib
    BY <2>2, RampMonotonic
  <2>5. QED
    BY <1>0, <2>1, <2>3, <2>4, MarginAssumption
<1>3. RampEnds
  <2>1. SUFFICES ASSUME mode = "Auto", upFor > EvalDelay
                 PROVE  margin <= MarginKib
    BY DEF RampEnds
  <2>2. evaluated # NoAge /\ upFor > evaluated
    BY <1>0, <1>1, <1>s, <2>1 DEF EvalFresh, NoAge
  <2>3. QED
    BY <1>s, <2>1, <2>2 DEF EndSinceEval
<1>4. QED
  BY <1>0, <1>2, <1>3 DEF MarginInvariant

(* updateMargin_ keeps pace with the server's schedule during every outage  *)
(* and takes the ramp back after it, for every step, ceiling, period and    *)
(* evaluation interval and whatever the breaker does meanwhile.             *)
THEOREM MarginSound == MarginSpec => []MarginInvariant
<1>1. ASSUME MarginInductive, [MarginNext]_marginVars PROVE MarginInductive'
  <2>1. CASE RunStep
    BY <1>1, <2>1, RunStepMargin
  <2>2. CASE JournalChanges
    BY <1>1, <2>2, JournalMargin
  <2>3. CASE MarginTick
    BY <1>1, <2>3, TickMargin
  <2>4. CASE UNCHANGED marginVars
    BY <1>1, <2>4 DEF marginVars, MarginInductive, MarginTypeOK, SidesKnown, OutageFollows, EvalFresh,
                      PaceSinceEval, EndSinceEval
  <2>5. QED
    BY <1>1, <2>1, <2>2, <2>3, <2>4 DEF MarginNext
<1>2. QED
  BY <1>1, InitMarginInductive, MarginImplied, PTL DEF MarginSpec

-----------------------------------------------------------------------------
(* The polled difficulty.                                                   *)

(* What is about to reach the cache is an answer of the server: the value   *)
(* just applied, then the whole temporary file.                             *)
PendingTold ==
  /\ told \subseteq Nat
  /\ polling = "applied" => answer \in told
  /\ polling \in {"written", "removed"} => tmp \in told

(* The count and the flag agree at every point, not only between polls.     *)
CountAgrees ==
  /\ failures = failedPolls
  /\ down <=> failures >= Threshold

PollerInductive == DifficultyTypeOK /\ PendingTold /\ CountAgrees /\ CacheWhole /\ SeedUsable

(* The initial state satisfies the invariant.                               *)
LEMMA InitPollerInductive == DifficultyInit => PollerInductive
<1> SUFFICES ASSUME DifficultyInit PROVE PollerInductive
  OBVIOUS
<1>1. DifficultyTypeOK
  <2>1. {down, reachable} \subseteq BOOLEAN
    BY Zenon DEF DifficultyInit
  <2>2. difficulty \in Nat /\ failures \in 0..MaxFailures /\ failedPolls \in 0..MaxFailures /\ restarts \in 0..MaxRestarts
    BY DifficultyAssumption DEF DifficultyInit
  <2>3. QED
    BY <2>1, <2>2 DEF DifficultyInit, DifficultyTypeOK
<1>2. PendingTold /\ CacheWhole /\ SeedUsable
  BY DEF DifficultyInit, PendingTold, CacheWhole, SeedUsable
<1>3. CountAgrees
  BY DifficultyAssumption DEF DifficultyInit, CountAgrees
<1>4. QED
  BY <1>1, <1>2, <1>3 DEF PollerInductive

(* A seeded difficulty is usable: the cache's content is checked against    *)
(* the limit and the fallback is within it.                                 *)
LEMMA SeedInv == PollerInductive /\ Seed => PollerInductive'
<1> SUFFICES ASSUME PollerInductive, Seed PROVE PollerInductive'
  OBVIOUS
<1> USE DEF PollerInductive
<1>1. LoadCachedDifficulty \in 0..MaxCached
  BY DifficultyAssumption DEF LoadCachedDifficulty, Usable
<1>2. difficulty' \in 1..MaxCached
  BY <1>1, DifficultyAssumption DEF Seed
<1>3. DifficultyTypeOK'
  BY <1>2, DifficultyAssumption DEF Seed, DifficultyTypeOK
<1>4. PendingTold' /\ CacheWhole'
  BY DEF Seed, PendingTold, CacheWhole, files
<1>5. CountAgrees'
  BY DEF Seed, CountAgrees
<1>6. SeedUsable'
  BY <1>2 DEF SeedUsable, Usable
<1>7. QED
  BY <1>3, <1>4, <1>5, <1>6

(* An answer is applied and remembered as one the server gave.              *)
LEMMA PollAnsweredInv == PollerInductive /\ PollAnswered => PollerInductive'
<1> SUFFICES ASSUME PollerInductive, PollAnswered PROVE PollerInductive'
  OBVIOUS
<1> USE DEF PollerInductive
<1>1. PICK v \in Answers : answer' = v /\ difficulty' = v /\ told' = told \cup {v}
  BY DEF PollAnswered
<1>2. DifficultyTypeOK'
  BY <1>1, DifficultyAssumption DEF PollAnswered, DifficultyTypeOK
<1>3. PendingTold'
  BY <1>1, DifficultyAssumption DEF PollAnswered, PendingTold
<1>4. CacheWhole'
  BY <1>1 DEF PollAnswered, CacheWhole, files
<1>5. CountAgrees'
  BY DEF PollAnswered, CountAgrees
<1>6. SeedUsable'
  BY DEF PollAnswered, SeedUsable
<1>7. QED
  BY <1>2, <1>3, <1>4, <1>5, <1>6

(* A failed poll raises the flag exactly at the threshold.                  *)
LEMMA PollFailedInv == PollerInductive /\ PollFailed => PollerInductive'
<1> SUFFICES ASSUME PollerInductive, PollFailed PROVE PollerInductive'
  OBVIOUS
<1> USE DEF PollerInductive
<1>1. DifficultyTypeOK'
  <2>1. failures' \in 0..MaxFailures /\ failedPolls' \in 0..MaxFailures
    BY DifficultyAssumption DEF PollFailed, DifficultyTypeOK, CountAgrees
  <2>2. down' \in BOOLEAN
    BY DEF PollFailed
  <2>3. QED
    BY <2>1, <2>2 DEF PollFailed, DifficultyTypeOK
<1>2. PendingTold' /\ CacheWhole' /\ SeedUsable'
  BY DEF PollFailed, PendingTold, CacheWhole, SeedUsable, files
<1>3. CountAgrees'
  <2>1. failures \in Nat /\ failures' = failures + 1 /\ failedPolls' = failedPolls + 1 /\ failures = failedPolls
    BY DEF PollFailed, CountAgrees, DifficultyTypeOK
  <2>2. (failures >= Threshold \/ failures' = Threshold) <=> failures' >= Threshold
    BY <2>1, DifficultyAssumption
  <2>3. down' <=> (failures >= Threshold \/ failures' = Threshold)
    BY Zenon DEF PollFailed, CountAgrees
  <2>4. QED
    BY <2>1, <2>2, <2>3 DEF CountAgrees
<1>4. QED
  BY <1>1, <1>2, <1>3

(* The temporary file is whole before it is renamed; a kill while it is     *)
(* written leaves the cache alone.                                          *)
LEMMA WriteTmpInv == PollerInductive /\ WriteTmp => PollerInductive'
<1> SUFFICES ASSUME PollerInductive, WriteTmp PROVE PollerInductive'
  OBVIOUS
<1> USE DEF PollerInductive
<1>1. CASE tmp' = answer /\ polling' = "written" /\ UNCHANGED <<difficulty, failures, down, failedPolls, restarts>>
  <2>1. DifficultyTypeOK'
    BY <1>1 DEF WriteTmp, DifficultyTypeOK
  <2>2. PendingTold' /\ CacheWhole' /\ CountAgrees' /\ SeedUsable'
    BY <1>1 DEF WriteTmp, PendingTold, CacheWhole, CountAgrees, SeedUsable
  <2>3. QED
    BY <2>1, <2>2
<1>2. CASE tmp' \in {tmp, NoFile} /\ polling' = "saved" /\ UNCHANGED <<difficulty, failures, down, failedPolls, restarts>>
  <2>1. DifficultyTypeOK'
    BY <1>2 DEF WriteTmp, DifficultyTypeOK
  <2>2. PendingTold' /\ CacheWhole' /\ CountAgrees' /\ SeedUsable'
    BY <1>2 DEF WriteTmp, PendingTold, CacheWhole, CountAgrees, SeedUsable
  <2>3. QED
    BY <2>1, <2>2
<1>3. CASE /\ tmp' \in Torn(answer) /\ polling' = "seed"
           /\ restarts < MaxRestarts /\ restarts' = restarts + 1
           /\ difficulty' = 0 /\ failures' = 0 /\ down' = FALSE /\ failedPolls' = 0
  <2>1. DifficultyTypeOK'
    <3>1. {down', reachable'} \subseteq BOOLEAN
      <4>1. reachable' = reachable /\ down' = FALSE
        BY <1>3 DEF WriteTmp
      <4>2. QED
        BY <4>1, Zenon DEF DifficultyTypeOK
    <3>2. difficulty' \in Nat /\ failures' \in 0..MaxFailures /\ failedPolls' \in 0..MaxFailures /\ restarts' \in 0..MaxRestarts
      BY <1>3, DifficultyAssumption DEF WriteTmp, DifficultyTypeOK
    <3>3. polling' = "seed"
      BY <1>3 DEF WriteTmp
    <3>4. QED
      BY <3>1, <3>2, <3>3 DEF DifficultyTypeOK
  <2>2. PendingTold' /\ CacheWhole' /\ SeedUsable'
    BY <1>3 DEF WriteTmp, PendingTold, CacheWhole, SeedUsable
  <2>3. CountAgrees'
    BY <1>3, DifficultyAssumption DEF CountAgrees
  <2>4. QED
    BY <2>1, <2>2, <2>3
<1>4. QED
  BY <1>1, <1>2, <1>3 DEF WriteTmp

(* The remove and the rename move whole contents only.                      *)
LEMMA ReplaceInv == PollerInductive /\ (RemoveCache \/ RenameTmp) => PollerInductive'
<1> SUFFICES ASSUME PollerInductive, RemoveCache \/ RenameTmp PROVE PollerInductive'
  OBVIOUS
<1> USE DEF PollerInductive
<1>1. CASE RemoveCache
  <2>1. DifficultyTypeOK'
    BY <1>1 DEF RemoveCache, DifficultyTypeOK
  <2>2. PendingTold' /\ CacheWhole' /\ CountAgrees' /\ SeedUsable'
    BY <1>1 DEF RemoveCache, PendingTold, CacheWhole, CountAgrees, SeedUsable
  <2>3. QED
    BY <2>1, <2>2
<1>2. CASE RenameTmp
  <2>1. DifficultyTypeOK'
    BY <1>2 DEF RenameTmp, DifficultyTypeOK
  <2>2. PendingTold' /\ CacheWhole' /\ CountAgrees' /\ SeedUsable'
    BY <1>2 DEF RenameTmp, PendingTold, CacheWhole, CountAgrees, SeedUsable
  <2>3. QED
    BY <2>1, <2>2
<1>3. QED
  BY <1>1, <1>2

(* A good poll ends the outage.                                             *)
LEMMA SettleInv == PollerInductive /\ Settle => PollerInductive'
<1> SUFFICES ASSUME PollerInductive, Settle PROVE PollerInductive'
  OBVIOUS
<1> USE DEF PollerInductive
<1>1. down' = FALSE
  <2>1. ~(0 >= Threshold)
    BY DifficultyAssumption
  <2>2. down' = (down /\ failures = 0) /\ (down <=> failures >= Threshold)
    BY DEF Settle, CountAgrees
  <2>3. QED
    BY <2>1, <2>2, Zenon
<1>2. DifficultyTypeOK'
  BY <1>1, DifficultyAssumption DEF Settle, DifficultyTypeOK
<1>3. PendingTold' /\ CacheWhole' /\ SeedUsable'
  BY DEF Settle, PendingTold, CacheWhole, SeedUsable, files
<1>4. CountAgrees'
  BY <1>1, DifficultyAssumption DEF Settle, CountAgrees
<1>5. QED
  BY <1>2, <1>3, <1>4

(* What happens around the poller: its pause, a hint, a kill, the server.   *)
LEMMA OtherInv == PollerInductive /\ (Sleep \/ Hint \/ Kill \/ PoolChanges) => PollerInductive'
<1> SUFFICES ASSUME PollerInductive, Sleep \/ Hint \/ Kill \/ PoolChanges PROVE PollerInductive'
  OBVIOUS
<1> USE DEF PollerInductive
<1>1. CASE Sleep
  BY <1>1 DEF Sleep, DifficultyTypeOK, PendingTold, CacheWhole, CountAgrees, SeedUsable, files
<1>2. CASE Hint
  <2>1. PICK v \in Hints : difficulty' = v
    BY <1>2 DEF Hint
  <2>2. DifficultyTypeOK' /\ SeedUsable'
    BY <1>2, <2>1, DifficultyAssumption DEF Hint, DifficultyTypeOK, SeedUsable
  <2>3. PendingTold' /\ CacheWhole' /\ CountAgrees'
    BY <1>2 DEF Hint, PendingTold, CacheWhole, CountAgrees, files
  <2>4. QED
    BY <2>2, <2>3
<1>3. CASE Kill
  <2>1. DifficultyTypeOK'
    <3>1. {down', reachable'} \subseteq BOOLEAN
      <4>1. reachable' = reachable /\ down' = FALSE
        BY <1>3 DEF Kill
      <4>2. QED
        BY <4>1, Zenon DEF DifficultyTypeOK
    <3>2. difficulty' \in Nat /\ failures' \in 0..MaxFailures /\ failedPolls' \in 0..MaxFailures /\ restarts' \in 0..MaxRestarts
      BY <1>3, DifficultyAssumption DEF Kill, DifficultyTypeOK
    <3>3. polling' = "seed"
      BY <1>3 DEF Kill
    <3>4. QED
      BY <3>1, <3>2, <3>3 DEF DifficultyTypeOK
  <2>2. PendingTold' /\ CacheWhole' /\ SeedUsable'
    BY <1>3 DEF Kill, PendingTold, CacheWhole, SeedUsable, files
  <2>3. CountAgrees'
    BY <1>3, DifficultyAssumption DEF Kill, CountAgrees
  <2>4. QED
    BY <2>1, <2>2, <2>3
<1>4. CASE PoolChanges
  BY <1>4 DEF PoolChanges, DifficultyTypeOK, PendingTold, CacheWhole, CountAgrees, SeedUsable, files
<1>5. QED
  BY <1>1, <1>2, <1>3, <1>4

(* The conjunction of the type invariant, whole cache, agreeing count and   *)
(* usable seed holds in every reachable state.                              *)
THEOREM PollerInductiveHolds == DifficultySpec => []PollerInductive
<1>1. PollerInductive /\ [DifficultyNext]_difficultyVars => PollerInductive'
  <2> SUFFICES ASSUME PollerInductive, [DifficultyNext]_difficultyVars PROVE PollerInductive'
    OBVIOUS
  <2>1. CASE DifficultyNext
    BY <2>1, SeedInv, PollAnsweredInv, PollFailedInv, WriteTmpInv, ReplaceInv, SettleInv, OtherInv
       DEF DifficultyNext, PollerStep
  <2>2. CASE UNCHANGED difficultyVars
    BY <2>2 DEF difficultyVars, files, PollerInductive, DifficultyTypeOK, PendingTold, CountAgrees, CacheWhole, SeedUsable
  <2>3. QED
    BY <2>1, <2>2
<1>2. QED
  BY InitPollerInductive, <1>1, PTL DEF DifficultySpec

(* Every variable keeps its type: the failure count stays within its bounds *)
(* although a good poll resets it and a kill forgets it.                    *)
THEOREM DifficultyTypes == DifficultySpec => []DifficultyTypeOK
<1>1. PollerInductive => DifficultyTypeOK
  BY DEF PollerInductive
<1>2. QED
  BY PollerInductiveHolds, <1>1, PTL

(* persistDifficulty: difficulty.cache is never seen half written, wherever *)
(* the process is killed.                                                   *)
THEOREM CacheNeverTorn == DifficultySpec => []CacheWhole
<1>1. PollerInductive => CacheWhole
  BY DEF PollerInductive
<1>2. QED
  BY PollerInductiveHolds, <1>1, PTL

(* updateDifficulty: globalDifficultyEndpointDown says that the last        *)
(* Threshold polls failed, for every threshold and outage.                  *)
THEOREM DownFlagExact == DifficultySpec => []DownMeansFailing
<1>1. PollerInductive => DownMeansFailing
  BY DEF PollerInductive, CountAgrees, DownMeansFailing
<1>2. QED
  BY PollerInductiveHolds, <1>1, PTL

(* main: a restarted miner begins at a difficulty within the limits,        *)
(* whatever the server once answered.                                       *)
THEOREM SeedAlwaysUsable == DifficultySpec => []SeedUsable
<1>1. PollerInductive => SeedUsable
  BY DEF PollerInductive
<1>2. QED
  BY PollerInductiveHolds, <1>1, PTL

(* DifficultyManager.cpp: cache, flag and seed together, for all answers,   *)
(* limits and thresholds.                                                   *)
THEOREM PollerSound == DifficultySpec => []PollerInvariant
<1>1. DifficultyTypeOK /\ CacheWhole /\ DownMeansFailing /\ SeedUsable => PollerInvariant
  BY DEF PollerInvariant
<1>2. QED
  BY <1>1, DifficultyTypes, CacheNeverTorn, DownFlagExact, SeedAlwaysUsable, PTL
=============================================================================
