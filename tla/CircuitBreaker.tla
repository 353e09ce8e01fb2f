--------------------------- MODULE CircuitBreaker ---------------------------
(***************************************************************************)
(* The circuit breaker of the /verify path (submit/CircuitBreaker.cpp), as *)
(* operators on one record:                                                *)
(*                                                                         *)
(*   state      Closed, Open or HalfOpen               (state_)            *)
(*   failures   consecutive transport failures         (consecutive_...)   *)
(*   interval   current probe interval                 (probe_interval_ms_)*)
(*   probeIn    time left until the next probe is due  (next_probe_at_ms_  *)
(*              minus the clock, never below 0: the code only ever compares*)
(*              that deadline with the clock or takes a minimum with it)   *)
(*   admission  the HALF_OPEN single-admission latch                       *)
(*   pressure   an eligible XUNI exists                                    *)
(*                                                                         *)
(* BreakerDriver is the machine around these operators; SubmissionManager  *)
(* drives them from its own thread.                                        *)
(***************************************************************************)
EXTENDS Integers

CONSTANTS
  FailureThreshold,   \* consecutive failures that open the breaker
  ProbeBase,          \* first probe delay after opening
  ProbeCap,           \* ceiling of the probe interval
  ProbeCapXuni,       \* ceiling while an eligible XUNI exists
  JitterPct           \* jitter_fraction, in percent

ASSUME BreakerAssumption ==
  /\ FailureThreshold \in Nat \ {0}
  /\ ProbeBase \in Nat \ {0}
  /\ ProbeCap \in Nat /\ ProbeBase <= ProbeCap
  /\ ProbeCapXuni \in Nat \ {0}
  /\ JitterPct \in Nat

BreakerStates == {"Closed", "Open", "HalfOpen"}

Lesser(a, b) == IF a <= b THEN a ELSE b
Greater(a, b) == IF a >= b THEN a ELSE b

BreakerRecord ==
  [state : BreakerStates, failures : Nat, interval : Nat, probeIn : Nat,
   admission : BOOLEAN, pressure : BOOLEAN]

InitBreaker ==
  [state |-> "Closed", failures |-> 0, interval |-> 0, probeIn |-> 0,
   admission |-> FALSE, pressure |-> FALSE]

ActiveCap(b) == IF b.pressure THEN Lesser(ProbeCap, ProbeCapXuni) ELSE ProbeCap

(* What jitter_() * jitter_fraction * base truncates to: jitter_() is in   *)
(* [0, 1), so a positive addition stays strictly below the fraction.       *)
Jitters(base) == {j \in 0..(JitterPct * base) : j = 0 \/ 100 * j < JitterPct * base}

ProbeBaseDelay(b) == Lesser(b.interval, ActiveCap(b))

ProbeDelay(b, j) ==
  LET delay == ProbeBaseDelay(b) + j
  IN  IF b.pressure THEN Lesser(delay, ActiveCap(b)) ELSE delay

ScheduleProbe(b, j) == [b EXCEPT !.probeIn = ProbeDelay(b, j)]

OpenBreaker(b, j) ==
  ScheduleProbe([b EXCEPT !.state = "Open", !.admission = FALSE], j)

ProbeDue(b) == b.state = "Open" /\ b.probeIn = 0

(* Broken variants (here and below, each before the operator it replaces): *)
(* a probe that closes the breaker; a probe success that is only noted.    *)
OnProbeSuccessCloses(b) ==
  IF b.state # "Open" THEN b ELSE [b EXCEPT !.state = "Closed", !.failures = 0]
OnProbeSuccessStaysOpen(b) ==
  IF b.state # "Open" THEN b ELSE [b EXCEPT !.probeIn = b.interval]

OnProbeSuccess(b) ==
  IF b.state # "Open" THEN b
  ELSE [b EXCEPT !.state = "HalfOpen", !.admission = TRUE]

OnProbeFailure(b, j) ==
  IF b.state # "Open" THEN b
  ELSE ScheduleProbe([b EXCEPT !.interval = Lesser(2 * b.interval, ProbeCap)], j)

(* tryAdmit returns CanAdmit and, when it does, leaves Admit. *)
CanAdmit(b) == b.state = "Closed" \/ (b.state = "HalfOpen" /\ b.admission)

(* Broken: the HALF_OPEN admission is not used up. *)
AdmitAgain(b) == b

Admit(b) == IF b.state = "HalfOpen" THEN [b EXCEPT !.admission = FALSE] ELSE b

OnVerifySuccess(b) ==
  [b EXCEPT !.state = "Closed", !.failures = 0, !.interval = ProbeBase,
            !.admission = FALSE]

(* interval after the failure, before the jitter of scheduleProbe_ *)
ReopenInterval(b) == Lesser(2 * Greater(b.interval, ProbeBase), ProbeCap)

OnVerifyTransportFailure(b, j) ==
  CASE b.state = "HalfOpen" ->
         OpenBreaker([b EXCEPT !.interval = ReopenInterval(b)], j)
    [] b.state = "Closed" /\ b.failures + 1 >= FailureThreshold ->
         OpenBreaker([b EXCEPT !.failures = b.failures + 1, !.interval = ProbeBase], j)
    [] b.state = "Closed" /\ b.failures + 1 < FailureThreshold ->
         [b EXCEPT !.failures = b.failures + 1]
    [] OTHER -> b

(* Broken: the streak is not interrupted; a failure is taken back instead  *)
(* of the streak.                                                           *)
OnVerifyInconclusiveKeepsStreak(b) ==
  [b EXCEPT !.admission = IF b.state = "HalfOpen" THEN TRUE ELSE b.admission]
OnVerifyInconclusiveUndoes(b) ==
  [b EXCEPT !.failures = b.failures - 1, !.admission = IF b.state = "HalfOpen" THEN TRUE ELSE b.admission]

OnVerifyInconclusive(b) ==
  [b EXCEPT !.failures = 0, !.admission = IF b.state = "HalfOpen" THEN TRUE ELSE b.admission]

(* Broken: a probe already scheduled is not pulled in. *)
SetXuniPressureLate(b, eligible) == [b EXCEPT !.pressure = eligible]

SetXuniPressure(b, eligible) ==
  LET b1 == [b EXCEPT !.pressure = eligible]
  IN  IF ~b.pressure /\ eligible /\ b.state = "Open"
      THEN [b1 EXCEPT !.probeIn = Lesser(b.probeIn, ActiveCap(b1))]
      ELSE b1

(* One unit of the monotonic clock. *)
ElapseBreaker(b) == [b EXCEPT !.probeIn = IF b.probeIn = 0 THEN 0 ELSE b.probeIn - 1]
=============================================================================
