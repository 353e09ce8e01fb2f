---------------------------- MODULE BreakerDriver ----------------------------
(***************************************************************************)
(* The circuit breaker driven by one thread, the way SubmissionManager     *)
(* drives it: probes while Open, at most one /verify request in flight,    *)
(* whose outcome is reported back before the next admission is asked for.  *)
(* The server goes up and down by itself. setXuniPressure may be called in *)
(* any state here, which is the contract of CircuitBreaker.h.              *)
(***************************************************************************)
EXTENDS CircuitBreaker

VARIABLES
  breaker,    \* the CircuitBreaker object
  inflight,   \* a /verify request was admitted and its outcome is not reported yet
  up,         \* the server answers
  streak      \* history: transport failures since the last other outcome

breakerVars == <<breaker, inflight, up, streak>>

BreakerInit ==
  /\ breaker = InitBreaker
  /\ inflight = FALSE
  /\ up = TRUE
  /\ streak = 0

Tick ==
  /\ breaker' = ElapseBreaker(breaker)
  /\ UNCHANGED <<inflight, up, streak>>

Probe ==
  /\ ProbeDue(breaker)
  /\ \/ up /\ breaker' = OnProbeSuccess(breaker)
     \/ ~up /\ \E j \in Jitters(ProbeBaseDelay(OnProbeFailure(breaker, 0))) :
                 breaker' = OnProbeFailure(breaker, j)
  /\ UNCHANGED <<inflight, up, streak>>

TryAdmit ==
  /\ ~inflight
  /\ CanAdmit(breaker)
  /\ breaker' = Admit(breaker)
  /\ inflight' = TRUE
  /\ UNCHANGED <<up, streak>>

ReportSuccess ==
  /\ inflight /\ up
  /\ breaker' = OnVerifySuccess(breaker)
  /\ inflight' = FALSE
  /\ streak' = 0
  /\ UNCHANGED up

(* A request can fail although the server is up: /verify health is not     *)
(* /difficulty health. The history stops counting at the threshold.        *)
ReportFailure ==
  /\ inflight
  /\ \E j \in Jitters(ProbeBaseDelay(OnVerifyTransportFailure(breaker, 0))) :
       breaker' = OnVerifyTransportFailure(breaker, j)
  /\ inflight' = FALSE
  /\ streak' = Lesser(streak + 1, FailureThreshold)
  /\ UNCHANGED up

ReportInconclusive ==
  /\ inflight /\ up
  /\ breaker' = OnVerifyInconclusive(breaker)
  /\ inflight' = FALSE
  /\ streak' = 0
  /\ UNCHANGED up

SetPressure ==
  /\ \E eligible \in BOOLEAN : breaker' = SetXuniPressure(breaker, eligible)
  /\ UNCHANGED <<inflight, up, streak>>

ServerChanges == up' = ~up /\ UNCHANGED <<breaker, inflight, streak>>

BreakerNext ==
  \/ Tick \/ Probe \/ TryAdmit
  \/ ReportSuccess \/ ReportFailure \/ ReportInconclusive
  \/ SetPressure \/ ServerChanges

(* The clock runs and the owner polls: a due probe is sent. *)
BreakerSpec == BreakerInit /\ [][BreakerNext]_breakerVars /\ WF_breakerVars(Tick) /\ WF_breakerVars(Probe)
-----------------------------------------------------------------------------
(* Ranges of the breaker's state and of the history. *)
BreakerTypeOK ==
  /\ breaker \in BreakerRecord
  /\ inflight \in BOOLEAN
  /\ up \in BOOLEAN
  /\ streak \in 0..FailureThreshold

(* While Open nothing is in flight and no admission can be granted; in     *)
(* HALF_OPEN the single admission is either still available or in flight,  *)
(* never both (two test submissions) and never neither (a breaker that     *)
(* nobody can close any more).                                             *)
SingleAdmission ==
  /\ breaker.state = "Open" => ~inflight /\ ~breaker.admission
  /\ breaker.state = "HalfOpen" => (breaker.admission <=> ~inflight)
  /\ breaker.state = "Closed" => ~breaker.admission

(* "opens after failure_threshold CONSECUTIVE transport/5xx failures": the *)
(* counter equals the history while Closed, so any other outcome resets it *)
(* and a breaker that recovered starts again from zero.                    *)
CountsConsecutive ==
  breaker.state = "Closed" => breaker.failures = streak /\ streak < FailureThreshold

(* The waiting time of an Open breaker: the interval is between the base   *)
(* and the cap, the wait exceeds the interval by less than the jitter      *)
(* fraction, and with an eligible XUNI it never exceeds the XUNI cap, also *)
(* when the XUNI appeared during the outage.                               *)
ProbeBounded ==
  breaker.state = "Open" =>
    /\ ProbeBase <= breaker.interval /\ breaker.interval <= ProbeCap
    /\ 100 * breaker.probeIn <= (100 + JitterPct) * breaker.interval
    /\ breaker.pressure => breaker.probeIn <= ProbeCapXuni

(* Only an accepted /verify closes the breaker again: no step leads from   *)
(* Open to Closed, and HALF_OPEN is left for Closed only when the admitted *)
(* submission was in flight and the server was up.                         *)
ClosesOnlyOnSuccess ==
  [][breaker.state # "Closed" /\ breaker'.state = "Closed" =>
       breaker.state = "HalfOpen" /\ inflight /\ up]_breakerVars

(* An outage ends: if the server stays up, the breaker does not stay Open. *)
OutageEnds == <>[]up => []<>(breaker.state # "Open")

(* The breaker keeps its one admission, an honest count of failures and a  *)
(* bounded wait, in every order of its owner's calls.                      *)
BreakerInvariant == BreakerTypeOK /\ SingleAdmission /\ CountsConsecutive /\ ProbeBounded
=============================================================================
