----------------------------- MODULE MarginRamp -----------------------------
(***************************************************************************)
(* The difficulty margin: computeMargin (submit/MarginPolicy.cpp) and the  *)
(* clocks updateMargin_ keeps around it at the head of every step of the   *)
(* submission thread, with the breaker that thread drives.                 *)
(*                                                                         *)
(* Clocks are ages, in units of time far longer than a step (the thread    *)
(* polls several times a second, a period is 300 s): the thread takes a    *)
(* step in every unit. Ages stop at MaxAge, where the ramp is at its cap.  *)
(***************************************************************************)
EXTENDS CircuitBreaker

CONSTANTS
  MarginKib, MaxKib,   \* MarginConfig: one step, and the ceiling of the ramp
  Period,              \* adjust_period_ms
  EvalInterval,        \* margin_eval_interval_ms
  MaxAge               \* bound: ages stop here

ASSUME MarginAssumption ==
  /\ MarginKib \in Nat \ {0} /\ MaxKib \in Nat /\ Period \in Nat \ {0}
  /\ EvalInterval \in Nat /\ MaxAge \in Nat

VARIABLES
  mode,          \* MarginConfig::mode
  path,          \* breaker_
  outage,        \* age of outage_started_ms_, -1 when it is 0
  span,          \* last_outage_span_ms_
  evaluated,     \* age of last_margin_eval_ms_, -1 before the first
  margin,        \* margin_kib_, published as globalDifficultyMargin
  owed,          \* the journal has pending, parked or unconfirmed finds
  quarantined,   \* the journal has quarantined finds
  polled,        \* the thread has taken a step in this unit of time
  openFor,       \* history: how long the breaker is Open, -1 when it is not
  upFor          \* history: how long it is not Open, -1 when it is

marginVars == <<mode, path, outage, span, evaluated, margin, owed, quarantined, polled, openFor, upFor>>

NoAge == -1
Older(age) == IF age = NoAge THEN NoAge ELSE Lesser(age + 1, MaxAge)
Since(age, holds) == IF ~holds THEN NoAge ELSE IF age = NoAge THEN 0 ELSE age

-----------------------------------------------------------------------------
\* Broken computeMargin: the first step is only due after a whole period.
ComputeMarginLate(isOpen, outageAge, backlog) ==
  CASE mode = "Off" -> 0
    [] mode = "Fixed" -> MarginKib
    [] mode = "Auto" /\ ~isOpen /\ ~backlog -> 0
    [] OTHER -> Lesser(MarginKib * (IF isOpen THEN outageAge \div Period ELSE 0), MaxKib)

\* Broken computeMargin: the ramp is not capped.
ComputeMarginUncapped(isOpen, outageAge, backlog) ==
  CASE mode = "Off" -> 0
    [] mode = "Fixed" -> MarginKib
    [] mode = "Auto" /\ ~isOpen /\ ~backlog -> 0
    [] OTHER -> MarginKib * (1 + (IF isOpen THEN outageAge \div Period ELSE 0))

\* Broken computeMargin: the margin never comes down.
ComputeMarginSticky(isOpen, outageAge, backlog) ==
  CASE mode = "Off" -> 0
    [] mode = "Fixed" -> MarginKib
    [] mode = "Auto" /\ ~isOpen /\ ~backlog -> 0
    [] OTHER -> Greater(margin, Lesser(MarginKib * (1 + (outageAge \div Period)), MaxKib))

ComputeMargin(isOpen, outageAge, backlog) ==
  CASE mode = "Off" -> 0
    [] mode = "Fixed" -> MarginKib
    [] mode = "Auto" /\ ~isOpen /\ ~backlog -> 0
    [] OTHER -> Lesser(MarginKib * (1 + (IF isOpen THEN outageAge \div Period ELSE 0)), MaxKib)

\* Broken updateMargin_: nothing is evaluated while all is well.
EvalDueDegraded ==
  /\ mode # "Off" /\ (evaluated = NoAge \/ evaluated >= EvalInterval)
  /\ path.state = "Open" \/ owed

OutageClock(isOpen) == Since(outage, isOpen)
EvalDue == mode # "Off" /\ (evaluated = NoAge \/ evaluated >= EvalInterval)

UpdateMargin ==
  LET isOpen == path.state = "Open"
  IN  /\ outage' = OutageClock(isOpen)
      /\ span' = IF ~isOpen /\ outage # NoAge THEN outage ELSE span
      /\ evaluated' = IF EvalDue THEN 0 ELSE evaluated
      /\ margin' = IF EvalDue THEN ComputeMargin(isOpen, outage', owed \/ quarantined) ELSE margin

\* What the rest of runStep_ may do to the breaker: a probe while Open,
\* otherwise a submission, if one is due and admitted.
Probed(b) == IF ProbeDue(b) THEN {OnProbeSuccess(b), OnProbeFailure(b, 0)} ELSE {b}
Drained(b) ==
  {b} \cup (IF CanAdmit(b)
            THEN {OnVerifySuccess(Admit(b)), OnVerifyTransportFailure(Admit(b), 0),
                  OnVerifyInconclusive(Admit(b))}
            ELSE {})
StepsOf(b) == IF b.state = "Open" THEN Probed(b) ELSE Drained(b)
-----------------------------------------------------------------------------
MarginTypeOK ==
  /\ mode \in {"Off", "Fixed", "Auto"} /\ path \in BreakerRecord
  /\ outage \in -1..MaxAge /\ evaluated \in -1..MaxAge /\ span \in 0..MaxAge
  /\ margin \in 0..(IF mode = "Auto" THEN MaxKib ELSE MarginKib)
  /\ owed \in BOOLEAN /\ quarantined \in BOOLEAN /\ polled \in BOOLEAN
  /\ openFor \in -1..MaxAge /\ upFor \in -1..MaxAge

MarginInit ==
  /\ mode \in {"Off", "Fixed", "Auto"}
  /\ path = InitBreaker
  /\ outage = NoAge /\ span = 0 /\ evaluated = NoAge
  /\ margin = IF mode = "Fixed" THEN MarginKib ELSE 0
  /\ owed \in BOOLEAN /\ quarantined \in BOOLEAN
  /\ polled = FALSE /\ openFor = NoAge /\ upFor = 0

RunStep ==
  /\ UpdateMargin
  /\ path' \in StepsOf(path)
  /\ polled' = TRUE
  /\ openFor' = Since(openFor, path'.state = "Open")
  /\ upFor' = Since(upFor, path'.state # "Open")
  /\ UNCHANGED <<mode, owed, quarantined>>

\* Finds are captured, submitted, quarantined; a quarantined one stays.
JournalChanges ==
  /\ \/ owed' = ~owed /\ UNCHANGED quarantined
     \/ ~quarantined /\ quarantined' = TRUE /\ UNCHANGED owed
  /\ UNCHANGED <<mode, path, outage, span, evaluated, margin, polled, openFor, upFor>>

MarginTick ==
  /\ polled /\ polled' = FALSE
  /\ path' = ElapseBreaker(path)
  /\ outage' = Older(outage) /\ evaluated' = Older(evaluated)
  /\ openFor' = Older(openFor) /\ upFor' = Older(upFor)
  /\ UNCHANGED <<mode, span, margin, owed, quarantined>>

MarginNext == RunStep \/ JournalChanges \/ MarginTick

\* The submission thread polls and the clock runs.
MarginSpec == MarginInit /\ [][MarginNext]_marginVars /\ WF_marginVars(RunStep) /\ WF_marginVars(MarginTick)
-----------------------------------------------------------------------------
\* How old an evaluation gets: one interval, or one poll where that is longer.
EvalDelay == Greater(EvalInterval, 1)

\* A find mined during an outage carries the headroom the server's schedule
\* asks for: one step, and one more for every whole period since the path went
\* down, up to the ceiling; the rate limit delays it by one interval at most.
RampKeepsPace ==
  mode = "Auto" /\ openFor > EvalDelay =>
    margin >= Lesser(MarginKib * (1 + ((openFor - EvalDelay - 1) \div Period)), MaxKib)

\* However long the last outage was, one evaluation interval after the breaker
\* has left Open the margin is no more than one step, and that is all a finite
\* or a quarantined backlog costs: the ramp does not outlive the outage.
RampEnds == mode = "Auto" /\ upFor > EvalDelay => margin <= MarginKib

\* With the path up and nothing left in the journal the margin goes to zero and
\* stays there: no hashrate is spent on headroom in the healthy state.
HealthyIsFree ==
  mode = "Auto" /\ <>[](path.state = "Closed" /\ ~owed /\ ~quarantined) => <>[](margin = 0)

\* The margin follows an outage up, at the server's pace, and down again.
MarginInvariant == MarginTypeOK /\ RampKeepsPace /\ RampEnds
=============================================================================
