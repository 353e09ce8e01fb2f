------------------------- MODULE SubmissionManager -------------------------
(***************************************************************************)
(* The submission layer (submit/SubmissionManager.cpp): one thread drains  *)
(* the journal through the circuit breaker to an unreliable server, while  *)
(* the difficulty poller of main.cpp calls observeDifficulty from another  *)
(* thread and mining lanes append finds.                                   *)
(*                                                                         *)
(* A step of the submission thread lies between two points where another   *)
(* thread, the server or the clock can be seen: each lock release, each    *)
(* network round trip and each journal transaction that others may write   *)
(* to. pc names the point the thread has reached inside runStep_.          *)
(*                                                                         *)
(* Time is a clock of ticks. All deadlines are kept as the time left, so   *)
(* that time itself is unbounded. The loop polls every 250 ms, far faster  *)
(* than the minutes a tick stands for: at least one iteration of the loop  *)
(* ends between two ticks (`stepped'), and a tick may fall anywhere inside *)
(* an iteration.                                                           *)
(***************************************************************************)
EXTENDS CircuitBreaker, DrainScheduler, ResponseClassifier

CONSTANTS
  Difficulties,    \* values the server's difficulty takes
  HourLen,         \* ticks from one :55 to the next
  WindowLen,       \* ticks from :55 to :05
  FetchLimit,      \* fetch_limit
  ConfirmLimit,    \* confirm_fetch_limit
  PrePark,         \* pre_park_below_difficulty
  RetryAfters,     \* Retry-After values of a 429, in ticks
  VerifyFaults,    \* responses /verify gives besides the regular ones
  LookupFaults     \* /get_block outcomes besides the truthful ones

Lookups == {"match", "absent", "bad200", "unavailable", "none"}

ASSUME SubmissionAssumption ==
  /\ Difficulties \subseteq Nat \ {0} /\ Difficulties # {}
  /\ HourLen \in Nat /\ WindowLen \in Nat \ {0} /\ WindowLen < HourLen
  /\ FetchLimit \in Nat \ {0} /\ ConfirmLimit \in Nat \ {0}
  /\ PrePark \in BOOLEAN
  /\ RetryAfters \subseteq Nat
  /\ VerifyFaults \subseteq Responses \ {"diff401"}
  /\ LookupFaults \subseteq Lookups \ {"match"}

VARIABLES
  rows,        \* the journal, durable
  stored,      \* external: finds in the server's table
  serverDiff,  \* external: the server's difficulty
  calm,        \* external: nothing fails at present
  pc,          \* where the submission thread is; "halted" after a fatal error or a crash
  cur,         \* the find being submitted, 0 for none
  verdict,     \* its Classification
  batch,       \* AcceptedUnconfirmed finds confirmStep_ still has to look up
  breaker,     \* breaker_
  winOpen,     \* last_window_open_
  rate,        \* rate_per_s_
  pace,        \* next_submit_allowed_ms_ - now; during a submission: start of step - now
  last,        \* last_difficulty_, 0 for none
  trend,       \* trend_
  poll,        \* where the poller is in updateDifficulty
  pollD,       \* the difficulty it has read
  phase,       \* ticks since :55 on the server's clock
  stepped      \* an iteration of the loop ended since the last tick

envVars == <<stored, serverDiff, calm>>
threadVars == <<pc, cur, verdict, batch, stepped>>
drainVars == <<breaker, winOpen, rate, pace>>
obsVars == <<last, trend>>
pollVars == <<poll, pollD>>
vars == <<rows, envVars, threadVars, drainVars, obsVars, pollVars, phase>>

NoVerdict == Verdict("Pending", 0, "good")

Trends == {"Unknown", "Rising", "Falling", "Flat"}

Init ==
  /\ rows = [f \in Finds |-> EmptyRow]
  /\ stored = {} /\ serverDiff \in Difficulties /\ calm = TRUE
  /\ phase \in 0..(HourLen - 1)
  /\ pc = "top" /\ cur = 0 /\ verdict = NoVerdict /\ batch = {} /\ stepped = FALSE
  /\ breaker = InitBreaker /\ winOpen = FALSE /\ rate = StartRate /\ pace = 0
  /\ last = 0 /\ trend = "Unknown"
  /\ poll = "idle" /\ pollD = 0

WindowOpen == phase < WindowLen
UntilClose == WindowLen - phase

GoTo(p) == pc' = p /\ UNCHANGED <<cur, verdict, batch, stepped>>
Settle(p) == pc' = p /\ cur' = 0 /\ verdict' = NoVerdict /\ batch' = {}
EndStep == Settle("top") /\ stepped' = TRUE
-----------------------------------------------------------------------------
(* observeDifficulty(d), the part under state_mutex_; the journal is       *)
(* touched after the lock is released, and only if Releases(d) held.       *)
Observe(d) ==
  /\ last' = d
  /\ trend' = CASE last = 0 -> trend
                [] last # 0 /\ d > last -> "Rising"
                [] last # 0 /\ d < last -> "Falling"
                [] last # 0 /\ d = last -> "Flat"

Releases(d) == last = 0 \/ d < last
-----------------------------------------------------------------------------
(* runStep_ with the breaker OPEN: probeStep_ *)

ProbeWait ==
  /\ pc = "top" /\ breaker.state = "Open" /\ ~ProbeDue(breaker)
  /\ EndStep
  /\ UNCHANGED <<rows, envVars, drainVars, obsVars, pollVars, phase>>

ProbeAnswered ==
  /\ pc = "top" /\ ProbeDue(breaker)
  /\ Observe(serverDiff)
  /\ \/ /\ Releases(serverDiff)
        /\ pc' = "probeUnpark" /\ verdict' = [NoVerdict EXCEPT !.hint = serverDiff]
        /\ UNCHANGED <<cur, batch, stepped, breaker>>
     \/ ~Releases(serverDiff) /\ breaker' = OnProbeSuccess(breaker) /\ EndStep
  /\ UNCHANGED <<rows, envVars, winOpen, rate, pace, pollVars, phase>>

ProbeUnpark ==
  /\ pc = "probeUnpark"
  /\ rows' = UnparkForDifficulty(rows, verdict.hint)
  /\ breaker' = OnProbeSuccess(breaker)
  /\ EndStep
  /\ UNCHANGED <<envVars, winOpen, rate, pace, obsVars, pollVars, phase>>

(* No 200, or a blank body; or a 200 whose body holds no difficulty.       *)
ProbeDisturbed ==
  /\ pc = "top" /\ ProbeDue(breaker) /\ ~calm
  /\ breaker' \in {OnProbeFailure(breaker, 0), OnProbeSuccess(breaker)}
  /\ EndStep
  /\ UNCHANGED <<rows, envVars, winOpen, rate, pace, obsVars, pollVars, phase>>
-----------------------------------------------------------------------------
(* runStep_ with the breaker CLOSED or HALF_OPEN: submitStep_ *)

Paced ==
  /\ pc = "top" /\ breaker.state # "Open" /\ pace > 0
  /\ GoTo("confirm")
  /\ UNCHANGED <<rows, envVars, drainVars, obsVars, pollVars, phase>>

(* Window edge, fetch per kind, XUNI pressure, selection. The poller can   *)
(* only turn ParkedDifficulty rows into Pending ones meanwhile, which is   *)
(* the same as doing so before or after.                                   *)
Select ==
  /\ pc = "top" /\ breaker.state # "Open" /\ pace = 0
  /\ rows' = IF WindowOpen /\ ~winOpen THEN UnparkXuniForWindow(rows) ELSE rows
  /\ winOpen' = WindowOpen
  /\ LET xuni == IF WindowOpen THEN FetchEligibleOfKind(rows', "XUNI", FetchLimit) ELSE {}
         eligible == FetchEligibleOfKind(rows', "XEN11", FetchLimit) \cup xuni
     IN  /\ breaker' = SetXuniPressure(breaker, xuni # {})
         /\ \/ eligible = {} /\ GoTo("confirm")
            \/ \E f \in eligible :
                 /\ SelectNext(f, eligible, trend, UntilClose)
                 /\ cur' = f /\ pc' = "judge"
                 /\ UNCHANGED <<verdict, batch, stepped>>
  /\ UNCHANGED <<envVars, rate, pace, obsVars, pollVars, phase>>

BelowFloor(f) == PrePark /\ last # 0 /\ MemOf[f] < last

(* tryAdmit's refusal (BreakerBlocked) is not an outcome: AdmissionHeld    *)
(* says that the admission is always there at this point.                  *)
Judge ==
  /\ pc = "judge"
  /\ \/ BelowFloor(cur) /\ GoTo("prepark") /\ UNCHANGED breaker
     \/ ~BelowFloor(cur) /\ CanAdmit(breaker) /\ breaker' = Admit(breaker) /\ GoTo("submit")
  /\ UNCHANGED <<rows, envVars, winOpen, rate, pace, obsVars, pollVars, phase>>

PreParkFind ==
  /\ pc = "prepark"
  /\ rows' = RecordAttempt(rows, cur, "ParkedDifficulty", 0)
  /\ Settle("confirm") /\ UNCHANGED stepped
  /\ pace' = 0
  /\ UNCHANGED <<envVars, breaker, winOpen, rate, obsVars, pollVars, phase>>

(* External: what a healthy server answers to /verify for f.               *)
ServerResponse(f) ==
  CASE MemOf[f] < serverDiff -> "diff401"
    [] MemOf[f] >= serverDiff /\ KindOf[f] = "XUNI" /\ ~WindowOpen -> "window401"
    [] OTHER -> IF f \in stored THEN "exists400" ELSE "ok200"

(* External: the server's table after it has processed /verify for f.      *)
ServerInserts(f) == IF ServerResponse(f) = "ok200" THEN stored \cup {f} ELSE stored

AfterVerdict(v) ==
  CASE v.hint # 0 -> "hint"
    [] v.hint = 0 /\ v.status = "AcceptedUnconfirmed" -> "lookup"
    [] OTHER -> "record"

(* The round trip of transport_.submit and classify. When something fails, *)
(* any of VerifyFaults may come back, a request whose answer was lost may  *)
(* have been processed, and a 200 may stand for an insert that failed.     *)
Submit ==
  /\ pc = "submit"
  /\ \/ /\ stored' = ServerInserts(cur)
        /\ verdict' = Classify(ServerResponse(cur), KindOf[cur], serverDiff)
     \/ /\ ~calm
        /\ \E r \in VerifyFaults :
             /\ verdict' = Classify(r, KindOf[cur], 0)
             /\ \/ stored' = stored
                \/ r \in {"none", "blank", "unhealthy"} /\ stored' = ServerInserts(cur)
  /\ pc' = AfterVerdict(verdict')
  /\ UNCHANGED <<rows, serverDiff, calm, cur, batch, stepped, drainVars, obsVars, pollVars, phase>>

ObserveHint ==
  /\ pc = "hint"
  /\ Observe(verdict.hint)
  /\ GoTo(IF Releases(verdict.hint) THEN "hintUnpark" ELSE "record")
  /\ UNCHANGED <<rows, envVars, drainVars, pollVars, phase>>

HintUnpark ==
  /\ pc = "hintUnpark"
  /\ rows' = UnparkForDifficulty(rows, verdict.hint)
  /\ GoTo("record")
  /\ UNCHANGED <<envVars, drainVars, obsVars, pollVars, phase>>

(* recordAttempt, breaker outcome and pacing at the end of submitStep_. *)
BreakerAfter(status) ==
  IF status \in {"Acked", "AcceptedUnconfirmed"} THEN OnVerifySuccess(breaker)
  ELSE IF verdict.health = "fail" THEN OnVerifyTransportFailure(breaker, 0)
  ELSE OnVerifyInconclusive(breaker)

RateAfter(status) ==
  IF status \in {"Acked", "AcceptedUnconfirmed"} /\ breaker.state # "Closed" THEN OnBreakerClose
  ELSE IF verdict.health = "good" THEN OnHealthyRoundTrip(rate)
  ELSE OnThrottle(rate)

Finish(status, wait) ==
  /\ rows' = RecordAttempt(rows, cur, status, wait)
  /\ breaker' = BreakerAfter(status)
  /\ rate' = RateAfter(status)
  /\ pace' = Greater(pace + SubmitInterval(rate'), 0)
  /\ Settle("confirm") /\ UNCHANGED <<stepped, winOpen>>

RetryWaits(f) ==
  {Backoff(rows[f].attempts)}
    \cup (IF verdict.health = "busy" THEN {RetryDelay(s) : s \in RetryAfters} ELSE {})

Record ==
  /\ pc = "record"
  /\ \E w \in IF verdict.status = "Pending" THEN RetryWaits(cur) ELSE {0} :
       Finish(verdict.status, w)
  /\ UNCHANGED <<envVars, obsVars, pollVars, phase>>

(* /get_block for f. A 200 counts as a match only if its body describes f, *)
(* so a match is never among the faults.                                   *)
LookupOutcomes(f) ==
  {IF f \in stored THEN "match" ELSE "absent"} \cup (IF calm THEN {} ELSE LookupFaults)

(* Broken: any 200 confirms. *)
ConfirmedStatusTrusting(outcome) ==
  CASE outcome \in {"match", "bad200"} -> "Acked"
    [] outcome = "absent" -> "Pending"
    [] OTHER              -> "AcceptedUnconfirmed"

ConfirmedStatus(outcome) ==
  CASE outcome = "match"  -> "Acked"
    [] outcome = "absent" -> "Pending"
    [] OTHER              -> "AcceptedUnconfirmed"

ConfirmWait(f, outcome) == IF outcome = "match" THEN 0 ELSE Backoff(rows[f].attempts)

Lookup ==
  /\ pc = "lookup"
  /\ \E o \in LookupOutcomes(cur) : Finish(ConfirmedStatus(o), ConfirmWait(cur, o))
  /\ UNCHANGED <<envVars, obsVars, pollVars, phase>>
-----------------------------------------------------------------------------
(* confirmStep_ *)

(* Broken: /get_block is called during an outage too. *)
AwaitingDuringOutage == FetchAwaitingConfirmation(rows, ConfirmLimit)

Awaiting ==
  IF breaker.state = "Open" THEN {} ELSE FetchAwaitingConfirmation(rows, ConfirmLimit)

ConfirmFetch ==
  /\ pc = "confirm"
  /\ \/ Awaiting = {} /\ EndStep
     \/ /\ Awaiting # {} /\ batch' = Awaiting /\ pc' = "confirming"
        /\ UNCHANGED <<cur, verdict, stepped>>
  /\ UNCHANGED <<rows, envVars, drainVars, obsVars, pollVars, phase>>

ConfirmOne ==
  /\ pc = "confirming"
  /\ \E f \in batch : \E o \in LookupOutcomes(f) :
       /\ \A g \in batch : f <= g
       /\ rows' = RecordAttempt(rows, f, ConfirmedStatus(o), ConfirmWait(f, o))
       /\ \/ (o = "none" \/ batch = {f}) /\ EndStep
          \/ /\ o # "none" /\ batch # {f}
             /\ batch' = batch \ {f} /\ UNCHANGED <<pc, cur, verdict, stepped>>
  /\ UNCHANGED <<envVars, drainVars, obsVars, pollVars, phase>>
-----------------------------------------------------------------------------
(* A JournalError stops the loop for good (handleFatal_), and so does a    *)
(* crash; what the process knew is lost when it starts again. The journal  *)
(* keeps what was committed: recoverOnStartup finds no Submitting rows and *)
(* leaves the others, and their backoff, alone.                            *)
Halt ==
  /\ ~calm /\ pc # "halted"
  /\ Settle("halted") /\ UNCHANGED stepped
  /\ UNCHANGED <<rows, envVars, drainVars, obsVars, pollVars, phase>>

Restart ==
  /\ pc = "halted"
  /\ Settle("top") /\ stepped' = FALSE
  /\ breaker' = InitBreaker /\ winOpen' = FALSE /\ rate' = StartRate /\ pace' = 0
  /\ last' = 0 /\ trend' = "Unknown"
  /\ poll' = "idle" /\ pollD' = 0
  /\ UNCHANGED <<rows, envVars, phase>>
-----------------------------------------------------------------------------
(* Another thread: updateDifficulty, whose observer is observeDifficulty.  *)

PollReads ==
  /\ poll = "idle"
  /\ poll' = "got" /\ pollD' = serverDiff
  /\ UNCHANGED <<rows, envVars, threadVars, drainVars, obsVars, phase>>

PollDone == poll' = "idle" /\ pollD' = 0

PollObserves ==
  /\ poll = "got"
  /\ Observe(pollD)
  /\ IF Releases(pollD) THEN poll' = "unpark" /\ UNCHANGED pollD ELSE PollDone
  /\ UNCHANGED <<rows, envVars, threadVars, drainVars, phase>>

(* updateDifficulty catches what the journal throws and only logs it.      *)
PollUnparks ==
  /\ poll = "unpark"
  /\ \/ rows' = UnparkForDifficulty(rows, pollD)
     \/ ~calm /\ UNCHANGED rows
  /\ PollDone
  /\ UNCHANGED <<envVars, threadVars, drainVars, obsVars, phase>>
-----------------------------------------------------------------------------
(* Mining lanes, the server, the clock *)

Capture(f) ==
  /\ rows[f].status = "Absent"
  /\ \A g \in Finds : g < f => rows[g].status # "Absent"
  /\ rows' = AppendFind(rows, f)
  /\ UNCHANGED <<envVars, threadVars, drainVars, obsVars, pollVars, phase>>

DifficultyMoves ==
  /\ serverDiff' \in Difficulties \ {serverDiff}
  /\ UNCHANGED <<rows, stored, calm, threadVars, drainVars, obsVars, pollVars, phase>>

WeatherChanges ==
  /\ calm' = ~calm
  /\ UNCHANGED <<rows, stored, serverDiff, threadVars, drainVars, obsVars, pollVars, phase>>

Submitting == {"judge", "prepark", "submit", "hint", "hintUnpark", "lookup", "record"}

Tick ==
  /\ stepped \/ pc = "halted"
  /\ phase' = (phase + 1) % HourLen
  /\ rows' = ElapseRows(rows)
  /\ breaker' = ElapseBreaker(breaker)
  /\ pace' = IF pc \in Submitting THEN pace - 1 ELSE Greater(pace - 1, 0)
  /\ stepped' = FALSE
  /\ UNCHANGED <<envVars, pc, cur, verdict, batch, winOpen, rate, obsVars, pollVars>>

Thread ==
  \/ ProbeWait \/ ProbeAnswered \/ ProbeUnpark \/ ProbeDisturbed
  \/ Paced \/ Select \/ Judge \/ PreParkFind \/ Submit \/ ObserveHint \/ HintUnpark
  \/ Record \/ Lookup \/ ConfirmFetch \/ ConfirmOne

Poller == PollReads \/ PollObserves \/ PollUnparks

Next ==
  \/ Thread \/ Halt \/ Restart \/ Poller
  \/ (\E f \in Finds : Capture(f)) \/ DifficultyMoves \/ WeatherChanges \/ Tick

(* The loop keeps running, a halted process is started again, time passes. *)
Spec == Init /\ [][Next]_vars /\ WF_vars(Thread) /\ WF_vars(Restart) /\ WF_vars(Tick)
-----------------------------------------------------------------------------
(* Ranges of the state. *)
TypeOK ==
  /\ rows \in [Finds -> Row]
  /\ stored \subseteq Finds /\ serverDiff \in Difficulties /\ calm \in BOOLEAN
  /\ pc \in Submitting \cup {"top", "probeUnpark", "confirm", "confirming", "halted"}
  /\ cur \in Finds \cup {0}
  /\ verdict \in [status : Statuses, hint : Difficulties \cup {0}, health : {"good", "fail", "busy"}]
  /\ batch \subseteq Finds
  /\ breaker \in BreakerRecord
  /\ winOpen \in BOOLEAN /\ stepped \in BOOLEAN
  /\ rate \in Rates /\ pace \in Int
  /\ last \in Difficulties \cup {0} /\ trend \in Trends
  /\ poll \in {"idle", "got", "unpark"} /\ pollD \in Difficulties \cup {0}
  /\ phase \in 0..(HourLen - 1)

(* The row a submission or a confirmation is about is in the status it was *)
(* fetched in until the thread itself writes it: recordAttempt's           *)
(* unconditional UPDATE never overwrites what somebody else decided        *)
(* meanwhile (observeDifficulty runs on two threads).                      *)
OwnRowStable ==
  /\ pc \in Submitting => cur \in Finds /\ rows[cur].status = "Pending"
  /\ \A f \in batch : rows[f].status = "AcceptedUnconfirmed"

(* A find is presented as confirmed only if the server has it, whatever    *)
(* was lost, repeated or misreported on the way (PLAN section 10.2).       *)
AckedStored == \A f \in Finds : rows[f].status = "Acked" => f \in stored

(* During an outage neither /verify nor /get_block is called, and whenever *)
(* a find was selected the breaker has an admission to give.               *)
AdmissionHeld ==
  /\ breaker.state = "Open" => pc \notin Submitting \cup {"confirming"}
  /\ pc \in {"judge", "prepark"} => CanAdmit(breaker)

(* A find is given up as Dead only if it is a XUNI that was released into  *)
(* every window of its budget.                                             *)
DeadOnlyExhausted ==
  \A f \in Finds : rows[f].status = "Dead" => KindOf[f] = "XUNI" /\ rows[f].tried = MaxWindows

(* An iteration that submits nothing although it may submit had nothing to *)
(* submit: neither kind hides the other behind a full fetch slice, in      *)
(* particular XUNIs waiting for their window do not hold up XEN11s.        *)
IdleOnlyWhenNothingDue ==
  [][pc = "top" /\ pc' = "confirm" /\ pace = 0 =>
       \A f \in Due(rows', "Pending") : KindOf[f] = "XUNI" /\ ~WindowOpen]_vars

(* "unparkForDifficulty() releases them the moment the floor falls to m    *)
(* (boundary inclusive)" (SubmissionManager.h): with both threads at rest  *)
(* and the server's difficulty observed, no find is parked that it admits. *)
ParkedBelowFloorOnly ==
  pc = "top" /\ poll = "idle" /\ last = serverDiff =>
    \A f \in Finds : rows[f].status = "ParkedDifficulty" => MemOf[f] < last

AbstractState(status) ==
  CASE status = "Absent" -> "absent"
    [] status \in Owed   -> "owed"
    [] status = "Acked"  -> "acked"
    [] OTHER             -> "closed"

Lifecycle == INSTANCE FindLifecycle
               WITH fstate <- [f \in Finds |-> AbstractState(rows[f].status)]

(* The submission layer keeps what FindLifecycle promises.                 *)
ImplementsLifecycle == Lifecycle!LSpec

(* Once nothing fails any more, every captured find that no difficulty can *)
(* turn away reaches an end: no backoff, breaker state, pacing, selection  *)
(* order or window rule keeps it waiting forever.                          *)
Terminal(f) == rows[f].status \in Closed \cup {"Acked"}
AlwaysQualifies(f) == \A d \in Difficulties : MemOf[f] >= d
EveryFindSettles ==
  <>[]calm => \A f \in Finds :
                AlwaysQualifies(f) => [](rows[f].status # "Absent" => <>Terminal(f))
=============================================================================
