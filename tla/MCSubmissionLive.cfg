CONSTANTS
  FailureThreshold = 1
  ProbeBase = 1
  ProbeCap = 1
  ProbeCapXuni = 1
  JitterPct = 0
  Finds <- Two
  KindOf <- XuniThenXen11
  MemOf <- MemOne
  Valid <- Two
  AttemptCap = 0
  BackoffBase = 1
  BackoffCap = 1
  MaxWindows = 2
  StartRate = 1
  MinRate = 1
  MaxRate = 1
  PaceUnit = 1
  PreemptTicks = 1
  Difficulties = {1}
  HourLen = 4
  WindowLen = 2
  FetchLimit = 1
  ConfirmLimit = 1
  PrePark = TRUE
  RetryAfters = {}
  VerifyFaults = {"none", "window401"}
  LookupFaults = {"none"}
SPECIFICATION Spec

INVARIANTS TypeOK AdmissionHeld DeadOnlyExhausted
PROPERTIES EveryFindSettles IdleOnlyWhenNothingDue
