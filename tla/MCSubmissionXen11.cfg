CONSTANTS
  FailureThreshold = 2
  ProbeBase = 1
  ProbeCap = 2
  ProbeCapXuni = 1
  JitterPct = 0
  Finds <- One
  KindOf <- Xen11Only
  MemOf <- MemTwo
  Valid <- One
  AttemptCap = 1
  BackoffBase = 1
  BackoffCap = 2
  MaxWindows = 1
  StartRate = 1
  MinRate = 1
  MaxRate = 2
  PaceUnit = 1
  PreemptTicks = 1
  Difficulties = {1, 2, 3}
  HourLen = 2
  WindowLen = 1
  FetchLimit = 1
  ConfirmLimit = 1
  PrePark = TRUE
  RetryAfters = {0, 5}
  VerifyFaults = {"none", "ok200", "r429", "hashfail401", "odd401"}
  LookupFaults = {"bad200", "none", "absent", "unavailable"}
SPECIFICATION Spec
INVARIANTS OwnRowStable AckedStored
PROPERTIES ImplementsLifecycle
