\* Intervals 2, 4, 7 (the cap is not a power of the base), XUNI cap 3; a period
\* of two units, a ceiling between two whole steps, ages that outlast the ramp;
\* two usable answers, zero and one beyond the limit, two kills, outages of up
\* to four polls. Two batch sizes and two segment sizes, so that a change of
\* shape may reuse, shrink or rebuild the runner; batches that do not divide
\* evenly, more threads than attempts, chunks of one, two and more than the
\* batch; block sizes on both sides of every piece's length; a word small enough
\* for references to reach both ends of their area, segments of several address
\* blocks; the warp as it is, 32 threads and 128 words.
CONSTANTS
  FailureThreshold = 3
  ProbeBase = 2
  ProbeCap = 7
  ProbeCapXuni = 3
  JitterPct = 20
  MarginKib = 2
  MaxKib = 5
  Period = 2
  EvalInterval = 1
  MaxAge = 8
  Answers <- AnswersSmall
  Hints = {33}
  MaxCached = 99
  Fallback = 42
  Threshold = 3
  MaxFailures = 4
  MaxRestarts = 2
  Shapes <- MCShapes
  SelfTestShape <- MCSelfTestShape
  Tags = 3
  MaxFaults = 3
  MinParallel = 2
  Batches = {1, 2, 3, 4, 5}
  HardwareThreads = {1, 2, 3}
  Caps = {0, 1, 2}
  Chunks = {0, 1, 2, 6}
  BlockSizes = {2, 3, 5, 9}
  KeyLengths = {0, 1, 2, 3, 4, 7}
  SaltLengths = {0, 1, 3, 5}
  DigestSize = 4
  LongLengths = {1, 4, 5, 6, 8, 9, 13}
  CounterMod = 11
  Word = 16
  Qwords = 2
  BatchSizes = {1, 2, 3}
  WarpsPerBlock = {1, 2}
  SegmentBlocks = {2, 3, 4}
SPECIFICATION MinerSpec
INVARIANTS BreakerInvariant MarginInvariant PollerInvariant
  RunnerInvariant WorkersInvariant DigestInvariant KernelInvariant WarpInvariant
PROPERTIES ClosesOnlyOnSuccess OutageEnds HealthyIsFree DownClears
  LaneRecovers
