\* Two streams on a card that holds a few attempts, both live or one locked;
\* difficulty and margin moving against each other, cycles of two batches with
\* one or two fees. Two workers started twice, difficulties below the minimum,
\* below the ceiling and above it. Batches of up to three attempts, finalized two
\* at a time.
CONSTANTS
  Streams = 2
  Total = 18
  Headroom = 2
  Reserve = 1
  Tuned <- TunedSmall
  Difficulties = {2, 4}
  Margins = {0, 1}
  MaxInt = 100
  Cycle = 2
  Options <- MCOptions
  MaxChanges = 2
  WorkerCount = 2
  Provided = {1, 8, 20}
  MinDifficulty = 8
  MaxDifficulty = 10
  MaxStarts = 2
  MaxMoves = 2
  Chunk = 2
  Sizes = {2, 3}
  MaxBatches = 2
SPECIFICATION MiningSpec
INVARIANTS LanesInvariant CpuInvariant ReportsInvariant
PROPERTIES LanesFollow CpuProgress
