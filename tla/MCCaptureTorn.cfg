\* One lane, single finds, one short write.
CONSTANTS
  Parts = {"capture"}
  Devices = {d1, d2}
  Builds <- MCBuilds
  Kernels <- AllKernels
  MaxLaunches = 2
  Lanes = {l1}
  MaxFinds = 2
  MaxCrashes = 1
  Limits <- TornLimits
SPECIFICATION LifeSpec
INVARIANTS TornCostsOne
