\* Builds, kernels and the limits of capture are described in the module.
CONSTANTS
  Parts = {"process", "capture"}
  Devices = {d1, d2}
  Builds <- MCBuilds
  Kernels <- AllKernels
  MaxLaunches = 2
  Lanes = {l1, l2}
  MaxFinds = 3
  MaxCrashes = 1
  Limits <- MCLimits
SPECIFICATION LifeSpec
INVARIANTS ProcessInvariant CaptureInvariant
PROPERTIES MonitorObeys ImportNeverRevives FatalRestarts
