\* Setups and scenes are described in the module. Lifetimes of at most 2 seconds,
\* skew 1: the cache of two is full of live nonces, and also of one live nonce
\* before one that has ended. A consumer who can pay one lease and half a second.
CONSTANTS
  Parts = {"client", "replay", "market"}
  Setups <- MCSetups
  Worker = "w"
  ClockSkew = 1
  MaxLifetime = 2
  Capacity = 2
  Envelopes <- MCEnvelopes
  MaxTime = 6
  MaxRestarts = 1
  l1 = l1
  l2 = l2
  l3 = l3
  w1 = w1
  w2 = w2
  Leases = {l1, l2, l3}
  Workers = {w1, w2}
  Renters = {"rent"}
  Stoppers = {"stop"}
  Sweepers = {"sweep"}
  Reporters = {"report"}
  Cost = 40
  Balance = 60
  Scenes <- MCScenes
SPECIFICATION PlatformSpec
INVARIANTS ClientInvariant ReplayInvariant MarketInvariant
PROPERTIES ClientProgress ShutdownCompletes WatchdogEndsLeases ForgetsOnlyUnderLoad ImplementsBook ExpiredEnds
CHECK_DEADLOCK FALSE
