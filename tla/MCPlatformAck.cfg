\* The acknowledgement of a registration arrives after a lease began.
CONSTANTS
  Parts = {"client"}
  Setups <- AckSetups
  Worker = "w"
  ClockSkew = 1
  MaxLifetime = 2
  Capacity = 2
  Envelopes <- MCEnvelopes
  MaxTime = 6
  MaxRestarts = 1
  l1 = l1
  l2 = l2
  l3 = l3
  w1 = w1
  w2 = w2
  Leases = {l1, l2, l3}
  Workers = {w1, w2}
  Renters = {"rent"}
  Stoppers = {"stop"}
  Sweepers = {"sweep"}
  Reporters = {"report"}
  Cost = 40
  Balance = 60
  Scenes <- MCScenes
SPECIFICATION PlatformSpec
INVARIANTS AvailableIsFree
CHECK_DEADLOCK FALSE
