SPECIFICATION Spec
CONSTANTS
  Auctions = {a1, a2}
  Items = {k1}
  Instances = {i1}
  TicksPerSecond = 1
  Times <- MCSeconds
  BatchSize = 1
  Errors = FALSE
  MaxNow = 1
  MaxCrashes = 0
  MaxJobs = 1
CHECK_DEADLOCK FALSE
INVARIANT OneActivePerItem
