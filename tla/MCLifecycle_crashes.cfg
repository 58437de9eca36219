SPECIFICATION FairSpec
CONSTANTS
  Auctions = {a1, a2}
  Items = {k1}
  Instances = {i1, i2}
  TicksPerSecond = 1
  Times <- MCSeconds
  BatchSize = 1
  Errors = FALSE
  MaxNow = 1
  MaxCrashes = 1
  MaxJobs = 1
CHECK_DEADLOCK FALSE
INVARIANTS
  TrackedUntilEnded
  EndIsOnItsWay
PROPERTIES
  ScheduledEnds
  EndedIsAnnounced
