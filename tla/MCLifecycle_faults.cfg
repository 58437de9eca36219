SPECIFICATION Spec
CONSTANTS
  Auctions = {a1, a2}
  Items = {k1, k2}
  Instances = {i1, i2}
  TicksPerSecond = 2
  Times <- MCTimes
  BatchSize = 1
  Errors = TRUE
  MaxNow = 2
  MaxCrashes = 1
  MaxJobs = 1
CHECK_DEADLOCK FALSE
SYMMETRY Symmetric
INVARIANTS
  TypeOK
  EndedOnlyWhenDue
  AnnouncedOnlyIfEnded
  DoubleListingOnlyByOverlap
PROPERTIES
  HouseSpec
