SPECIFICATION FairSpec
CONSTANTS
  Auctions = {a1}
  Items = {k1}
  Instances = {i1}
  TicksPerSecond = 1
  Times <- MCSeconds
  BatchSize = 1
  Errors = TRUE
  MaxNow = 1
  MaxCrashes = 0
  MaxJobs = 1
CHECK_DEADLOCK FALSE
PROPERTY AuctionsEnd
