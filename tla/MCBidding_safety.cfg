SPECIFICATION Spec
CONSTANTS
  Requests = {r1, r2, r3}
  EndCalls = {e1}
  NoOne = NoOne
  Amounts <- MCAmounts
  Stored <- MCStored
  StartingPrice = 2
  StartTime = 0
  MaxNow = 1
SYMMETRY Symmetric
CHECK_DEADLOCK FALSE
INVARIANTS
  TypeOK
  PriceTracksHighest
  BidsChain
  PublishedBidsAreCommitted
  ConflictImpliesRival
PROPERTIES
  BidsOverwriteWhatTheyRead
