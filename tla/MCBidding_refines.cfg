SPECIFICATION FairSpec
CONSTANTS
  Requests = {r1, r2}
  EndCalls = {e1, e2}
  NoOne = NoOne
  Amounts <- MCFewAmounts
  Stored <- MCFewStored
  StartingPrice = 2
  StartTime = 0
  MaxNow = 1
CHECK_DEADLOCK FALSE
INVARIANTS
  AnnouncedWinnerSound
  WinnerlessHasCause
PROPERTIES
  AbstractSpec
  AllSettle
