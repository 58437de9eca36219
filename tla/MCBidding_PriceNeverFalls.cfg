SPECIFICATION Spec
CONSTANTS
  Requests = {r1, r2}
  EndCalls = {e1}
  NoOne = NoOne
  Amounts <- MCAmounts
  Stored <- MCStored
  StartingPrice = 2
  StartTime = 0
  MaxNow = 1
CHECK_DEADLOCK FALSE
PROPERTY PriceNeverFalls
