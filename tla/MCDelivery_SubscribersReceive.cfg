SPECIFICATION FairSpec
CONSTANTS
  Clients = {c1}
  Auctions = {a1}
  Messages = {m1, m2, m3}
  NoMessage = NoMessage
  Capacity = 2
  Errors = FALSE
  MaxEvents = 2
CHECK_DEADLOCK FALSE
PROPERTIES
  SubscribersReceive
