SPECIFICATION FairSpec
CONSTANTS
  Clients = {c1}
  Auctions = {a1, a2}
  Messages = {m1, m2, m3}
  NoMessage = NoMessage
  Capacity = 1
  Errors = TRUE
  MaxEvents = 2
CHECK_DEADLOCK FALSE
INVARIANTS
  TypeOK
  DeliveredInOrder
  HarmHasCause
  SubscriptionsAgree
  SentOnlyDue
  NothingForgotten
PROPERTIES
  FeedSpec
  KeptSubscriptionsDeliver
