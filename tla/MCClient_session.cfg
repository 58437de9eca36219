SPECIFICATION FairSpec
CONSTANTS
  MaxMessages = 2
  Workers = 1
  QueueCapacity = 0
  SendCapacity = 1
  MaxEvents = 1
  Limits = {0, 2}
  Offsets = {3}
  RowCount = 5
  DefaultPageSize = 3
  Errors = TRUE
CHECK_DEADLOCK FALSE
INVARIANTS
  TypeOK
  AnsweredOnce
  DeathHasCause
  ListedWindow
  NobodyIsStuck
PROPERTIES
  OutboxSpec
  GoneIsCleanedUp
