SPECIFICATION FairSpec
CONSTANTS
  c1 = c1
  c2 = c2
  k1 = k1
  NoTask = NoTask
  Chats = {c1, c2}
  NumUpdates = 3
  CronJobs = {k1}
  ChatOf <- TwoChats
  Texts = {1, 3}
  Allowed = {c1, c2}
  Limited = TRUE
  MaxConcurrent = 1
  Room = 1
  MaxLives = 2
INVARIANTS TypeOK HandledInOrder ConfirmedAreHandled
PROPERTIES UpdatesAreHandled ShutdownEnds
CHECK_DEADLOCK FALSE
