SPECIFICATION Spec
CONSTANTS
  c1 = c1
  c2 = c2
  k1 = k1
  NoTask = NoTask
  Chats = {c1, c2}
  NumUpdates = 2
  CronJobs = {}
  ChatOf <- TwoChats
  Texts = {1, 2}
  Allowed = {c1, c2}
  Limited = FALSE
  MaxConcurrent = 1
  Room = 1
  MaxLives = 1
INVARIANT NoOrphans
CHECK_DEADLOCK FALSE
