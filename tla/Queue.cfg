SPECIFICATION FairSpec
CONSTANTS
  c1 = c1
  c2 = c2
  t1 = t1
  t2 = t2
  t3 = t3
  t4 = t4
  NoTask = NoTask
  Chats = {c1, c2}
  Tasks = {t1, t2, t3, t4}
  ChatOf <- Crowd
  Cap = 1
  MaxConcurrent = 1
INVARIANTS TypeOK SlotsBounded FIFO AcceptedOnce ParkedSafely StopDrains
PROPERTIES ImplementsSerialExecutor AcceptedTasksRun EnqueueReturns StopReturns
\* The calls are finite: the queue ends up idle.
CHECK_DEADLOCK FALSE
