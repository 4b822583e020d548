SPECIFICATION FairSpec
CONSTANTS
  c1 = c1
  d1 = d1
  d2 = d2
  d3 = d3
  Nil = Nil
  Chats = {c1}
  Dispatches = {d1, d2}
  ChatOf <- OneChat
  OnePerChat = FALSE
  UnderMain = {d1}
  Shutdown = TRUE
  Faults = {"run", "write", "exec", "stop", "die"}
INVARIANTS TypeOK StartsAlone LiveIsGuarded
PROPERTIES DispatchReturns ContainersStop DeadHandlesLeave
\* The messages are finite: the pool ends up empty and idle.
CHECK_DEADLOCK FALSE
