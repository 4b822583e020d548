SPECIFICATION Spec
CONSTANTS
  c1 = c1
  d1 = d1
  d2 = d2
  d3 = d3
  Nil = Nil
  Chats = {c1}
  Dispatches = {d1, d2, d3}
  ChatOf <- OneChat
  OnePerChat = TRUE
  UnderMain = {d1, d2, d3}
  Shutdown = FALSE
  Faults = {}
INVARIANT WarmIsPooled
\* The messages are finite: the pool ends up empty and idle.
CHECK_DEADLOCK FALSE
