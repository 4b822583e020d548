SPECIFICATION Spec
CONSTANTS
  a1 = a1
  a2 = a2
  a3 = a3
  Main = Main
  Nil = Nil
  Agents = {a1, a2, a3}
  SpawnedBy <- Nested
  Faults = {"run", "stop", "die"}
INVARIANTS TypeOK SubLiveIsGuarded StopAllReaches
\* The spawns are finite: the pool ends up empty and idle.
CHECK_DEADLOCK FALSE
