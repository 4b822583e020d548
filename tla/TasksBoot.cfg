SPECIFICATION Spec
CONSTANTS
  c1 = c1
  c2 = c2
  t1 = t1
  t2 = t2
  t3 = t3
  t4 = t4
  NoRequest = NoRequest
  Chats = {c1}
  Tasks = {t1}
  Owner <- OneOwner
  Valid = {t1}
  Faults = {}
  MaxJobs = 1
INVARIANT SnapshotIsCurrentAfterRestart
