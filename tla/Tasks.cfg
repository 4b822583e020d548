SPECIFICATION Spec
CONSTANTS
  c1 = c1
  c2 = c2
  t1 = t1
  t2 = t2
  t3 = t3
  t4 = t4
  NoRequest = NoRequest
  Chats = {c1, c2}
  Tasks = {t1, t2, t3, t4}
  Owner <- TwoOwners
  Valid = {t1, t2, t3}
  Faults = {"load", "save", "add", "delete", "pause", "snapshot"}
  MaxJobs = 1
INVARIANTS TypeOK CronIsActive ActiveIsScheduled SnapshotIsCurrent
PROPERTY PausedStaysQuiet
