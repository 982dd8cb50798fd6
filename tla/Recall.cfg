SPECIFICATION Spec
CONSTANTS
  p1 = p1  p2 = p2  t1 = t1  t2 = t2
  None = none
  Procs = {p1, p2}
  Threads = {t1, t2}
  ProcOf <- MCProcOf
  Projects = {a}
  Writes = {"store", "update"}
  Ttl = 1
  MaxChanges = 2
  MaxTime = 4
  MaxRecall = 1
INVARIANTS StaleAtMostTtl OwnWritesSeen
CHECK_DEADLOCK FALSE
