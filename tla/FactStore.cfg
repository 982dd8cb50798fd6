SPECIFICATION Spec
CONSTANTS
  Procs = {p1, p2, p3}
  Facts = {f1, f2}
  Pieces = {a1, a2}
  MaxNodes = 3
  MaxKills = 1
  Nobody = nobody
INVARIANTS QueuedUntilAtomized  
PROPERTIES HistorySpec
CHECK_DEADLOCK FALSE
