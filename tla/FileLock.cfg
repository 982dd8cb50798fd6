CONSTANTS
  Lockers = {p1, p2, p3}
  Ghost = ghost
  MaxDeaths = 1
  Absent = absent
  Empty = empty
SPECIFICATION LockSpec
INVARIANTS NothingLeft
PROPERTIES StaleCleared
CHECK_DEADLOCK FALSE
