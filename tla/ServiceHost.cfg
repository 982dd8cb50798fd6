CONSTANTS
  j1 = j1  j2 = j2  j3 = j3
  home = home  proj = proj  gone = gone  shut = shut
  None = None
  Jobs = {j1, j2, j3}
  ProjectOf <- MCProjectOf
  Dirs = {home, proj, shut}
  Closed = {shut}
  Home = home
  Rejected = {j2}
  Conns = {c1, c2}
  Asked = {proj, gone}
  MaxWorkers = 1
  Every = 1
  MaxTime = 2
  MaxFails = 1
SPECIFICATION MCSpec
INVARIANTS DirectoryKept 
PROPERTIES DueIsServed RequestsServed
CHECK_DEADLOCK FALSE
