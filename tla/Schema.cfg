CONSTANTS
  new1 = new1  new2 = new2  old = old
  None = None
  Procs = {new1, new2, old}
  Ensures = {new1, old}
  Last <- MCLast
  Additive = {3, 4}
  StartVer = 0
  MaxKills = 2
SPECIFICATION FairSpec
INVARIANTS VersionNotAhead EnsuredIsComplete
PROPERTIES OpensEnd
