SPECIFICATION FairSpec
CONSTANTS
  c1 = c1
  c2 = c2
  None = none
  Platforms = {"posix", "windows"}
  Daemons = {d1, d2}
  Clients = {c1, c2}
  Plan <- MCPlan
  Payloads <- MCPayloads
  MaxRules = 1
  DbCanFail = FALSE
INVARIANTS SingleServer ServerKeepsItsName HookHandled 
PROPERTIES CallsReturn PipeShutdownStops
CHECK_DEADLOCK FALSE
