SPECIFICATION FairSpec
CONSTANTS
  c1 = c1
  c2 = c2
  Worker = worker
  Owner = owner
  Clients <- MCClients
  Flushers <- MCClients
  MaxJobs = 4
INVARIANTS ExactlyOnce JobsRunInFifoOrder FlushTakesWhatItFound
PROPERTIES LedgerSpec EveryJobRuns TeardownEnds
CHECK_DEADLOCK FALSE
