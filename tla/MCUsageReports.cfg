SPECIFICATION Spec
CONSTANTS
  t1 = t1
  t2 = t2
  Tenants = {t1, t2}
  Sources <- MCSources
  Worker = worker
  Cli = cli
  Window = 2
  CliWindows = {1}
  HourLength = 1
  DayLength = 2
  MaxTime = 3
  MaxFacts = 2
  MaxFaults = 1
  MaxCalls = 1
  Registered = {t1, t2}
  Requests <- MCRequests
  NoRef = noref
  MaxSpan = 3
  MaxBuckets = 2
  Tolerance = 1
INVARIANTS
  StallIsFlagged
PROPERTIES
  PassDropsOnlyUnseen
  RollupConverges
