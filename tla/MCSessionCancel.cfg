SPECIFICATION Spec
CONSTANTS
  Conns = {c1}
  Cancels = {k1}
  Sweepers = {s1}
  Executor = executor
  StaleAfter = 1
  AbandonAfter = 1
  MaxSilence = 1
  MaxNarration = 0
  MaxFollowTimeouts = 0
  MaxCrashes = 1
  MaxFaults = 0
  MaxHistoryFaults = 1
INVARIANTS
  AbandonedNeverRan
  LiveRunNotStale
PROPERTIES
  EventuallyFinished
