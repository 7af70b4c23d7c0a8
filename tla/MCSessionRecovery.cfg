SPECIFICATION Spec
CONSTANTS
  Conns = {c1, c2}
  Cancels = {}
  Sweepers = {s1}
  Executor = executor
  StaleAfter = 1
  AbandonAfter = 1
  MaxSilence = 1
  MaxNarration = 1
  MaxFollowTimeouts = 0
  MaxCrashes = 1
  MaxFaults = 1
  MaxHistoryFaults = 0
SYMMETRY Symmetry
INVARIANTS
  OneExecutorEver
  WatermarkCoversLog
  OneOutcome
  FinishedIsLogged
PROPERTIES
  FinishedStaysFinished
