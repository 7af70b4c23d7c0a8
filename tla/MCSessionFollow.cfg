SPECIFICATION Spec
CONSTANTS
  Conns = {c1}
  Cancels = {}
  Sweepers = {s1}
  Executor = executor
  StaleAfter = 1
  AbandonAfter = 1
  MaxSilence = 1
  MaxNarration = 1
  MaxFollowTimeouts = 1
  MaxCrashes = 1
  MaxFaults = 1
  MaxHistoryFaults = 0
INVARIANTS
  NoDeliveryPastTerminal
PROPERTIES
  FollowerReleased
