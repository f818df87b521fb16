CONSTANTS
  PerCell = 2
  BatchSize = 2
  MaxAttempts = 2
  Inflight = 2
  NoPair = NoPair
  MaxCrashes = 0
SPECIFICATION Spec
INVARIANT CompleteHistoryReads
CHECK_DEADLOCK FALSE
