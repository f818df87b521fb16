CONSTANTS
  PerCell = 4
  BatchSize = 2
  MaxAttempts = 2
  Inflight = 2
  NoPair = NoPair
  MaxCrashes = 2
SPECIFICATION FairSpec
INVARIANTS
  RevocationStopsDispatch
  BatchBarrier
PROPERTIES
  StopDrainsAndHolds
  KeepsAttemptPromise
  DriverRests
CHECK_DEADLOCK FALSE
