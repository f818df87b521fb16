CONSTANTS
  Logical = 3
  AttemptsPerPair = 3
  LogicalCap = 3
  PhysicalCap = 7
  MaxFailures = 3
SPECIFICATION GuardFairSpec
INVARIANTS
  LedgerCoversCalls
PROPERTIES
  GuardKeepsPromise
  RunEnds
CHECK_DEADLOCK FALSE
