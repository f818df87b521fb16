CONSTANTS
  p1 = p1
  p2 = p2
  p3 = p3
  Schedule <- TwoBatches
  Lanes = 2
  MaxAttempts = 2
  PhysicalCap = 8
  MaxCrashes = 2
SPECIFICATION FairSpec
INVARIANTS
  AccountingHolds
  CompletionHolds
PROPERTIES
  FrozenOnceEnded
  KeepsSettlementPromise
  RunEnds
