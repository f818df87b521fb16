CONSTANTS
  Logical = 2
  AttemptsPerPair = 2
  LogicalCap = 2
  PhysicalCap = 4
  MaxFailures = 2
SPECIFICATION GuardFairSpec
INVARIANTS
  TerminalReopens
CHECK_DEADLOCK FALSE
