CONSTANTS
  DecisionCount = 2
  MaxRetries = 1
  MaxWorkers = 3
  MaxFaults = 2
  MaxInterrupts = 1
SPECIFICATION ClientFairSpec
INVARIANTS
  CallsAccounted
PROPERTIES
  DecisionsEnd
CHECK_DEADLOCK FALSE
