CONSTANTS
  Population = 3
  Horizon = 3
  Directed = TRUE
SPECIFICATION Spec
INVARIANTS
  SummaryTellsEvents
PROPERTIES
  GoesInWaves
CHECK_DEADLOCK FALSE
