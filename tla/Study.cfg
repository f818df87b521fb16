CONSTANTS
  Models = 2
  CellsPerModel = 2
  PerCell = 2
  BatchSize = 1
  MaxAttempts = 2
  MaxCrashes = 2
SPECIFICATION FairSpec
INVARIANTS
  JournalsAgree
  StatusNeverLeads
  SerialSchedule
PROPERTIES
  KeepsAttemptPromise
  StudyEnds
CHECK_DEADLOCK FALSE
