CONSTANTS
  Suffix = 5
  BatchSize = 3
  Lanes = 2
  MaxAttempts = 2
  PhysicalCap = 11
  PrefixPhysical = 1
  Migrations = {"none", "authorized", "unauthorized"}
  MaxFailures = 2
SPECIFICATION FairSpec
INVARIANTS
  ReloadsItsStatus
  StatusCoversCalls
  WholeBatchesOnly
PROPERTIES
  WavesAreReported
CHECK_DEADLOCK FALSE
