CONSTANTS
  Missing = 3
  Transports = 2
  GlobalRetries = 2
  PairAttempts = 3
  PathCount = 2
  MaxKills = 2
  MaxReruns = 2
SPECIFICATION CollectionFairSpec
INVARIANTS
  LedgerHolds
PROPERTIES
  KeepsCollectionPromise
  StudyRests
CHECK_DEADLOCK FALSE
