CONSTANTS
  p1 = p1
  p2 = p2
  Pairs = {p1, p2}
  MaxAttempts = 1
  MaxConcurrency = 2
  Offered <- Schedule
  AttemptLimit = 2
  MaxCrashes = 1
SPECIFICATION FairSpec
INVARIANTS
  EveryReplayReads
  LedgersTellAnswers
PROPERTIES
  DispatchedIsSettled
  KeepsSettlementPromise
