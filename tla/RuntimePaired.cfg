CONSTANTS
  Users = {u1, u2}
  MessageCount = 1
  Capacity = 1
  Horizon = 2
  Variants <- Paired
  Outcomes = {"positive", "failed"}
  CrashModes = {"torn_record", "bare_record", "torn_chunk"}
  MaxCrashes = 2
SPECIFICATION FairSpec
INVARIANTS
  EveryReplayCloses
  FeedbackBarrier
  NothingTwice
  NoCommitLost
  PublishedIsComplete
PROPERTIES
  StartedIsPublished
  KeepsFeedbackPromise
