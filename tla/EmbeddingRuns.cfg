SPECIFICATION FairSpec
CONSTANTS
  ChunkCount = 7
  BatchSize = 2
  FetchLimit = 6
  CommitEvery = 2
  Settings <- DualSettings
  MaxRuns = 2
  Interruptions = TRUE
INVARIANTS NoChunkTwice RunAccountsForAll CommittedIsInLance
PROPERTIES RunEnds
CHECK_DEADLOCK FALSE
