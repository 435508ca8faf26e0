SPECIFICATION Spec
CONSTANTS
  ChunkCount = 2
  BatchSize = 1
  FetchLimit = 2
  CommitEvery = 1
  Settings <- MigrationSettings
  MaxRuns = 2
  Interruptions = FALSE
INVARIANT DualRunFillsLance
CHECK_DEADLOCK FALSE
