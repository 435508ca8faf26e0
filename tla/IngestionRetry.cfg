SPECIFICATION Spec
CONSTANTS
  Stream <- MCStream
  BadRecords = {0}
  BatchSize = 2
  Retries = 2
  MaxFaults = 1
  MaxRuns = 1
  Crashes = FALSE
INVARIANT RetryIsIdempotent
CHECK_DEADLOCK FALSE
