\* Sound inputs and inputs with a record that always raises.
SPECIFICATION FairSpec
CONSTANTS
  Stream <- MCStream
  BadRecords = {0, 6}
  BatchSize = 2
  Retries = 2
  MaxFaults = 3
  MaxRuns = 2
  Crashes = TRUE
INVARIANTS CompletedRunHasAll CleanRunIsExact NoPartialIngestion
PROPERTIES RunEnds
CHECK_DEADLOCK FALSE
