\* One slot (the constructor raises 0 to 1); every started thread runs.
SPECIFICATION FairSpec
CONSTANTS
  JobId = {j1, j2, j3}
  Db = {d1, d2, d3, d4, served}
  Snapshot = {s1, s2, s3, s4}
  Fingerprint = {f1, f2}
  Request <- MCRequest
  d1 = d1
  d2 = d2
  d3 = d3
  d4 = d4
  s1 = s1
  s2 = s2
  s3 = s3
  s4 = s4
  f1 = f1
  f2 = f2
  ServeDb = served
  None = None
  MaxConcurrentJobs = 0
  MaxQueueSize = 2
  MaxJobs = 2
  ThreadsMayFail = FALSE
PROPERTIES IsFairLeaseService
CHECK_DEADLOCK FALSE
