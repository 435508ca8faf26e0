\* Two slots and one waiting place; threads may be lost.
SPECIFICATION Spec
CONSTANTS
  JobId = {j1, j2, j3, j4}
  Db = {d1, d2, d3, d4, served}
  Snapshot = {s1, s2, s3, s4}
  Fingerprint = {f1, f2}
  Request <- MCRequest
  d1 = d1
  d2 = d2
  d3 = d3
  d4 = d4
  s1 = s1
  s2 = s2
  s3 = s3
  s4 = s4
  f1 = f1
  f2 = f2
  ServeDb = served
  None = None
  MaxConcurrentJobs = 2
  MaxQueueSize = 2
  MaxJobs = 2
  ThreadsMayFail = TRUE
SYMMETRY JobSymmetry
INVARIANTS ExclusiveBuild AnswersAreRight ClientsSeeTheirJobs
PROPERTY IsLeaseService
CHECK_DEADLOCK FALSE
