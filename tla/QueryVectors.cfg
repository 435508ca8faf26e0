\* One provider slot for two query slots, so that a caller waits while it holds one.
SPECIFICATION FairSpec
CONSTANTS
  t1 = t1
  t2 = t2
  Threads = {t1, t2}
  Keys = {1, 2, 3}
  Idle = 0
  CacheSize = 2
  Ttl = 2
  QuerySlots = 2
  ProviderSlots = 1
  MaxRetries = 1
  MaxAsks = 4
  MaxTime = 2
ACTION_CONSTRAINT NewKeysInOrder
INVARIANTS ForgetsLeastRecent
PROPERTIES EveryQueryEnds
CHECK_DEADLOCK FALSE
