SPECIFICATION FairSpec
CONSTANTS
  Workers = {w1}
  NoWorker = NoWorker
  Tasks <- Mixed
  Jobs = {j1}
  SingleShot = SingleShot
  JobOf <- MixedOf
  Webhooks = {j1}
  Concurrency = 1
  Limit = 1
  MaxLosses = 1
  MaxCrashes = 1
  MaxFaults = 1
  MaxStoreErrors = 0
  b1 = b1
  b2 = b2
  s1 = s1
  j1 = j1
  w1 = w1
  w2 = w2
INVARIANTS
  LostForAReason
  ConcurrencyBound
PROPERTIES
  QueuedSettles
  JobsComplete
  ClientsAnswered
CHECK_DEADLOCK FALSE
