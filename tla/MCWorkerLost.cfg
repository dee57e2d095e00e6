SPECIFICATION Spec
CONSTANTS
  Workers = {w1}
  NoWorker = NoWorker
  Tasks <- OneShot
  Jobs = {j1}
  SingleShot = SingleShot
  JobOf <- OneShotOf
  Webhooks = {}
  Concurrency = 1
  Limit = 1
  MaxLosses = 1
  MaxCrashes = 0
  MaxFaults = 2
  MaxStoreErrors = 0
  b1 = b1
  b2 = b2
  s1 = s1
  j1 = j1
  w1 = w1
  w2 = w2
INVARIANTS
  AckedIsStored
CHECK_DEADLOCK FALSE
