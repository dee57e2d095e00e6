SPECIFICATION Spec
CONSTANTS
  Workers = {w1, w2}
  NoWorker = NoWorker
  Tasks <- OneShot
  Jobs = {j1}
  SingleShot = SingleShot
  JobOf <- OneShotOf
  Webhooks = {j1}
  Concurrency = 1
  Limit = 1
  MaxLosses = 2
  MaxCrashes = 2
  MaxFaults = 2
  MaxStoreErrors = 1
  b1 = b1
  b2 = b2
  s1 = s1
  j1 = j1
  w1 = w1
  w2 = w2
SYMMETRY Symmetry
INVARIANTS
  Custody
  RowsPaidFor
  ThrottledNotStored
  BoundedChecks
  LostForAReason
PROPERTIES
  ImplementsLedger
CHECK_DEADLOCK FALSE
