SPECIFICATION Spec
CONSTANTS
  Workers = {w1, w2}
  NoWorker = NoWorker
  Tasks <- TwoBulk
  Jobs = {j1}
  SingleShot = SingleShot
  JobOf <- TwoBulkOf
  Webhooks = {j1}
  Concurrency = 1
  Limit = 1
  MaxLosses = 1
  MaxCrashes = 1
  MaxFaults = 1
  MaxStoreErrors = 1
  b1 = b1
  b2 = b2
  s1 = s1
  j1 = j1
  w1 = w1
  w2 = w2
SYMMETRY BulkSymmetry
INVARIANTS
  Custody
  RowsPaidFor
  CompletedHasAll
  BoundedChecks
  AcceptedIsPublished
PROPERTIES
  ImplementsLedger
  ImplementsJobLedger
CHECK_DEADLOCK FALSE
