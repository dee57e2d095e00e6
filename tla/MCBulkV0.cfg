SPECIFICATION FairSpec
CONSTANTS
  Runners = {r1, r2}
  Tasks = {t1, t2}
  Jobs = {j1}
  JobOf <- OneJobOf
  NoPorts = {}
  Attempts = 3
  MinTasks = 1
  MaxTasks = 2
  MaxFaults = 3
  t1 = t1
  t2 = t2
  j1 = j1
  r1 = r1
  r2 = r2
INVARIANTS
  ClaimedOnce
  RowsBound
  DeletedIsStored
PROPERTIES
  ImplementsJobLedger
  PruneSparesRunning
  JobsComplete
CHECK_DEADLOCK FALSE
