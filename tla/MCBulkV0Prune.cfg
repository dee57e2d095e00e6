SPECIFICATION Spec
CONSTANTS
  Runners = {r1}
  Tasks = {t1, t2}
  Jobs = {j1}
  JobOf <- OneJobOf
  NoPorts = {}
  Attempts = 2
  MinTasks = 1
  MaxTasks = 2
  MaxFaults = 1
  t1 = t1
  t2 = t2
  j1 = j1
  r1 = r1
  r2 = r2
INVARIANTS
  PruneIsAtomic
CHECK_DEADLOCK FALSE
