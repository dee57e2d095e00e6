SPECIFICATION Spec
CONSTANTS
  Retries = 1
  TimeoutSet = FALSE
  Ambiguous = FALSE
INVARIANTS
  TotalConnections
CHECK_DEADLOCK FALSE
