SPECIFICATION Spec
CONSTANTS
  Retries = 2
  TimeoutSet = FALSE
  Ambiguous = FALSE
INVARIANTS
  RiskyExists
CHECK_DEADLOCK FALSE
