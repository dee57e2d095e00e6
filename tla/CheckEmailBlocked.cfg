SPECIFICATION Spec
CONSTANTS
  Retries = 2
  TimeoutSet = FALSE
  Ambiguous = TRUE
INVARIANTS
  BlockedIsUnknown
CHECK_DEADLOCK FALSE
