SPECIFICATION Spec
CONSTANTS
  Retries = 2
  TimeoutSet = FALSE
  Ambiguous = FALSE
INVARIANTS
  CatchAllIsRisky
CHECK_DEADLOCK FALSE
