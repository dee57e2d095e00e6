SPECIFICATION Spec
CONSTANTS
  Retries = 2
  TimeoutSet = FALSE
  Ambiguous = FALSE
INVARIANTS
  UnknownMeansNoAnswer
CHECK_DEADLOCK FALSE
