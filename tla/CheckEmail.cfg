SPECIFICATION FairSpec
CONSTANTS
  Retries = 3
  TimeoutSet = TRUE
  Ambiguous = FALSE
INVARIANTS
  ConnectionsBound
  VerdictIsTrue
  UnknownIsEarned
  SessionsBound
PROPERTIES
  GetsShorter
  Terminates
CHECK_DEADLOCK FALSE
