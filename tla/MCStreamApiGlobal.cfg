SPECIFICATION Spec
CONSTANTS
  Streams = {"list"}
  Singles = {"single"}
  Size <- MCSize
  Asked <- MCAsked
  Pool <- MCPool
  MaxTries = 2
  MaxConcurrent = 1
INVARIANTS
  MaxConcurrentIsGlobal
CHECK_DEADLOCK FALSE
