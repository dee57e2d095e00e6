SPECIFICATION Spec
CONSTANTS
  N = 2
  Length <- MCLength
  Limit <- MCLimit
  NoLimit = NoLimit
  NoCaller = NoCaller
  Callers <- WorkerCallers
  Counting <- WorkerCounting
  Horizon = 4
  loop = loop
  h1 = h1
  h2 = h2
INVARIANT DelayDefined
CHECK_DEADLOCK FALSE
