SPECIFICATION Spec
CONSTANTS
  N = 2
  Length <- MCLength
  Limit <- MCLimit
  NoLimit = NoLimit
  NoCaller = NoCaller
  Callers <- DirectCallers
  Counting <- DirectCallers
  Horizon = 3
  loop = loop
  h1 = h1
  h2 = h2
INVARIANT WindowLimit
CHECK_DEADLOCK FALSE
