SPECIFICATION Spec
CONSTANTS
  Ids = {p1, default}
  DefaultId = default
  NoProxy = NoProxy
  MaxOverrides = 1
  p1 = p1
  default = default
INVARIANTS
  ForcedForAll
CHECK_DEADLOCK FALSE
