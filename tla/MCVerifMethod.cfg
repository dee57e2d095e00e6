SPECIFICATION Spec
CONSTANTS
  Ids = {p1, default}
  DefaultId = default
  NoProxy = NoProxy
  MaxOverrides = 2
  p1 = p1
  default = default
INVARIANTS
  ProxyHonoured
  RequestProxyUsed
CHECK_DEADLOCK FALSE
