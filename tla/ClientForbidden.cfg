SPECIFICATION Spec
CONSTANTS
  o1 = o1
  o2 = o2
  o3 = o3
  None = None
  Ops = {o1, o2}
  Methods = {"authenticate", "refresh", "call", "revoke"}
  Providers = {"dev-jwt"}
  Manifests = {"open"}
  StoresUp = {TRUE}
  MaxGrants = 2
  AccessTtl = 2
  RefreshTtl = 2
  MaxRetries = 1
  MaxFaults = 0
  Timeout = 1
  Margin = 1
  MaxLate = 1
INVARIANTS
  StaysAuthorized
CHECK_DEADLOCK FALSE
