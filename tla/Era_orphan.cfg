CONSTANTS
  NP = 4
  TreeFn = "binary"
  Host <- OneHost
  K = 3
  MaxCrashes = 1
  Caller = "shrink"
  Deferred = FALSE
  Rebuild = TRUE
  DtCount = 1
  Survive = FALSE
  LateDelivery = FALSE
SPECIFICATION Spec
CHECK_DEADLOCK FALSE
INVARIANTS NobodyLeft
