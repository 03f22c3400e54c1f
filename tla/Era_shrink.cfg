CONSTANTS
  NP = 4
  TreeFn = "binary"
  Host <- OneHost
  K = 8
  MaxCrashes = 3
  Caller = "shrink"
  Deferred = FALSE
  Rebuild = TRUE
  DtCount = 1
  Survive = TRUE
  LateDelivery = FALSE
SPECIFICATION Spec
CHECK_DEADLOCK FALSE
INVARIANTS SameGroup RoundsBounded TypeOK
 
