CONSTANTS
  NP = 4
  TreeFn = "binary"
  Host <- OneHost
  K = 2
  MaxCrashes = 2
  Caller = "agree"
  Deferred = TRUE
  Rebuild = TRUE
  DtCount = 1
  Survive = TRUE
  LateDelivery = FALSE
SPECIFICATION Spec
CHECK_DEADLOCK FALSE
INVARIANTS ToldWhatItJoined EveryoneCounted SameTree SameValue
