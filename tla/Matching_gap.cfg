CONSTANTS
  NS = 2
  Sends <- SomeSends
  Recvs <- SomeRecvs
  MaxSends = 3
  MaxRecvs = 2
  MaxCrashes = 1
SPECIFICATION Spec
CHECK_DEADLOCK FALSE
INVARIANTS SavedForLater
