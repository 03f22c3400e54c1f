CONSTANTS
  w = w
  c = c
  NP = 6
  Comms <- OneComm
  World = w
  Split <- OneIntra
  Algorithm = "bmg"
  AllocMayFail = FALSE
  Revocable = {w}
  Ackers = {}
  Dead0 <- RingDead
  MaxCrashes = 1
  MaxFrees = 0
SPECIFICATION FairSpec
PROPERTIES RevokeReachesAll FailureReachesAll
CHECK_DEADLOCK FALSE
