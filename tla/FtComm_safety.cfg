CONSTANTS
  w = w
  c = c
  NP = 3
  Comms <- TwoComms
  World = w
  Split <- TwoIntra
  Algorithm = "bmg"
  AllocMayFail = FALSE
  Revocable = {c}
  Ackers = {0, 1}
  Dead0 <- NoDead
  MaxCrashes = 2
  MaxFrees = 1
SPECIFICATION Spec
INVARIANTS TypeOK RevokeIntegrity CollectivesSafe RevokeForwarded FailureForwarded WildcardSafe FailureAccuracy
PROPERTY AckedStable
CHECK_DEADLOCK FALSE
