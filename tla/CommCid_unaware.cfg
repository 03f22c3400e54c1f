CONSTANTS
  Procs = {p1, p2, p3}
  Colours <- TwoColours
  Width = 2
  MaxCid = 8
  MaxComms = 2
  MaxRounds = 3
  Revocable = {1}
  MaxRevokes = 1
  MaxCrashes = 1
SPECIFICATION Spec
SYMMETRY Symmetry
CHECK_DEADLOCK FALSE
INVARIANTS AwareOfFailures
