CONSTANTS
  Procs = {p1, p2, p3, p4}
  MaxCrashes = 2
  MaxInterrupts = 1
SPECIFICATION Spec
CHECK_DEADLOCK FALSE
SYMMETRY Symmetry
INVARIANTS SameValue EveryoneCounted NothingLeftOver NobodyStuck
