\* Two processes over one prefix.
CONSTANTS
  Procs = {"p", "q"}
  Versions = {1, 2}
  MaxOps = 4
  MaxStops = 1
  MaxPower = 0
SPECIFICATION Spec
INVARIANTS
  RecoverIsLockPreserving
CHECK_DEADLOCK FALSE
