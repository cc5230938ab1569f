CONSTANTS
  Proc = {p1, p2}
  NoProc = NoProc
  NINODES = 5
  NINODE = 4
  NFILE = 1
  Request <- Calls
  Starts <- Booted
  MaxCalls = 2
  MaxCrashes = 0
SPECIFICATION Spec
INVARIANT OrphansHeld
SYMMETRY Sym
CHECK_DEADLOCK FALSE
