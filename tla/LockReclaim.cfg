SPECIFICATION Spec
CONSTANTS
  p1 = p1
  p2 = p2
  p3 = p3
  c1 = c1
  c2 = c2
  c3 = c3
  None = None
  Procs <- ThreeProcs
  Calls <- ThreeCalls
  ProcOf <- Separate
  Crashing <- FirstProc
  MaxFaults = 0
INVARIANTS MutualExclusion
CHECK_DEADLOCK FALSE
