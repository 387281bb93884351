SPECIFICATION FairSpec
CONSTANTS
  p1 = p1
  p2 = p2
  p3 = p3
  c1 = c1
  c2 = c2
  c3 = c3
  None = None
  Procs <- TwoProcs
  Calls <- ThreeCalls
  ProcOf <- Unpaired
  Crashing <- TwoProcs
  MaxFaults = 2
INVARIANTS TypeOK MutualExclusion NoLostUpdate CallsTakeTurns
PROPERTY CallsEnd
CHECK_DEADLOCK FALSE
