SPECIFICATION Spec
CONSTANTS
  r1 = r1
  r2 = r2
  None = None
  Runner <- TwoRunners
  Ttl = 1
  Margin = 1
  Drain = 1
  LostAfter = 1
  MaxFence = 2
  MaxUpset = 2
  Assumed <- Everything
SYMMETRY Symmetric
INVARIANTS TypeOK   StoppedIsStopped FenceIsLedgered
PROPERTY LeaseSuccession
CHECK_DEADLOCK FALSE
