SPECIFICATION Spec
CONSTANTS
  MaxEvents = 2
  MergedBatchLimit = 2
  HumanPriority = TRUE
  Kinds <- AllKinds
  MaxRestarts = 0
  MaxFaults = 0
  Removable <- NoRequests
INVARIANTS TypeOK NotStranded HeldBehindLimit NeverPushedClosed NoDoubleDelivery OneHeldTick
PROPERTIES NoOvertaking
CHECK_DEADLOCK FALSE
