SPECIFICATION Spec
CONSTANTS
  MaxEvents = 2
  MergedBatchLimit = 2
  HumanPriority = TRUE
  Kinds <- ReportOnly
  MaxRestarts = 0
  MaxFaults = 0
  Removable <- NoRequests
INVARIANTS ReadIsNoRepresentative
CHECK_DEADLOCK FALSE
