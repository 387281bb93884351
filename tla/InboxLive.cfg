SPECIFICATION FairSpec
CONSTANTS
  MaxEvents = 2
  MergedBatchLimit = 2
  HumanPriority = TRUE
  Kinds <- HumanAndReport
  MaxRestarts = 0
  MaxFaults = 0
  Removable <- NoRequests
PROPERTIES StopEnds RowsAreRead
CHECK_DEADLOCK FALSE
