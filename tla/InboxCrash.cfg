SPECIFICATION Spec
CONSTANTS
  MaxEvents = 2
  MergedBatchLimit = 2
  HumanPriority = TRUE
  Kinds <- HumanOnly
  MaxRestarts = 1
  MaxFaults = 1
  Removable <- FirstEvent
INVARIANTS ErasedNeverRead
PROPERTIES RowsLeaveWhenDone NoRowComesBack NoRedeliveryOfFinished KeepsContract
CHECK_DEADLOCK FALSE
