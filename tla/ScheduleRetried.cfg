SPECIFICATION Spec
CONSTANTS
  Interval = 2
  RetryDelay = 1
  SlowWrites = FALSE
  MaxTime = 3
  MaxEvents = 3
  MaxUpset = 3
INVARIANTS FailedIsRetried
CHECK_DEADLOCK FALSE
