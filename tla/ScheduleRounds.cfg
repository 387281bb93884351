SPECIFICATION Spec
CONSTANTS
  Interval = 2
  RetryDelay = 1
  SlowWrites = FALSE
  MaxTime = 4
  MaxEvents = 3
  MaxUpset = 2
INVARIANTS TypeOK BaseHasRun
PROPERTY NeverRunsAgain
CHECK_DEADLOCK FALSE
