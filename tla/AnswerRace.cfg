SPECIFICATION Spec
CONSTANTS
  a1 = a1
  None = None
  Approvals <- OneApproval
  MaxRestarts = 1
  MaxFaults = 0
  Faulty <- NoFaults
  TurnsFail = "posted"
  UsageLimit = FALSE
INVARIANTS AnswerIsKept
CHECK_DEADLOCK FALSE
