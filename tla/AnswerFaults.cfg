SPECIFICATION FairSpec
CONSTANTS
  a1 = a1
  None = None
  Approvals <- OneApproval
  MaxRestarts = 2
  MaxFaults = 2
  Faulty <- MostFaults
  TurnsFail = "alone"
  UsageLimit = TRUE
INVARIANTS TypeOK AnswerIsKept ConsentIsKept OneGrant 
PROPERTIES AnswersAreRead
CHECK_DEADLOCK FALSE
