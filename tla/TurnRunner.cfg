SPECIFICATION FairSpec
CONSTANTS
  a1 = a1
  a2 = a2
  Approvals = {}
  Decisions = {"approved", "denied"}
  MaxMessages = 2
  MaxReplies = 3
  ApprovalMemory = 1
  TurnBound = TRUE
  MaxRestarts = 2
INVARIANTS EveryReplyOnce
PROPERTIES ImplementsTurnQueue EveryMessageSettles
CHECK_DEADLOCK FALSE
