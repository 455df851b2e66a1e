SPECIFICATION Spec
CONSTANTS
  a1 = a1
  a2 = a2
  Approvals = {a1, a2}
  Decisions = {"denied"}
  MaxMessages = 2
  MaxReplies = 0
  ApprovalMemory = 1
  TurnBound = TRUE
  MaxRestarts = 1
INVARIANTS CardsAreSettled CommandsHitTheirTurn
CHECK_DEADLOCK FALSE
