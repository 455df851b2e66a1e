SPECIFICATION Spec
CONSTANTS
  Kinds = {"turn", "deletion"}
  CapabilitySets = {{"draft"}, {"draft", "session_deletion"}}
  MaxInFlight = 2
  PriorCommands = 1
  MaxSequence = 3
  MaxLinks = 3
  MaxFaults = 1
  MaxDrops = 1
  MaxRaises = 0
  MaxCancels = 0
  MaxRecreations = 1
INVARIANTS
  NoGapLoop
  DeletionIsDelivered
PROPERTY
  RetiredNeverReplayed
CHECK_DEADLOCK FALSE
