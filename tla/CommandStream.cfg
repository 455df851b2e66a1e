SPECIFICATION FairSpec
CONSTANTS
  Kinds = {"turn", "resolve", "action"}
  CapabilitySets = {{"draft", "cozyapps"}, {"draft", "approvals", "cozyapps"}}
  MaxInFlight = 1
  PriorCommands = 0
  MaxSequence = 2
  MaxLinks = 2
  MaxFaults = 1
  MaxDrops = 0
  MaxRaises = 1
  MaxCancels = 1
  MaxRecreations = 0
INVARIANTS
  TypeOK
  NothingRunsTwice
PROPERTIES
  ImplementsLog
  EventuallyCarriedOut
\* The gateway may have nothing left to queue and every fault may have happened.
CHECK_DEADLOCK FALSE
