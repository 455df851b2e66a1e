SPECIFICATION Spec
CONSTANTS
  MaxMessages = 3
  MediaMessages = {}
  MaxSessions = 1
  MaxLosses = 1
  MaxAbsences = 1
  MaxRestarts = 0
  MaxActs = 0
  MaxFrames = 1
  MaxEvents = 4
INVARIANTS
  SteersAreHeard
CHECK_DEADLOCK FALSE
