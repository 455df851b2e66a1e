SPECIFICATION FairSpec
CONSTANTS
  MaxMessages = 3
  MediaMessages = {2}
  MaxSessions = 2
  MaxLosses = 1
  MaxAbsences = 1
  MaxRestarts = 1
  MaxActs = 2
  MaxFrames = 1
  MaxEvents = 4
INVARIANTS
  TypeOK
  NoTurnIsDropped
  SteersCountOnce
PROPERTIES
  QueuedTurnsWait
  TurnsEnd
CHECK_DEADLOCK FALSE
