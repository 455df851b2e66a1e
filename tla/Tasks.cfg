SPECIFICATION FairSpec
CONSTANTS
  MaxRuns = 2
  MaxWaits = 2
  DeviceWaits = {1}
  Budget = 1
  MaxAbsences = 1
  MaxLosses = 1
  MaxRestarts = 1
  MaxCommands = 3
  MaxRequests = 2
  MaxEvents = 3
INVARIANTS
  TypeOK
  OneRunAtATime
  ExecutionIsCarried
PROPERTIES
  CancelLands
CHECK_DEADLOCK FALSE
