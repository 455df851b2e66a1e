SPECIFICATION Spec
CONSTANTS
  Turns = {t1}
  NoTurn = none
  Kinds = {"commit", "delegation", "media"}
  CapabilitySets = {{"draft"}, {"draft", "delegation", "media"}}
  MaxInFlightEvents = 1
  AdmissionBatch = 2
  HealLimit = 2
  LegacyTail = 0
  MaxSequence = 2
  MaxLinks = 2
  MaxFaults = 1
  MaxDrops = 0
  MaxOvertaken = 0
  MaxProjected = 2
  MaxDeleted = 1
  MaxRecreations = 1
INVARIANT PayloadKept
PROPERTY
  JournalKept
CHECK_DEADLOCK FALSE
