SPECIFICATION FairSpec
CONSTANTS
  Turns = {t1}
  NoTurn = none
  Kinds = {"draft", "commit"}
  CapabilitySets = {{"draft", "media"}}
  MaxInFlightEvents = 2
  AdmissionBatch = 2
  HealLimit = 2
  LegacyTail = 1
  MaxSequence = 3
  MaxLinks = 2
  MaxFaults = 1
  MaxDrops = 1
  MaxOvertaken = 1
  MaxProjected = 0
  MaxDeleted = 0
  MaxRecreations = 0
INVARIANTS
  TypeOK
  OneMeaningPerSequence
  SettledIsDurable
  NeverRefused
  SealsAgree
PROPERTIES
  ImplementsLog
  EventuallyDurable
\* The bot may stop issuing events and every fault may have happened.
CHECK_DEADLOCK FALSE
