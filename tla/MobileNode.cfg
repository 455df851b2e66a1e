SPECIFICATION Spec
CONSTANTS
  Requests = {r1}
  Kinds <- AllKinds
  Limit = 1
  MaxSockets = 2
  MaxAdverts = 2
  MaxBreaks = 1
  MaxLost = 2
INVARIANTS
  TypeOK
  OutcomeIsAgreed
  AskedOfTheLiving
PROPERTIES
  RecordsSettle
CHECK_DEADLOCK FALSE
