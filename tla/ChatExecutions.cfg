SPECIFICATION FairSpec
CONSTANTS
  Workspaces = {w1, w2}
  Home = home
  None = none
  MaxSends = 2
  MaxExecutions = 2
  MaxChoices = 2
  MaxVisits = 1
  MaxBreaks = 1
  MaxFrames = 1
INVARIANTS
  RunsWhereChosen
  OneExecution
PROPERTIES
  TornDown
