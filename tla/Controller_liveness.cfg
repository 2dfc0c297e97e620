SPECIFICATION FairSpec
CONSTANTS
  Jobs = {j1}
  Clients = {c1}
  Results = {r1}
  NoResult = NoResult
  NoJob = NoJob
  Workers = 1
  Faults <- NoDrop
PROPERTIES
  JobEnds
  OutcomeReachesPage
CHECK_DEADLOCK FALSE
