SPECIFICATION FairSpec
CONSTANTS
  Jobs = {j1, j2}
  Clients = {c1}
  Results = {r1}
  NoResult = NoResult
  NoJob = NoJob
  Workers = 1
  Faults <- NoFaults
PROPERTIES
  JobEnds
CHECK_DEADLOCK FALSE
