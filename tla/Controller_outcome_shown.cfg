SPECIFICATION Spec
CONSTANTS
  Jobs = {j1}
  Clients = {c1}
  Results = {r1}
  NoResult = NoResult
  NoJob = NoJob
  Workers = 2
  Faults <- NoFaults
INVARIANTS
  OutcomeShown
CHECK_DEADLOCK FALSE
