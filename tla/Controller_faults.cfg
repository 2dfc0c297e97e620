SPECIFICATION Spec
CONSTANTS
  Jobs = {j1}
  Clients = {c1}
  Results = {r1, r2}
  NoResult = NoResult
  NoJob = NoJob
  Workers = 2
  Faults <- AllFaults
SYMMETRY Symmetry
INVARIANTS
  ViewInv
  OrphanExplained
  InUseIntact
  CompletedMeansDone
  StreamEndsWithOutcome
  NoneMissed
  ViewAgrees
PROPERTIES
  CancelHonoured
  ImplementsLifecycle
CHECK_DEADLOCK FALSE
