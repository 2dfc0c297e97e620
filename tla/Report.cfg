SPECIFICATION ReportSpec
CONSTANTS
  Pids = {1, 2, 3}
  MaxRegistrations = 3
  Files <- MCFiles
INVARIANTS TreeHoldsAll TypeIsRight
CHECK_DEADLOCK FALSE
