SPECIFICATION PFairSpec
CONSTANTS
  Jobs = {j1, j2, j3}
  NoJob = NoJob
  PageFaults = {"net"}
INVARIANTS LineIsCurrent BoxIsRight
PROPERTIES ResultIsShown
CHECK_DEADLOCK FALSE
