SPECIFICATION UFairSpec
CONSTANTS
  MaxChunks = 7
  Window = 2
  UploadFaults <- UploadFaultKinds
INVARIANTS InOrder AckMeansWhole
PROPERTIES UploadEnds
CHECK_DEADLOCK FALSE
