SPECIFICATION SFairSpec
CONSTANTS
  MaxChunks = 2
  Window = 1
  UploadFaults <- UploadFaultKinds
  AgentFaults <- SessionFaults
  ExitCodes <- Codes
  MaxCalls = 1
  MaxCommands = 0
INVARIANTS SInv ResultOfSample AckedIsFound EmptyResultExplained
PROPERTIES SessionEnds
CHECK_DEADLOCK FALSE
