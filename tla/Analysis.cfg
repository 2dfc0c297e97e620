SPECIFICATION AFairSpec
CONSTANTS
  AgentFaults <- AgentFaultKinds
  ExitCodes <- Codes
  MaxCalls = 2
  MaxCommands = 2
INVARIANTS AInv ReportComplete ExitCodeTrue SampleStopped MonitorStays JoinHangsOnlyIfMissed
PROPERTIES AnalysisEnds
CHECK_DEADLOCK FALSE
