SPECIFICATION LogSpec
CONSTANTS
  Values <- MCValues
  Indices <- MCIndices
  Infos <- MCInfos
  Calls <- MCCalls
  MaxDocs = 3
INVARIANTS CallsAreTheLog PanicsAtFirstBreach
CHECK_DEADLOCK FALSE
