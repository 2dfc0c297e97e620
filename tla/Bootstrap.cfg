SPECIFICATION BFairSpec
CONSTANTS
  Callers = {c1, c2, c3}
  None = None
  LinkFaults <- LinkFaultKinds
  MaxBoots = 1
INVARIANTS BInv OwnAgent ServedTogether SwitchSticks
PROPERTIES CertsFrozen ExchangeEnds
CHECK_DEADLOCK FALSE
