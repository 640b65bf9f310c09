SPECIFICATION Spec
CONSTANTS
  n1 = n1
  n2 = n2
  Nodes <- MCNodes
  SecurityParameter = 1
  StabilityMargin = 1
  MinSlotBoundary = 2
  CacheSize = 1
  InitialTip = 0
  MaxTip = 5
  MaxTime = 6
INVARIANTS
  ProposalsAreStable
SYMMETRY Symmetry
CHECK_DEADLOCK FALSE
