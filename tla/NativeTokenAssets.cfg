SPECIFICATION Spec
CONSTANTS
  n1 = n1
  n2 = n2
  s1 = s1
  s2 = s2
  None = None
  Nodes <- MCNodes
  Scripts = {s1}
  GenesisScripts = s1
  MayChangeScripts = FALSE
  OtherAmounts = {0, 1}
  SecurityParameter = 1
  CacheSize = 2
  InitialTip = 2
  MaxTip = 5
  MaxBlocks = 5
  MaxRestarts = 0
INVARIANTS
  TransfersAreOfTheRange
SYMMETRY Symmetry
CHECK_DEADLOCK FALSE
