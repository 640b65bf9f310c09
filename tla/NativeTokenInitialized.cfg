SPECIFICATION Spec
CONSTANTS
  n1 = n1
  n2 = n2
  s1 = s1
  s2 = s2
  None = None
  Nodes <- MCNodes
  Scripts = {s1}
  GenesisScripts = s1
  MayChangeScripts = FALSE
  OtherAmounts = {0}
  SecurityParameter = 1
  CacheSize = 2
  InitialTip = 2
  MaxTip = 3
  MaxBlocks = 3
  MaxRestarts = 0
INVARIANTS
  QueriedOnce
SYMMETRY Symmetry
CHECK_DEADLOCK FALSE
