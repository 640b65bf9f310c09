SPECIFICATION Spec
CONSTANTS
  c1 = c1
  c2 = c2
  s1 = s1
  s2 = s2
  v1 = v1
  None = None
  Clients <- MCClients
  Scripts <- MCScripts
  Values <- MCValues
  SecurityParameter = 1
  McEpochDuration = 5
  ScEpochDuration = 1
  MinSlotBoundary = 1
  CacheSize = 1
  BlockTimes <- MCBlockTimes
  MaxSlot = 9
  MaxRequests = 2
INVARIANTS
  TypeOK
  CachedAnswersAreFinal
  AnswersAreFinal
  InputsAreAvailable
SYMMETRY Symmetry
CHECK_DEADLOCK FALSE
