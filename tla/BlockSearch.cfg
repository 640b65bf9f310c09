SPECIFICATION FairSpec
CONSTANTS
  None = None
  SlotsPerEpoch = 2
  MaxSlot = 4
  MaxReorgs = 1
INVARIANTS
  TypeOK
  FoundIsRight
  NoneIsRight
  SettledEpochsAreFound
  
PROPERTIES
  StepsShrinkTheRange
  SearchesEnd
CHECK_DEADLOCK FALSE
