SPECIFICATION FairSpec
CONSTANTS
  v1 = v1
  v2 = v2
  g1 = g1
  g2 = g2
  NUMJP = 4
  NUMKP = 2
  LastJp = 3
  EfiJp = {1, 2}
  FinalJp = {0}
  NAME_SIZE = 3
  EfiVars = {v1, v2}
  Name <- MCName
  Guids = {g1, g2}
  Guid <- MCGuid
  NoVar = NoVar
INVARIANTS
  AllOrNothing
  GoneMeansSilent
  PrintsItsOwn
PROPERTY
  LoadAndUnloadEnd
CHECK_DEADLOCK FALSE
