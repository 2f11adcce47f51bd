SPECIFICATION FairSpec
CONSTANTS
  Cpus = {p1, p2}
  NoCpu = NoCpu
  MaxIrq = 3
INVARIANTS
  NoLostInterrupt
  ReportIsFinal
  ExitIsClean
PROPERTIES
  BottomHalvesFollow
  ExitEnds
CHECK_DEADLOCK FALSE
