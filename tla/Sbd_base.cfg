SPECIFICATION FairSpec
CONSTANTS
  Clients = {c1, c2}
  nsectors = 2
  lbs = 1
  major_param = 240
  IntSpan = 16
  CmdTypes <- AnyType
  Data = {d1, d2}
  Blank = d1
  Unwritten = Unwritten
  NoReq = NoReq
INVARIANTS
  LeaksAtMostTheQueue
PROPERTIES
  ImplementsAtomicDisk
  FsRequestsComplete
