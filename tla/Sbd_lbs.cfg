SPECIFICATION FairSpec
CONSTANTS
  Clients = {c1}
  nsectors = 4
  lbs = 2
  major_param = 0
  IntSpan = 32
  CmdTypes <- FsOnly
  Data = {d1, d2}
  Blank = d1
  Unwritten = Unwritten
  NoReq = NoReq
PROPERTY
  ImplementsAtomicDisk
