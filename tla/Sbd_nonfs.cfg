SPECIFICATION FairSpec
CONSTANTS
  Clients = {c1, c2}
  nsectors = 2
  lbs = 1
  major_param = 0
  IntSpan = 16
  CmdTypes <- AnyType
  Data = {d1}
  Blank = d1
  Unwritten = Unwritten
  NoReq = NoReq
PROPERTY
  EveryRequestCompletes
