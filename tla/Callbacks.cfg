SPECIFICATION CallbackSpec
CONSTANTS
  Cpus = {c1, c2}
  NoCpu = NoCpu
  BacklogMax = 2
  MaxPackets = 4
  Wrap = 16
  Delay = 3
  MaxLate = 2
  Writers = {w1, w2}
  MaxWrites = 3
  Callers = {p1, p2, p3}
INVARIANTS
  CallbackTypeOK
  PacketsAccounted
  UnloadIsSafe
  NeverEarly
  RingsForEveryWrite
  HookIsTransparent
PROPERTIES
  ImplementsChannel
  FiresAgain
\* After an oops, or when a timer is broken, an example stops for good.
CHECK_DEADLOCK FALSE
