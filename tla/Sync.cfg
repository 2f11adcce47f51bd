SPECIFICATION SyncSpec
CONSTANTS
  Openers = {o1, o2, o3}
  MaxOpens = 4
  NCpus = 3
INVARIANTS
  UnitsAccounted
  SleeperBlocksAll
PROPERTIES
  OpenAdmitsModule2
  WakingFreesAll
\* A thread that sleeps with the lock stops the example for good.
CHECK_DEADLOCK FALSE
