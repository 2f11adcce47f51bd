SPECIFICATION Spec
CONSTANTS
  w1 = w1
  w2 = w2
  Writers = {w1, w2}
  minor_no <- TwoWriters
  Texts <- MCTexts
\* A module without its device and its class can neither be used nor unloaded.
CHECK_DEADLOCK FALSE
INVARIANTS
  TypeOK
  PlaysMorse
  OwnPitch
  LeavesNothing
