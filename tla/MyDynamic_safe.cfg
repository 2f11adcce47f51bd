SPECIFICATION Spec
CONSTANTS
  Threads = {t1, t2}
  Files = {f1, f2}
  NoFile = NoFile
  KBUF_SIZE = 2
  MaxCount = 3
  SeekSpan = 3
  PreadPos <- InsideDevice
SYMMETRY Symmetry
INVARIANTS
  PositionInDevice
  TransferInBuffer
  BufferOutlivesUse
CHECK_DEADLOCK FALSE
