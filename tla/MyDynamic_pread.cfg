SPECIFICATION Spec
CONSTANTS
  Threads = {t1}
  Files = {f1}
  NoFile = NoFile
  KBUF_SIZE = 2
  MaxCount = 1
  SeekSpan = 0
  PreadPos <- PastTheEnd
INVARIANT
  TransferInBuffer
