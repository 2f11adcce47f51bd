SPECIFICATION Spec
CONSTANTS
  Threads = {t1, t2}
  Minors = {0, 1, 2}
  x = x
  Ids = {x}
  Texts <- MCTexts
  KBUF_SIZE = 2
  Nul = Nul
SYMMETRY Symmetry
INVARIANTS
  WritesConverted
  CaseSettles
  
