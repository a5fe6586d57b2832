SPECIFICATION Spec
CONSTANTS
  Sta = {s1, s2, s3}
  Readers = {rx, tx}
  FwIds = {1, 5, 40}
  BSS_MACID = 5
  MAX_STA = 32
  None = None
SYMMETRY Symmetry
INVARIANTS
  UniqueMacId
  NoUseAfterFree
CHECK_DEADLOCK FALSE
