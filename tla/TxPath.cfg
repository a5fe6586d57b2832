SPECIFICATION Spec
CONSTANTS
  Queues = {q1, q2}
  GroupIdx = {group0, group1}
  Ciphers = {"wep", "tkip", "ccmp"}
  Byte = 2
  WeakFrom = 1
  KeyLen = 1
  WepStarts = {0, 5, 7}
  MaxKey = 2
  MaxFrames = 2
SYMMETRY Symmetry
INVARIANTS
  NoPlaintext
  PnFresh
  DecodesToPn
CHECK_DEADLOCK FALSE
