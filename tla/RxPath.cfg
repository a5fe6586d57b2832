SPECIFICATION Spec
CONSTANTS
  Ciphers = {"open", "wep", "tkip", "ccmp"}
  Mod = 2
  FirstIv = 1
  MaxFrag = 3
  MaxMsdu = 3
  MaxKey = 2
  NoFrame = NoFrame
INVARIANTS
  AtMostOnce
  NothingDropped
