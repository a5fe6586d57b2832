SPECIFICATION FairSpec
CONSTANTS
  Mod = 12
  Size = 3
  Ssn = 8
  MaxFrame = 14
  None = None
INVARIANTS
  WindowHolds
  NoFrameForgotten
PROPERTIES
  InOrder
  BufferedIsReleased
CHECK_DEADLOCK FALSE
