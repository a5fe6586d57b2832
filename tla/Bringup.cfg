SPECIFICATION FairSpec
CONSTANTS
  Tries = 2
  Blocks = 2
  MaxOpen = 2
INVARIANTS
  OpenIsBooted
  ImageIntact
PROPERTY OpenEnds
CHECK_DEADLOCK FALSE
