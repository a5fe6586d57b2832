SPECIFICATION FairSpec
CONSTANTS
  MaxDone = 2
  MaxList = 2
INVARIANTS
  ScanPaired
  NoLostScan
  NoStrandedBss
PROPERTIES
  ScanEnds
  WaitEnds
CHECK_DEADLOCK FALSE
