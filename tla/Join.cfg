SPECIFICATION FairSpec
CONSTANT
  IfTypes = {"station", "adhoc", "monitor"}
INVARIANTS
  ConnectedHasBss
  DisconnectHasReason
PROPERTY AcceptedJoinReported
CHECK_DEADLOCK FALSE
