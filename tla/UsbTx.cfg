SPECIFICATION FairSpec
CONSTANTS
  Senders = {s1}
  Giveback = {g1}
  Frames = {f1, f2, f3, f4}
  RxUrbs = {u1}
  MaxTxUrbs = 2
  NoFrame = NoFrame
INVARIANTS
  Accounting
  NoStall
  OneOwner
PROPERTIES
  ImplementsTxWindow
  TakenIsDone
  DisconnectEnds
