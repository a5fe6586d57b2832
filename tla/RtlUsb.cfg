SPECIFICATION FairSpec
CONSTANTS
  Senders = {t}
  Task = t
  Giveback = {g1}
  Data = {d1, d2}
  Cmds = {c1}
  MaxTxUrbs = 2
  RxUrbNum = 1
  RxMaxQueued = 1
  MaxStarts = 2
  MaxErrors = 1
  NoFrame = NoFrame
INVARIANTS
  OwnedOnce
  CounterExact
  RxPoolMatches
PROPERTIES
  QueuedIsSent
  TaskReturns
