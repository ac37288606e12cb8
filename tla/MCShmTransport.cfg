SPECIFICATION FairSpec
CONSTANTS
  n1 = n1
  n2 = n2
  d1 = d1
  d2 = d2
  Notifiers = {n1, n2}
  Listeners = {d1, d2}
  kBufLength = 2
  block_num = 2
  kMaxTryLockTimes = 2
  Bounds <- MCBounds
INVARIANTS
  DeliveredWhole
  InOrderOrLate
PROPERTIES
  TransmitReturns
  DispatchersCatchUp
CHECK_DEADLOCK FALSE
