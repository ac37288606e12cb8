SPECIFICATION FairSpec
CONSTANTS
  t1 = t1  t2 = t2  t3 = t3
  p1 = p1  p2 = p2  p3 = p3
  Threads = {t1, t2, t3}
  Procs = {p1, p2}
  ProcOf <- ProcOfShared
  NoPid = NoPid
  NoThread = NoThread
  BlockNum = 2
  SetSize = 2
  MAX_TRY_LOCK_TIMES = 2
  SeqMod = 3
  WeakCas = FALSE
  MaxCalls = 1
  MaxDeaths = 0
CHECK_DEADLOCK FALSE
INVARIANTS
  NothingLeaks
PROPERTIES
  ImplementsRWLocks
  EveryCallReturns
