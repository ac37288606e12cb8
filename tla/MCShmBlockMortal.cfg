SPECIFICATION FairMortalSpec
CONSTANTS
  t1 = t1  t2 = t2  t3 = t3
  p1 = p1  p2 = p2  p3 = p3
  Threads = {t1, t2, t3}
  Procs = {p1, p2, p3}
  ProcOf <- ProcOfApart
  NoPid = NoPid
  NoThread = NoThread
  BlockNum = 1
  SetSize = 3
  MAX_TRY_LOCK_TIMES = 1
  SeqMod = 2
  WeakCas = TRUE
  MaxCalls = 1
  MaxDeaths = 1
CHECK_DEADLOCK FALSE
INVARIANT UsersAreRegistered
PROPERTIES
  LivingStayRegistered
  SurvivorsRecover
