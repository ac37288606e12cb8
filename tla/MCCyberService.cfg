SPECIFICATION FairSpec
CONSTANTS
  c1 = c1  c2 = c2
  t1 = t1  t2 = t2
  Clients = {c1, c2}
  Threads = {t1, t2}
  NoThread = NoThread
  NoAnswer = NoAnswer
  Word = 2
  Bounds <- MCBounds
CHECK_DEADLOCK FALSE
INVARIANTS
  AnswersMatch
PROPERTIES
  RequestsAnswered
  DestroyReturns
