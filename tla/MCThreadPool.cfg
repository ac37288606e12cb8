SPECIFICATION FairSpec
CONSTANTS
  p1 = p1  p2 = p2
  Producers = {p1, p2}
  Consumers = {c1, c2}
  Size = 2
  Calls = 5
  Uses <- SomeUses
CHECK_DEADLOCK FALSE
PROPERTIES
  ImplementsFifo
  EnqueueReturns
  SleepersServe
  SleepersJoin
