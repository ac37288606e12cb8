SPECIFICATION FairSpec
CONSTANTS
  Processors = {p1, p2}
  Admins = {main, other}
  Owner = main
  p1 = p1
  p2 = p2
  main = main
  other = other
  Routines = {1, 2}
  Ids = {"reader"}
  IdOf <- MCIdOf
  Prio <- MCPrio
  MAX_PRIO = 2
  None = None
  Bounds <- MCBounds
  QueueSize = 1
CHECK_DEADLOCK FALSE
INVARIANTS
  OneProcessorPerRoutine
  RemovedIsGone
  NewerAndNewer
PROPERTIES
  MessagesArrive
  ShutdownEnds
