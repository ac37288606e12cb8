SPECIFICATION FairSpec
CONSTANTS
  Processors = {p1, p2}
  Admins = {main}
  Owner = main
  Routines = {1, 2}
  Ids = {1, 2}
  IdOf <- MCIdOf
  Prio <- MCPrio
  MAX_PRIO = 1
  None = None
  Bounds <- MCBounds
PROPERTY TasksRun
CHECK_DEADLOCK FALSE
