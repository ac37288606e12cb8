SPECIFICATION FairSpec
CONSTANTS
  a = a
  Timers <- MCTimers
  WORK_WHEEL_SIZE = 4
  ASSISTANT_WHEEL_SIZE = 3
  TIMER_RESOLUTION_MS = 2
  Periods <- MCPeriods
  Delays <- MCDelays
  MaxStarts = 1
INVARIANTS
  OnTime
  WithinARound
  StoppedRunsOnceMore
PROPERTY EntriesFire
CHECK_DEADLOCK FALSE
