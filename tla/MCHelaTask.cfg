SPECIFICATION FairSpec
CONSTANTS
  Pcs = {0, 1, 2}
  HasData = {0, 2}
  Parts = 2
  Dests = 2
  Arks = {a1, a2}
  InitialBackoff = 1
  MaxBackoff = 1
  StepBackoff = 1
  kPerStepBackoff = 1
  HugePendings = 0
  Faults = 2
  ClusterChanges = 1
  Dynamic = TRUE
  LcPcs = 3
  Over40G = FALSE
  ConfConcurrence = 1
CHECK_DEADLOCK FALSE
INVARIANTS
  SuccessIsCopied
  RefsCountReaders
  VerdictIsRight
  NothingLeftToPublish
PROPERTIES
  BatchEnds
