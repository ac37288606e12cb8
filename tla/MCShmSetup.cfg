SPECIFICATION SetupSpec
CONSTANTS
  t1 = t1  t2 = t2  t3 = t3
  Topic = t2
  OldSize = 16385
  OldCount = 2
  BlockSizes <- Sizes
  BlockCounts <- Counts
  MsgSizes <- Messages
  SizeofState = 48
  SizeofBlock = 280
  UIntMod <- UInt
  Topics = {t1, t2, t3}
  Files <- SomeFiles
  IndexMod = 4
  MAX_BLOCK_COUNT = 32
  MAX_SEGMENT_COUNT = 2
  MaxLoads = 2
CHECK_DEADLOCK FALSE
INVARIANTS
  LayoutsAgree
  AllLoaded
PROPERTIES
  LoadReturns
