SPECIFICATION FairSpec
CONSTANTS
  p1 = p1  p2 = p2  p3 = p3
  Procs = {p1, p2, p3}
  Creators = {p1, p2}
  Readers = {p2, p3}
  BlockNumOf <- TwoCreators
  MayFail = TRUE
  MaxCreates = 1
  MaxReads <- MCReads
  MaxDeaths = 1
CHECK_DEADLOCK FALSE
INVARIANTS
  BuiltOnce
  RefsCountUsers
  LastOneRemoves
PROPERTIES
  CallsReturn
