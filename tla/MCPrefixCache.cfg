SPECIFICATION FairSpec
CONSTANTS
  Len = 4
  FillMax = 3
  WriteMax = 2
  BufMax = 3
  DiskMayFail = TRUE
INVARIANTS
  TypeOK
  CacheIsPrefix
  NoByteLost
PROPERTIES
  ImplementsReader
  ReadReturns
CHECK_DEADLOCK FALSE
