SPECIFICATION Spec
CONSTANTS
  Len = 4
  FillMax = 3
  WriteMax = 3
  BufMax = 3
  DiskMayFail = FALSE
INVARIANTS
  CachedPrefixIsReadable
CHECK_DEADLOCK FALSE
