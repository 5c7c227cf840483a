SPECIFICATION FairSpec
CONSTANTS
  PageUnits = 2
  Length = 5
  ChunkMax = 3
  Modes <- MCModes
  DiskMayFail = TRUE
INVARIANTS
  TypeOK
  ResumesWhereStopped
  FileIsPlainText
PROPERTIES
  Completes
CHECK_DEADLOCK FALSE
