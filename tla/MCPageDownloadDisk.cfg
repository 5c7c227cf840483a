SPECIFICATION Spec
CONSTANTS
  PageUnits = 2
  Length = 5
  ChunkMax = 3
  Modes <- MCModes
  DiskMayFail = TRUE
INVARIANTS
  DoneMeansWritten
CHECK_DEADLOCK FALSE
