SPECIFICATION HttpFairSpec
CONSTANTS
  FileLength = 5
  Totals <- MCTotals
  ChunkMax = 2
  BufMax = 3
  Extra = 1
INVARIANTS
  HttpTypeOK
PROPERTIES
  ImplementsReader
  Completes
CHECK_DEADLOCK FALSE
