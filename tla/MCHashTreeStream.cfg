SPECIFICATION TreeFairSpec
CONSTANTS
  Entries = 3
  Parts = 3
  Hashes = 8
  PollAfterError = FALSE
INVARIANTS
  TreeTypeOK
PROPERTIES
  ImplementsStream
  Terminates
CHECK_DEADLOCK FALSE
