SPECIFICATION FairSpec
CONSTANTS
  f1 = f1
  f2 = f2
  f3 = f3
  f4 = f4
  v1 = v1
  v2 = v2
  v3 = v3
  a = a
  b = b
  Missing = Missing
  Partial = Partial
  NoVersion = NoVersion
  Files <- MCFiles
  Versions <- MCVersions
  Contents <- MCContents
  Content <- MCContent
  Unhashed <- MCUnhashed
  Parallel = 2
  MaxCrashes = 2
INVARIANTS
  TypeOK
  InstalledAsDescribed
  StaleOnlyIfReverted
PROPERTIES
  OnlyChangedWritten
  Installs
CHECK_DEADLOCK FALSE
