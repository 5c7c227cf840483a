SPECIFICATION FairListSpec
CONSTANTS
  PageSize = 5
  EntrySize = 2
  Headers <- MCHeaders
  RegionOffsets <- MCRegionOffsets
  RegionLengths <- MCRegionLengths
  FirstIndexes <- MCFirstIndexes
  MaxRegions = 2
  SegmentLists <- MCSegmentLists
  NtfsNames <- MCNtfsNames
  NtfsOffsets <- MCNtfsOffsets
  NtfsLengths <- MCNtfsLengths
INVARIANTS
  TypeOK
  HashesAreOfOwnPages
  FilesHaveOwnHashes
  FilesApart
PROPERTIES
  Lists
CHECK_DEADLOCK FALSE
