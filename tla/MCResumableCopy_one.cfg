CONSTANTS
  Files = {1}
  IdxOf <- ZeroIdx
  Idx = {0}
  Blocks = 3
  MaxCrashes = 2
  MaxEdits = 1
SPECIFICATION FairSpec
INVARIANTS
  TypeOK
  CompletedIsSource
  RowIsSourcePrefix
  SeenIsOnDisk
PROPERTIES
  JobEnds
