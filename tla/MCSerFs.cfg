SPECIFICATION FairSpec
CONSTANTS
  n1 = n1
  n2 = n2
  Names = {n1, n2}
  NameVal <- MCNameVal
  NameLen <- MCNameLen
  RootLen = 2
  FieldsLen = 1
  ChunkLen = 2
  Sizes = {1}
  RootInode = 5
  Junk = {12}
  Stray = {0}
  Wrap = 4
  MaxRecords = 4
  MaxInode = 8
  MaxChunk = 13
INVARIANTS TypeOK IInv ChunksDisjoint DiskBehindTable ListingShowsTable
PROPERTIES FreshIds KeepsOwners RootIsSaved RestartFindsOlder QuietChangeIsSaved SaveEnds
