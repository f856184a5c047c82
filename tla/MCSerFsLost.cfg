SPECIFICATION Uninterrupted
CONSTANTS
  n1 = n1
  n2 = n2
  Names = {n1}
  NameVal <- MCNameVal
  NameLen <- MCNameLen
  RootLen = 2
  FieldsLen = 1
  ChunkLen = 2
  Sizes = {1}
  RootInode = 5
  Junk = {0}
  Stray = {0}
  Wrap = 256
  MaxRecords = 5
  MaxInode = 7
  MaxChunk = 13

PROPERTIES ChangeIsSaved
