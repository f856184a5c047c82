SPECIFICATION Spec
CONSTANTS
  n1 = n1
  n2 = n2
  Names = {n1, n2}
  NameVal <- MCNameVal
  NameLen <- MCNameLen
  RootLen = 2
  FieldsLen = 1
  ChunkLen = 2
  Sizes = {1}
  RootInode = 5
  Junk = {0, 12}
  Stray = {0}
  Wrap = 4
  MaxRecords = 5
  MaxInode = 8
  MaxChunk = 14
INVARIANTS OneRecordPerLine

