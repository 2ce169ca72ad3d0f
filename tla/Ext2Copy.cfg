CONSTANTS
  INODES_PER_GROUP = 4
  StoredInodes = 4
  StoredPointers = 0
  Blocks = {9, 10, 11, 12, 13, 14, 15, 16}
  DIRECT = 2
  PTRS = 2
  BLOCK_SIZE = 45
  Names = {"a", "b"}
  NameLen <- MCNameLen
  ShellName = "shell"
  ShellSize = 3
  BufferSizes = {2, 4}
  FIND_DEPTH = 1
  FIND_ROWS = 18
  HIT_ROWS = 22
  COLUMNS = 6
  OutputRows = {17, 18}
SPECIFICATION Spec
PROPERTY
  CopyIsComplete
