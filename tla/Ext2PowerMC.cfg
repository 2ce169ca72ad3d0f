CONSTANTS
  INODES_PER_GROUP = 4
  StoredInodes = 4
  StoredPointers = 0
  Blocks = {9, 10, 11, 12, 13}
  DIRECT = 2
  PTRS = 1
  BLOCK_SIZE = 45
  Names = {"a", "b"}
  NameLen <- MCNameLen
  ShellName = "shell"
  ShellSize = 2
  BufferSizes = {}
  FIND_DEPTH = 1
  FIND_ROWS = 18
  HIT_ROWS = 22
  COLUMNS = 6
  OutputRows = {17, 18}
  MaxCuts = 2
SPECIFICATION PowerSpec
INVARIANTS
  WritesMakeTheCall
  NamesSurvivePower
  LossBounded
  RemovalCanBeRepeated
PROPERTY
  ImplementsFileTree
\* Without a shell in the image the machine stops at the boot.
CHECK_DEADLOCK FALSE
