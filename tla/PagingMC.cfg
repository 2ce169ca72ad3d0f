\* 4 allocatable frames, 2 directories and the kernel's, 3 user pages.
CONSTANTS
  PAGE_FRAME_MAX_COUNT = 5
  PAGING_DIRECTORY_TABLE_MAX_COUNT = 2
  PAGE_FRAME_SIZE = 4194304
  UserPages = 3
SPECIFICATION PagingSpec
INVARIANTS
  PagingTypeOK
  FramesCounted
  FramesOwnedOnce
  DirectoriesPrepared
  LoopsAgree
