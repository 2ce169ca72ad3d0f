CONSTANTS
  PAGE_FRAME_MAX_COUNT = 9
  PAGING_DIRECTORY_TABLE_MAX_COUNT = 5
  PAGE_FRAME_SIZE = 4194304
  UserPages = 9
  PROCESS_COUNT_MAX = 4
  PROCESS_PAGE_FRAME_COUNT_MAX = 8
  ShellRequest <- MCShellRequest
  Requests <- MCRequests
  MaxPid = 6
SPECIFICATION Spec
INVARIANT CreatedWithAllPages
