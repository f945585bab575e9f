CONSTANTS
  TotalPages = 12
  Usable = {0, 1, 3, 4, 5, 6, 7, 8, 9, 10, 11}
  Reserved = {0, 1}
  HEAP_PAGES = 5
  PAGE_UNITS = 2
  PT_SPAN = 2
  TEST_PAGES = 2
  VMTEST_PAGE = 1
  USER_CODE = 10
  USER_STACK = 11
  MaxSize = 5
  Commands = {"vmtest", "memtest", "usertest"}
SPECIFICATION Spec
INVARIANT TypeOK
INVARIANT CountMatches
INVARIANT NoFrameShared
INVARIANT NoSilentLeak
INVARIANT BlocksUsable
PROPERTY OnlyVmtestUnmaps
