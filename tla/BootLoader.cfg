CONSTANTS
  STAGE2 = 1
  STAGE2_SECTORS = 2
  MAP = 3
  STAGING = 4
  STACK = 7
  VIDEO = 9
  MEGABYTE = 11
  CHUNK = 2
  kernel_lba_start = 4
  Sizes = {1, 2, 4, 5}
  BSS = 1
SPECIFICATION Spec
INVARIANT KernelIntact
INVARIANT LoaderIntact
PROPERTY BootEnds
