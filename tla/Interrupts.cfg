CONSTANTS
  Devices = {0, 1, 8, 14}
  BIOS_OFFSET1 = 8
  BIOS_OFFSET2 = 112
  MaxNesting = 2
SPECIFICATION Spec
INVARIANT NothingInService
INVARIANT HandlersNeverNest
INVARIANT OnlyExpected
PROPERTY TimerServed
CHECK_DEADLOCK FALSE
