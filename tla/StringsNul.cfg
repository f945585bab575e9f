CONSTANTS
  Size = 5
  Bytes = {0, 1, 200}
  Values = {200, 257}
SPECIFICATION Spec
INVARIANT StrncpyWithinN
CHECK_DEADLOCK FALSE
