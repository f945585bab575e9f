CONSTANTS
  Size = 5
  Bytes = {0, 1, 200}
  Values = {200, 257}
  Instants <- MCInstants
  MaxTicks = 2
SPECIFICATION MCSpec
INVARIANT CopiesRight
INVARIANT ComparesRight
INVARIANT QuietIsRight
INVARIANT NeverBehind
CHECK_DEADLOCK FALSE
