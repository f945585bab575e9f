CONSTANTS
  MAX_TASKS = 3
  SLICE = 2
  MaxSleep = 2
  Calls = {"sleep"}
SPECIFICATION Spec
INVARIANT ContextKept
