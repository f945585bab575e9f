CONSTANTS
  MAX_TASKS = 3
  SLICE = 3
  MaxSleep = 5
  Calls = {"sleep", "exit"}
SPECIFICATION Spec
INVARIANT TypeOK
INVARIANT CurrentOwnsCpu
INVARIANT ReadyIsResumable
INVARIANT OnlySleepersLost
INVARIANT BoundedWait
PROPERTY OffCpuUndisturbed
PROPERTY ReadyRuns
PROPERTY SleeperWakes
