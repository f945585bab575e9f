CONSTANTS
  SHELL = shell
  KernelTasks = {worker_a, worker_b}
  Calls = {"exit", "write", "yield"}
  MaxLength = 2
SPECIFICATION Spec
INVARIANT UserEnvironment
INVARIANT FramesIntact
PROPERTY ReturnsToCaller
PROPERTY CallReturns
