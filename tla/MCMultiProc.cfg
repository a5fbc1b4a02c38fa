\* Two CPUs, one test in each state; a line is typed at any time.
CONSTANTS
  CpuCount = 2
  MaxThreads = 3
  MAXIMUM_SUSPEND_COUNT = 2
  CpuStates = 1
  Throttled = {1}
  ExperimentIteration = 1
  MaxInputs = 1
SPECIFICATION Spec
INVARIANTS OneAtATime QuitSoon
CHECK_DEADLOCK FALSE
