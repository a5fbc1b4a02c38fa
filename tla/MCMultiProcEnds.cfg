\* One CPU, two tests in each state; a line is typed at any time.
CONSTANTS
  CpuCount = 1
  MaxThreads = 2
  MAXIMUM_SUSPEND_COUNT = 2
  CpuStates = 1
  Throttled = {1}
  ExperimentIteration = 2
  MaxInputs = 1
SPECIFICATION FairSpec
INVARIANTS SkipCostsOneState
PROPERTIES Ends
CHECK_DEADLOCK FALSE
