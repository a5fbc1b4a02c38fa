\* Two filters and two applications; P-states fast and slow; 4 stands for 2^32.
CONSTANTS
  NumProcs = 1
  PStates = 2
  Word = 4
  FailureLimit = 2
  MaxExceptions = 1
  MaxRequests = 2
  Device = {d1, d2}
  App = {a1, a2}
  NULL = NULL
SPECIFICATION Spec
INVARIANTS NeverBroken FreeIsFast
PROPERTIES GrantHolds GivenBack
CHECK_DEADLOCK FALSE
