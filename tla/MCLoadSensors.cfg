\* Two datapoints after the first, with a print.  Two CPUs, two changes of their
\* files in three update periods.  Two messages, and any edit of the file of ids
\* between and before them.
CONSTANTS
  Pid = {p1, p2}
  m_update_period = 2
  send_trickle_interval = 5
  Bits = 3
  MaxReal = 7
  MaxBirths = 1
  MaxLogins = 2
  ClockSteps <- LoadClockSteps
  m_ncpus = 2
  Table <- MCTables
  MaxTime = 3
  MaxChanges = 2
  Sensor = {s1, s2}
  Id = {0, 1}
  MaxEntries = 2
  MaxLines = 2
  MaxMessages = 2
SYMMETRY LoadSymmetry
SPECIFICATION AllSpec
INVARIANTS
  LoadIsUse
  GapsBounded
  TimeOfOwnState
  OwnId
CHECK_DEADLOCK FALSE
