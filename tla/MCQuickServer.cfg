\* Three clients for a table of two, and a meter for each slot.
CONSTANTS
  MaxConn = 3
  MAX_HOSTS = 2
  MeterCount = 2
  Slot = {0, 1}
SPECIFICATION FairSpec
INVARIANTS SoundWhenOrderly
PROPERTIES ShutsDown
CHECK_DEADLOCK FALSE
