\* The meter: two ports; 5 s, 10 s and 60 s are 2, 2 and 3 steps of the clock.
\* The Arduino: two ports, one board and things that are not, one character lost, two
\* pluggings; a read gives up after 2 loops of the sketch (20 in the code), and a
\* search is made every 2 updates (13).  USB: three devices at two busses, a reading
\* every 4 updates (1800) and a print every 3 (90).  The line of a meter: 8 characters,
\* and room for one packet with a character before it, or two short ones.  Behaviours
\* end where the code does something undefined, an Arduino where no board is, and a
\* line with its last character.
CONSTANTS
  NumPorts = 2
  ReplyTimeout = 2
  LinuxPeriod = 2
  WindowsPeriod = 3
  MaxLag = 2
  MaxChanges = 3
  NULL = NULL
  Ports = 2
  Timeout = 2
  FindPeriod = 2
  MaxSize = 6
  MaxLost = 1
  MaxPlugs = 2
  USBDevice <- MCUSBDevices
  PrintInterval = 3
  UpdatePeriod = 4
  N = 8
  Room = 5
SPECIFICATION AllSpec
INVARIANTS
  WattsAreWatts
  RightAnswer
  NoReadingMissed
  PositionsInBuffer
  Framed
PROPERTIES
  Recovers
  FoundAgain
  Delivered
CHECK_DEADLOCK FALSE
