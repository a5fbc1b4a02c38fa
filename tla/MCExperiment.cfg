\* One slot fewer than runs; a battery that discharges or cannot be read.  Three
\* viewers for a table of two, and two hosts with an update each.  LINPACK: orders that
\* leave every rest of the unrolled loops (4 and 5), numbers modulo 7.
CONSTANTS
  MAX_EXPERIMENTS = 2
  MaxRuns = 3
  MaxEnergy = 3
  MaxSamples = 4
  Load <- MCLoad
  Capacity = {0, 3, 5}
  Host = {h1, h2}
  MAX_VIEWERS = 2
  MaxViewers = 3
  MaxUpdates = 1
  P = 7
  MaxOrder = 12
  AnyOrder = 2
SPECIFICATION AllSpec
INVARIANTS EnergyCountedOnce KflopsOfOwnRun BatteryIsDifference SoundUnlessOverlap Solves
CHECK_DEADLOCK FALSE
