SPECIFICATION FairSpec
CONSTANTS
  P = 4
  MaxPeriods = 6
INVARIANTS
  CopyIsSafe
  PositionCounts
  AudioKeepsMaster
PROPERTIES AudioTerminates
