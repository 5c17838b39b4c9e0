SPECIFICATION FairSpec
CHECK_DEADLOCK FALSE
CONSTANTS
  Pairs <- MCPairs
  Monitors <- MCMonitors
  LinkPolls = 2
  Changes = 4
PROPERTY ClockIsNoticed
