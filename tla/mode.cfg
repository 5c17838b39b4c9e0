SPECIFICATION Spec
CONSTANTS
  Experimental = FALSE
  Links <- MCLinks
  Geometries <- MCGeometries
  Periods <- MCPeriods
  Requests <- MCRequests
  Intervals <- MCIntervals
  Sizes <- MCSizes
INVARIANTS TimerBounded LargeFrameNeedsLink DmaInputSupported BuffersFit IntervalsHonoured
