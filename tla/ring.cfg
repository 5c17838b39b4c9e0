SPECIFICATION FairSpec
CONSTANTS
  N = 4
  MaxFrames = 6
INVARIANTS
  FramesInOrder
  CompletedIsWritten
  NoStrandedFrame
  LoopAgrees
PROPERTIES
  ImplementsFifo
  StopTerminates
