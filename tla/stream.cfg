SPECIFICATION FairSpec
CONSTANTS
  N = 2
  Buffers = {b1, b2}
  NoBuffer = NoBuffer
  MinQueued = 2
  LateSignal = FALSE
  Faults = TRUE
INVARIANTS
  CopyIsFresh
  FreedIsSafe
PROPERTIES ImplementsStream StopTerminates RemoveTerminates BufferComesBack
