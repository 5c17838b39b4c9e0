SPECIFICATION Spec
CONSTANTS
  N = 2
  Buffers = {b1, b2}
  NoBuffer = NoBuffer
  MinQueued = 2
  LateSignal = TRUE
  Faults = TRUE
INVARIANT TeardownDisablesEngine
