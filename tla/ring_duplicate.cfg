SPECIFICATION Spec
CONSTANTS
  N = 4
  MaxFrames = 6
INVARIANT NeverCountedTwice
