SPECIFICATION Spec
CONSTANTS
  NumBuffers = 2
  MaxFrames = 3
INVARIANTS
  NoTear
CHECK_DEADLOCK FALSE
