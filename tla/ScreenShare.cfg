SPECIFICATION Spec
CONSTANTS
  NumBuffers = 2
  MaxFrames = 3
INVARIANTS
  TypeOK
  AllocatorIdleAtReset
  ReadsPublishedFrame
  SizedWhenDrawn
  WaitsForQueuedSignals
PROPERTIES
  EveryPublishShown
  DisplayExits
CHECK_DEADLOCK FALSE
