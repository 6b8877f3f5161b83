SPECIFICATION Spec
CONSTANTS
  Windows <- MCWindows
  Monitor <- MCMonitor
  PoolFrames = 2
  MaxChanges = 2
  MaxFrames = 3
INVARIANTS
  TypeOK
  CopyInBounds
PROPERTIES
  PublishesCopiedSize
  BorderTracksCrop
  ShutdownCompletes
CHECK_DEADLOCK FALSE
