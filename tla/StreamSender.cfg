SPECIFICATION Spec
CONSTANTS
  NumBfrs = 4
  MaxFence = 7
INVARIANTS
  TypeOK
  AllocatorIdleAtReset
  InputBufferFree
  OutputBufferFree
  HeldBack
  IdleWhenDestroyed
  NoCircularWait
PROPERTIES
  EveryPublishNoticed
  ExitCompletes
CHECK_DEADLOCK FALSE
