SPECIFICATION Spec
CONSTANTS
  MaxPayload = 2
  TotalMod = 8
  IdMod = 6
  MaxPending = 3
  Frames <- MCFrames
INVARIANTS
  TypeOK
  BacklogBounded
  WaitsOnIncompleteHead
PROPERTIES
  InOrderWholeFrames
  GivenUpOnlyWhenBacklogged
