SPECIFICATION FairSpec
CONSTANTS
  MaxPayload = 2
  TotalMod = 8
  IdMod = 9
  LastId = 8
  MaxPending = 2
  IdrPeriod = 2
  OutputDelay = 1
  Sizes = {1, 4}
  NetCap = 2
  Overtake = 0
  FaultKinds = {"lose", "sendto", "sender", "receiver"}
  MaxFaults = 2
PROPERTIES
  HoldUpIsBounded
CHECK_DEADLOCK FALSE
