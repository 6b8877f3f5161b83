SPECIFICATION Spec
CONSTANTS
  MaxPayload = 2
  TotalMod = 8
  IdMod = 16
  LastId = 10
  MaxPending = 2
  IdrPeriod = 4
  OutputDelay = 3
  Sizes = {2}
  NetCap = 2
  Overtake = 0
  FaultKinds = {}
  MaxFaults = 0
PROPERTIES
  ResyncsOnIdr
CHECK_DEADLOCK FALSE
