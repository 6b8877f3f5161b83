SPECIFICATION Spec
CONSTANTS
  MaxPayload = 2
  TotalMod = 8
  IdMod = 7
  LastId = 4
  MaxPending = 2
  IdrPeriod = 2
  OutputDelay = 1
  Sizes = {3, 4}
  NetCap = 2
  Overtake = 0
  FaultKinds = {"sender"}
  MaxFaults = 1
INVARIANTS
  NoMixedFrame
CHECK_DEADLOCK FALSE
