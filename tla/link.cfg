SPECIFICATION Spec
CONSTANTS
  MaxPayload = 2
  TotalMod = 8
  IdMod = 7
  LastId = 6
  MaxPending = 2
  IdrPeriod = 2
  OutputDelay = 1
  Sizes = {1, 4}
  NetCap = 3
  Overtake = 1
  FaultKinds = {"lose", "dup", "sendto"}
  MaxFaults = 2
INVARIANTS
  TypeOK
PROPERTIES
  DamageIsLocal
  InOrderWholeFrames
CHECK_DEADLOCK FALSE
