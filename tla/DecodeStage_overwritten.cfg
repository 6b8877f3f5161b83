SPECIFICATION Spec
CONSTANTS
  TexW = 4
  Align = 2
  EncWidths = {4}
  ContentWidths = {2}
  OutputDelay = 3
  MaxInputs = 6
INVARIANT ReadBeforeNextDecode
CHECK_DEADLOCK FALSE
