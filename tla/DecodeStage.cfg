SPECIFICATION Spec
CONSTANTS
  TexW = 4
  Align = 2
  EncWidths = {3, 4, 6}
  ContentWidths = {2, 5}
  OutputDelay = 1
  MaxInputs = 5
INVARIANTS
  TypeOK
  ShowsAnnouncedPicture
  PublishedRegionConverted
  SettledSizeIsOwn
PROPERTY AnnouncedIsSignalled
CHECK_DEADLOCK FALSE
