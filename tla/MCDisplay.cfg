SPECIFICATION Spec
CONSTANTS
  Places <- MCPlaces
  Pages = {"a", "b"}
  Passes = 2
  None = None
  VBlankStart = 225
  LatestStart = 229
  FrameLines = 231
  SetupLines = 1
  SmallLines = 1
  LargeLines = 3
  NmiLines = 1
INVARIANTS TypeOK NoTornFrame Together
PROPERTIES WriteEnds PictureFollows
