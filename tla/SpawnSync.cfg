CONSTANTS
  Platforms = {"windows", "unix"}
  Codes = {0, 5}
  StillActive = 259
  PipeCap = 2
  ReadMax = 2
  MaxBuffer = 3
  MaxInput = 2
  MaxOutput = 4
SPECIFICATION FairSpec
INVARIANTS OutputComplete StatusOnWindows
PROPERTIES ReturnsOnWindows
CHECK_DEADLOCK FALSE
