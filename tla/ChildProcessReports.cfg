CONSTANTS
  Codes = {0, 1, 143}
  KillCode = 143
  StillActive = 259
  PipeCap = 2
  MaxChunks = 1
SPECIFICATION FairSpec
PROPERTIES ExecReports
CHECK_DEADLOCK FALSE
