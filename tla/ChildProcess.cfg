CONSTANTS
  Codes = {0, 1, 143}
  KillCode = 143
  StillActive = 259
  PipeCap = 2
  MaxChunks = 3
SPECIFICATION FairSpec
INVARIANTS ReadBeforeClose CalledOnceWithStatus ResourcesOnce
PROPERTIES CallbackWhenRunning
CHECK_DEADLOCK FALSE
