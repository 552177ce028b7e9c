CONSTANTS
  Undef = Undef
  Bytes = {0, 107, 255}
  MaxSize = 24
  SizeMod = 64
  MaxLen = 4
  Positions <- TestPositions
  MaxBuffers = 3
  MaxOps = 2
SPECIFICATION BufferSpec
INVARIANTS RoundTrip
PROPERTIES Isolation
CHECK_DEADLOCK FALSE
