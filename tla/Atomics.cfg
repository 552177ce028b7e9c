CONSTANTS
  Main = main
  Workers = {w1, w2}
  Cells = {c1, c2}
  Modulus = 2
  MaxWaits = 3
  MaxOps = 3
SPECIFICATION Spec
INVARIANTS WaitersOnStack NoLostWakeup
PROPERTIES OldestFirst NotifiedReturns
CHECK_DEADLOCK FALSE
