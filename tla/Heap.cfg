CONSTANTS
  a = a  w1 = w1  w2 = w2
  Objects = {a, w1, w2}
  Holders = {w1, w2}
  MaxJobs = 1
SPECIFICATION Spec
SYMMETRY Symmetry
INVARIANTS NoUseAfterFree CountsExact CollectsExactlyGarbage
PROPERTIES EntriesOutliveKeys
