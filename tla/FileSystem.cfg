CONSTANTS
  d = d  f = f
  Threads = {t1, t2}
  Paths <- TestPaths
  Inodes = {i1, i2, i3}
  Fds <- TestFds
  MaxBlocks = 2
  MaxCalls = 3
SYMMETRY ThreadSymmetry
SPECIFICATION Spec
INVARIANTS AppendsKept OneCreator DescriptorsOwned
CHECK_DEADLOCK FALSE
