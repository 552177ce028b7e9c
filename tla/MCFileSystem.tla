---------------------------- MODULE MCFileSystem ----------------------------
EXTENDS FileSystem, TLC
CONSTANTS d, f

\* A directory d with an entry f, and room for f at the top.
TestPaths == {<<d>>, <<f>>, <<d, f>>}
TestFds == {3, 4, 5}
ThreadSymmetry == Permutations(Threads)
=============================================================================
