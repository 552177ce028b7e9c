------------------------------ MODULE MCBuffer ------------------------------
EXTENDS Buffer

\* From before the start of a buffer to beyond its end.
TestPositions == {-1, 1, 3, 5}
=============================================================================
