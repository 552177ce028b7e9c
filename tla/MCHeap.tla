------------------------------- MODULE MCHeap -------------------------------
EXTENDS Heap, TLC
CONSTANTS a, w1, w2

\* The two weak holders are interchangeable.
Symmetry == Permutations({w1, w2})
=============================================================================
