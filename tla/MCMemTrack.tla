----------------------------- MODULE MCMemTrack -----------------------------
EXTENDS MemTrack, TLC

\* unlimited (in an unusual spelling) and three bytes
SomeQuotas == {-2, 3}

\* pointers and threads are interchangeable
Symmetry == Permutations(Ptrs) \cup Permutations(Threads)
=============================================================================
