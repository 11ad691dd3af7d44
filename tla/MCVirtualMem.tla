---------------------------- MODULE MCVirtualMem ----------------------------
EXTENDS VirtualMem, TLC

\* pointers and threads are interchangeable
Symmetry == Permutations(Ptrs) \cup Permutations(Threads)
=============================================================================
