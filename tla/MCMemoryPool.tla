---------------------------- MODULE MCMemoryPool ----------------------------
(* MemoryPool on small instances.                                          *)
EXTENDS MemoryPool, TLC

\* the threads are interchangeable
Symmetry == Permutations(Threads)
=============================================================================
