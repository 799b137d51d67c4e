----------------------------- MODULE MCLFUCache -----------------------------
(* LFUCache on small instances.                                            *)
EXTENDS LFUCache, TLC

\* the files and the loops are interchangeable
Symmetry == Permutations(Keys) \cup Permutations(Threads)
=============================================================================
