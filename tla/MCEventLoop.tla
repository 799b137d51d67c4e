---------------------------- MODULE MCEventLoop ----------------------------
(* EventLoop on small instances.                                           *)
EXTENDS EventLoop, TLC

\* the callers are interchangeable
Symmetry == Permutations(Callers)
=============================================================================
