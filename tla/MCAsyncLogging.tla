--------------------------- MODULE MCAsyncLogging ---------------------------
(* AsyncLogging on small instances.                                        *)
EXTENDS AsyncLogging
=============================================================================
