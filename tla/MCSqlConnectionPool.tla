------------------------ MODULE MCSqlConnectionPool ------------------------
(* SqlConnectionPool on small instances.                                   *)
EXTENDS SqlConnectionPool
=============================================================================
