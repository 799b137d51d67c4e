----------------------- MODULE MCEventLoopThreadPool -----------------------
(* EventLoopThreadPool on small instances.                                 *)
EXTENDS EventLoopThreadPool
=============================================================================
