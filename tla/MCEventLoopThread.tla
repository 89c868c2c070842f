------------------------- MODULE MCEventLoopThread -------------------------
(* Instance of EventLoopThread for TLC. *)
EXTENDS EventLoopThread
=============================================================================
