---------------------------- MODULE MCEventLoop ----------------------------
(* Instance of EventLoop for TLC; the cfg names its threads, functors and    *)
(* channels.                                                                 *)
EXTENDS EventLoop
=============================================================================
