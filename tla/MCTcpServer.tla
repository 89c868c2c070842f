---------------------------- MODULE MCTcpServer ----------------------------
(* Instance of TcpServer for TLC; the cfg gives the bounds.                *)
EXTENDS TcpServer
=============================================================================
