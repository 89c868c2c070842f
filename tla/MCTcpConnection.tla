-------------------------- MODULE MCTcpConnection --------------------------
(* Instance of TcpConnection for TLC: two programs. *)
EXTENDS TcpConnection

OnLoop == [loop_ops    |-> Ops \ {"StopRead"},
           cross_ops   |-> {},
           server_dies |-> {},
           careful     |-> TRUE,
           calls       |-> 3]

Anywhere == [loop_ops    |-> Ops,
             cross_ops   |-> Ops,
             server_dies |-> {"handle", "run"},
             careful     |-> FALSE,
             calls       |-> 2]

MCPrograms == {OnLoop, Anywhere}
=============================================================================
