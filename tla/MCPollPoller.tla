---------------------------- MODULE MCPollPoller ----------------------------
(* Instance of PollPoller for TLC.  Channel objects are interchangeable.    *)
EXTENDS PollPoller, TLC

MCFds == 0..2
Symmetry == Permutations(Channels)
=============================================================================
