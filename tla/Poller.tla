------------------------------- MODULE Poller -------------------------------
(***************************************************************************)
(* What a Poller (net/poller.h) promises the EventLoop: the kernel watches *)
(* for each registered channel the events the channel last asked for, and  *)
(* Poll() reports only channels that asked for some.                       *)
(***************************************************************************)
CONSTANTS Channels, Events

VARIABLES wanted,   \* per channel: the events asked for last, or Unregistered
          watch,    \* per channel: what the kernel watches, or Unregistered
          active    \* the channels the last Poll() reported

pvars == <<wanted, watch, active>>

Unregistered == {"unregistered"}

PInit ==
  /\ wanted = [c \in Channels |-> Unregistered]
  /\ watch = [c \in Channels |-> Unregistered]
  /\ active = {}

PUpdate(c, ev) ==
  /\ wanted' = [wanted EXCEPT ![c] = ev]
  /\ watch' = [watch EXCEPT ![c] = ev]
  /\ UNCHANGED active

\* A channel is removed when it asks for nothing.
PRemove(c) ==
  /\ wanted[c] = {}
  /\ wanted' = [wanted EXCEPT ![c] = Unregistered]
  /\ watch' = [watch EXCEPT ![c] = Unregistered]
  /\ UNCHANGED active

PPoll ==
  /\ active' \in SUBSET {c \in Channels : watch[c] \notin {{}, Unregistered}}
  /\ UNCHANGED <<wanted, watch>>

PNext ==
  \/ \E c \in Channels : PRemove(c) \/ \E ev \in SUBSET Events : PUpdate(c, ev)
  \/ PPoll

PSpec == PInit /\ [][PNext]_pvars
=============================================================================
