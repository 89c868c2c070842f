---------------------------- MODULE MCTimerQueue ----------------------------
(* Instance of TimerQueue for TLC: a repeated timer and two others.         *)
EXTENDS TimerQueue

CONSTANTS r, s, o
MCTimers   == {r, s, o}
MCInterval == [t \in MCTimers |-> IF t = r THEN 1 ELSE 0]
=============================================================================
