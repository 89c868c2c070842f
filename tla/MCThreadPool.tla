---------------------------- MODULE MCThreadPool ----------------------------
(***************************************************************************)
(* Up to two workers and two producers; the queue is unbounded or has one   *)
(* slot.  Task a gives b to the pool while it runs, and so may block a      *)
(* worker in RunTask; the producers give a, c and d.                        *)
(***************************************************************************)
EXTENDS ThreadPool
CONSTANTS a, b, c, d, w1, w2

MCTasks == {a, b, c, d}
MCParent == [t \in MCTasks |-> IF t = b THEN a ELSE NoTask]
MCStarts == {{}, {w1}, {w1, w2}}
=============================================================================
