---------------------------- MODULE FunctorQueue ----------------------------
(***************************************************************************)
(* What EventLoop promises the callers of QueueInLoop: one FIFO of         *)
(* functors.  A functor enters at the tail when it is submitted and leaves *)
(* from the head when the loop thread runs it; it is never lost,           *)
(* duplicated or overtaken.  A functor handed to RunInLoop on the loop     *)
(* thread bypasses the queue and runs at once.                             *)
(***************************************************************************)
EXTENDS Sequences

CONSTANT Functors

VARIABLES queue,  \* submitted and not yet started
          done    \* started, queued or direct

qvars == <<queue, done>>

QInit == queue = <<>> /\ done = {}

\* f has not been handed over yet.
New(f) == f \notin done /\ \A i \in DOMAIN queue : queue[i] # f

Submit(f) ==
  /\ New(f)
  /\ queue' = Append(queue, f)
  /\ UNCHANGED done

Execute ==
  /\ queue # <<>>
  /\ done' = done \cup {Head(queue)}
  /\ queue' = Tail(queue)

RunDirect(f) ==
  /\ New(f)
  /\ done' = done \cup {f}
  /\ UNCHANGED queue

QNext == (\E f \in Functors : Submit(f) \/ RunDirect(f)) \/ Execute

QSpec == QInit /\ [][QNext]_qvars
=============================================================================
