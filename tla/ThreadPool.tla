----------------------------- MODULE ThreadPool -----------------------------
(***************************************************************************)
(* ThreadPool (base/thread_pool.cc): a queue of tasks, bounded when         *)
(* max_queue_size_ > 0, between the threads that call RunTask and the      *)
(* workers.                                                                *)
(*                                                                         *)
(* What a thread does while it holds mutex_, up to the unlock or the wait, *)
(* is one step.  A thread that waits is moved on by a notify or by a       *)
(* spurious wakeup, and then competes for the mutex with all others.       *)
(* running_ is a plain bool that workers also read without the mutex; the  *)
(* build reads memory each time, so a read is a step that sees the last    *)
(* store.                                                                  *)
(***************************************************************************)
EXTENDS Integers, Sequences, FiniteSets

CONSTANTS
  Workers,        \* threads that Start may create
  Starts,         \* the sets of workers Start may be asked for
  Producers,      \* other threads that call RunTask
  Tasks,          \* each is given to RunTask at most once
  Parent,         \* the task that calls RunTask for this one, or NoTask
  NoTask,
  Sizes           \* the arguments of SetMaxQueueSize

Threads == Workers \cup Producers

ASSUME ThreadsAssumption ==
  IsFiniteSet(Threads) /\ Workers \cap Producers = {}
ASSUME ParentAssumption ==
  NoTask \notin Tasks /\ Parent \in [Tasks -> Tasks \cup {NoTask}]
ASSUME SizesAssumption == Sizes \subseteq Nat
ASSUME StartsAssumption == Starts \subseteq SUBSET Workers

VARIABLES
  queue_, running_,
  max_queue_size_, \* 0: not bounded
  threads_,       \* the workers Start has created
  to_start,       \* those it has still to create
  owner,          \* the owner of the pool: "new", "started", "stopping", "stopped"
  pc,             \* where each thread is
  stack,          \* the tasks each thread is in, innermost first
  given,          \* the tasks RunTask was called with
  \* history
  accepted,       \* the tasks that were pushed, in order
  taken,          \* how many of them were popped
  backlog         \* taken, at the moment Stop clears running_

pool == <<queue_, running_, max_queue_size_, threads_, to_start>>
history == <<accepted, taken, backlog>>
vars == <<pool, owner, pc, stack, given, history>>

\* "none": not created; "idle": a producer outside the pool; "call": at the
\* first line of RunTask; "put" and "take": about to lock mutex_ in RunTask and
\* in Take; "wait_full" and "wait_empty": in wait(); "task": in a task; "loop":
\* at the head of RunInThread's loop; "done": a worker that has returned.
Places == {"none", "idle", "call", "put", "wait_full", "task",
           "loop", "take", "wait_empty", "done"}

\* In a task, or in RunTask for one.
InTask == {"call", "put", "wait_full", "task"}

\* How the variables are tied together: a thread has a stack while it is in a
\* task, producers do not run RunInThread, the workers that run are those in
\* threads_, and running_ is set from Start to Stop.
Shape ==
  /\ \A th \in Threads : stack[th] # <<>> <=> pc[th] \in InTask
  /\ \A th \in Producers : pc[th] \in InTask \cup {"idle"}
  /\ \A w \in Workers : pc[w] # "none" <=> w \in threads_
  /\ to_start \cap threads_ = {}
  /\ running_ <=> owner = "started"

\* Type invariant.
TypeOK ==
  /\ queue_ \in Seq(Tasks) /\ running_ \in BOOLEAN
  /\ max_queue_size_ \in Nat
  /\ threads_ \subseteq Workers /\ to_start \subseteq Workers
  /\ owner \in {"new", "started", "stopping", "stopped"}
  /\ pc \in [Threads -> Places]
  /\ stack \in [Threads -> Seq(Tasks)]
  /\ given \subseteq Tasks
  /\ accepted \in Seq(Tasks) /\ taken \in Nat /\ backlog \in Nat
  /\ Shape

Init ==
  /\ queue_ = <<>> /\ running_ = FALSE /\ max_queue_size_ = 0
  /\ threads_ = {} /\ to_start = {}
  /\ owner = "new"
  /\ pc = [th \in Threads |-> IF th \in Workers THEN "none" ELSE "idle"]
  /\ stack = [th \in Threads |-> <<>>]
  /\ given = {}
  /\ accepted = <<>> /\ taken = 0 /\ backlog = 0

-----------------------------------------------------------------------------
At(place) == {th \in Threads : pc[th] = place}

\* Mutant: one slot too many.
IsFullOffByOne == max_queue_size_ > 0 /\ Len(queue_) > max_queue_size_

IsFull == max_queue_size_ > 0 /\ Len(queue_) >= max_queue_size_

\* Mutant: nobody is notified.
NotifiedNobody(places, from, to) == {places}

\* What notify_one makes of places: one of the threads that wait at from, if
\* any, goes on to to.
Notified(places, from, to) ==
  LET waiting == {th \in Threads : places[th] = from}
  IN IF waiting = {} THEN {places}
                     ELSE {[places EXCEPT ![th] = to] : th \in waiting}

\* The thread has finished the innermost call of its stack.
Returned(th) ==
  IF Len(stack[th]) > 1 THEN "task"
  ELSE IF th \in Workers THEN "loop" ELSE "idle"

Pop(th) == stack' = [stack EXCEPT ![th] = Tail(@)]

-----------------------------------------------------------------------------
(* The owner.                                                               *)

\* "Must be called before start()."
SetMaxQueueSize(n) ==
  /\ owner = "new"
  /\ max_queue_size_' = n
  /\ UNCHANGED <<queue_, running_, threads_, to_start, owner, pc, stack,
                 given, history>>

\* Start up to its loop; its assert holds, the owner calls it once.
Start(ws) ==
  /\ owner = "new" /\ threads_ = {}
  /\ owner' = "started" /\ running_' = TRUE /\ to_start' = ws
  /\ UNCHANGED <<queue_, max_queue_size_, threads_, pc, stack, given, history>>

\* Start, one turn of its loop.
StartThread(w) ==
  /\ w \in to_start
  /\ to_start' = to_start \ {w} /\ threads_' = threads_ \cup {w}
  /\ pc' = [pc EXCEPT ![w] = "loop"]
  /\ UNCHANGED <<queue_, running_, max_queue_size_, owner, stack, given,
                 history>>

\* Mutant: producers that wait for room are forgotten.
NotifiedAllOnlyEmpty ==
  [th \in Threads |-> IF pc[th] = "wait_empty" THEN "take" ELSE pc[th]]

\* The two notify_all of Stop.
NotifiedAll ==
  [th \in Threads |-> IF pc[th] = "wait_empty" THEN "take"
                      ELSE IF pc[th] = "wait_full" THEN "put" ELSE pc[th]]

\* Stop, or the destructor, up to the joins.
Stop ==
  /\ owner = "started" /\ to_start = {}
  /\ owner' = "stopping" /\ running_' = FALSE
  /\ pc' = NotifiedAll
  /\ backlog' = taken
  /\ UNCHANGED <<queue_, max_queue_size_, threads_, to_start, stack, given,
                 accepted, taken>>

\* Every Join has returned.
StopReturns ==
  /\ owner = "stopping" /\ threads_ \subseteq At("done")
  /\ owner' = "stopped"
  /\ UNCHANGED <<pool, pc, stack, given, history>>

-----------------------------------------------------------------------------
(* RunTask.                                                                 *)

\* A producer, or the task a thread is in, calls RunTask(t).
Call(th, t) ==
  /\ t \notin given
  /\ IF Parent[t] = NoTask
       THEN pc[th] = "idle"
       ELSE pc[th] = "task" /\ Head(stack[th]) = Parent[t]
  /\ given' = given \cup {t}
  /\ stack' = [stack EXCEPT ![th] = <<t>> \o @]
  /\ pc' = [pc EXCEPT ![th] = "call"]
  /\ UNCHANGED <<pool, owner, history>>

\* threads_.empty(): without workers the task is called in place.
RunTask(th) ==
  /\ pc[th] = "call"
  /\ pc' = [pc EXCEPT ![th] = IF threads_ = {} THEN "task" ELSE "put"]
  /\ UNCHANGED <<pool, owner, stack, given, history>>

\* The queue is full: wait on not_full_.
WaitNotFull(th) ==
  /\ pc[th] = "put" /\ IsFull /\ running_
  /\ pc' = [pc EXCEPT ![th] = "wait_full"]
  /\ UNCHANGED <<pool, owner, stack, given, history>>

\* The pool was stopped: the task is dropped.
Drop(th) ==
  /\ pc[th] = "put" /\ ~running_
  /\ pc' = [pc EXCEPT ![th] = Returned(th)]
  /\ Pop(th)
  /\ UNCHANGED <<pool, owner, given, history>>

\* queue_.push_back and not_empty_.notify_one.
Push(th) ==
  /\ pc[th] = "put" /\ ~IsFull /\ running_
  /\ queue_' = Append(queue_, Head(stack[th]))
  /\ accepted' = Append(accepted, Head(stack[th]))
  /\ pc' \in Notified([pc EXCEPT ![th] = Returned(th)], "wait_empty", "take")
  /\ Pop(th)
  /\ UNCHANGED <<running_, max_queue_size_, threads_, to_start, owner, given,
                 taken, backlog>>

-----------------------------------------------------------------------------
(* RunInThread and Take.                                                    *)

\* The condition of RunInThread's loop.
RunsOn == running_

RunInThread(w) ==
  /\ pc[w] = "loop"
  /\ pc' = [pc EXCEPT ![w] = IF RunsOn THEN "take" ELSE "done"]
  /\ UNCHANGED <<pool, owner, stack, given, history>>

\* The queue is empty: wait on not_empty_.
WaitNotEmpty(w) ==
  /\ pc[w] = "take" /\ queue_ = <<>> /\ running_
  /\ pc' = [pc EXCEPT ![w] = "wait_empty"]
  /\ UNCHANGED <<pool, owner, stack, given, history>>

\* The pool was stopped and the queue is empty: Take returns no task.
TakeNothing(w) ==
  /\ pc[w] = "take" /\ queue_ = <<>> /\ ~running_
  /\ pc' = [pc EXCEPT ![w] = "loop"]
  /\ UNCHANGED <<pool, owner, stack, given, history>>

\* A task is taken, and not_full_ notified if the queue is bounded; also after
\* Stop has cleared running_.
Take(w) ==
  /\ pc[w] = "take" /\ queue_ # <<>>
  /\ queue_' = Tail(queue_)
  /\ taken' = taken + 1
  /\ stack' = [stack EXCEPT ![w] = <<Head(queue_)>>]
  /\ LET places == [pc EXCEPT ![w] = "task"]
     IN IF max_queue_size_ > 0
          THEN pc' \in Notified(places, "wait_full", "put")
          ELSE pc' = places
  /\ UNCHANGED <<running_, max_queue_size_, threads_, to_start, owner, given,
                 accepted, backlog>>

\* The innermost task of a thread returns.
TaskDone(th) ==
  /\ pc[th] = "task"
  /\ pc' = [pc EXCEPT ![th] = Returned(th)]
  /\ Pop(th)
  /\ UNCHANGED <<pool, owner, given, history>>

\* A wait() may return without a notify.
SpuriousWakeup(th) ==
  /\ \/ pc[th] = "wait_full"  /\ pc' = [pc EXCEPT ![th] = "put"]
     \/ pc[th] = "wait_empty" /\ pc' = [pc EXCEPT ![th] = "take"]
  /\ UNCHANGED <<pool, owner, stack, given, history>>

-----------------------------------------------------------------------------
ThreadStep(th) ==
  \/ RunTask(th) \/ WaitNotFull(th) \/ Drop(th) \/ Push(th)
  \/ RunInThread(th) \/ WaitNotEmpty(th) \/ TakeNothing(th) \/ Take(th)
  \/ TaskDone(th)

Next ==
  \/ \E n \in Sizes : SetMaxQueueSize(n)
  \/ \E ws \in Starts : Start(ws)
  \/ Stop \/ StopReturns
  \/ \E w \in Workers : StartThread(w)
  \/ \E th \in Threads :
       \/ \E t \in Tasks : Call(th, t)
       \/ ThreadStep(th) \/ SpuriousWakeup(th)

Spec == Init /\ [][Next]_vars

\* Every thread is scheduled and every task returns; the owner goes on with
\* Start and Stop once it has called them.  Nobody has to call anything.
FairSpec ==
  /\ Spec
  /\ \A th \in Threads : WF_vars(ThreadStep(th))
  /\ \A w \in Workers : WF_vars(StartThread(w))
  /\ WF_vars(StopReturns)

-----------------------------------------------------------------------------
(* Properties.                                                              *)

\* No wakeup of not_empty_ is lost: when a worker waits, every task in the
\* queue has another worker that is on its way to take it, whichever worker
\* notify_one picked and whoever took a task that was meant for another.
NotEmptyInv ==
  At("wait_empty") # {} => Len(queue_) <= Cardinality(At("take"))

\* No wakeup of not_full_ is lost: when a thread waits for room, every free
\* slot has another thread that is on its way to fill it.
NotFullInv ==
  At("wait_full") # {} =>
    max_queue_size_ - Len(queue_) <= Cardinality(At("put"))

\* Neither condition variable loses a wakeup.
NoLostNotify == NotEmptyInv /\ NotFullInv

\* The queue is bounded (RunTask's assert), and the tasks that are in it are
\* the youngest that were accepted, in the order of the calls: each is taken
\* at most once and none overtakes another.
Fifo ==
  /\ max_queue_size_ > 0 => Len(queue_) <= max_queue_size_
  /\ Len(accepted) = taken + Len(queue_)
  /\ \A i \in 1..Len(queue_) : queue_[i] = accepted[taken + i]

\* Nobody waits once Stop has cleared running_, and nobody will: this is why
\* Stop can join, and why RunTask never blocks afterwards.
StopWakesAll ==
  owner \in {"stopping", "stopped"} =>
    At("wait_full") \cup At("wait_empty") = {}

\* Stop does not drain the queue: after it has cleared running_, each worker
\* takes at most one more task, so that Stop waits for a bounded number of
\* tasks however long the queue is.
StopIsPrompt ==
  ~running_ /\ owner # "new" => taken - backlog <= Cardinality(threads_)

\* Stop returns, whatever waits for room or for a task when it is called.
StopEnds == owner = "stopping" ~> owner = "stopped"

\* Every worker waits for room in the queue, in a task that called RunTask;
\* only Stop ends this.
WorkersBlocked == threads_ # {} /\ threads_ \subseteq At("wait_full")

\* A task that was accepted is taken, unless the pool is stopped first or the
\* tasks block every worker.
AcceptedIsTaken ==
  \A n \in 1..Cardinality(Tasks) :
    Len(accepted) >= n ~> (taken >= n \/ ~running_ \/ WorkersBlocked)
=============================================================================
