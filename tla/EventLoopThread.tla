--------------------------- MODULE EventLoopThread ---------------------------
(***************************************************************************)
(* EventLoopThread (net/event_loop_thread.{h,cc}) with the base Thread it  *)
(* starts (base/thread.cc) and the EventLoop on that thread's stack.       *)
(*                                                                         *)
(* Owner is the thread that constructs the EventLoopThread, calls          *)
(* StartLoop(), uses the loop it returns and runs the destructor.  The     *)
(* EventLoop's LoopThread is the new thread; its state is EventLoop's, and *)
(* is meaningful while loop_alive.  A critical section of mutex_ is one    *)
(* step, except the last one of ThreadFunc, whose unlock is a step of its  *)
(* own because the mutex may be gone by then.                              *)
(***************************************************************************)
EXTENDS EventLoop

CONSTANTS Owner,      \* the thread that owns the EventLoopThread
          LoopQuits   \* may code that runs in the loop call Quit() on it?

ASSUME OwnerAssumption == Owner \in Threads
ASSUME LoopQuitsAssumption == LoopQuits \in BOOLEAN

VARIABLES
  owner_pc,     \* where the owner is
  worker_pc,    \* where the thread that runs ThreadFunc is
  sem,          \* Thread::Start's semaphore
  loop_,        \* is loop_ non-null?
  loop_alive,   \* is the EventLoop on the worker's stack constructed?
  self_quit     \* history: did code of the loop call Quit() on it?

evars == <<owner_pc, worker_pc, sem, loop_, loop_alive, self_quit>>
allvars == <<vars, evars>>

\* "constructed", then StartLoop ("sem_wait": in Thread::Start; "check": at the
\* while; "wait": in cond_.wait), "using" the loop, the destructor ("dtor":
\* at its test; "quit": before loop_->Quit(); "join") and "destroyed".
OwnerPcs == {"constructed", "sem_wait", "check", "wait", "using", "dtor",
             "quit", "join", "destroyed"}

\* "none": no thread.  "tid": before sem_post.  "construct", "callback",
\* "publish", "loop" (before Loop()), "looping", "clear", "unlock",
\* "destruct", "exit": through ThreadFunc.
WorkerPcs == {"none", "tid", "construct", "callback", "publish", "loop",
              "looping", "clear", "unlock", "destruct", "exit"}

\* Type invariant.
ThreadTypeOK ==
  /\ TypeOK
  /\ owner_pc \in OwnerPcs /\ worker_pc \in WorkerPcs
  /\ sem \in 0..1 /\ loop_ \in BOOLEAN /\ loop_alive \in BOOLEAN
  /\ self_quit \in BOOLEAN

ThreadInit ==
  /\ Init
  /\ owner_pc = "constructed" /\ worker_pc = "none"
  /\ sem = 0 /\ loop_ = FALSE /\ loop_alive = FALSE /\ self_quit = FALSE

-----------------------------------------------------------------------------
(* The owner.                                                              *)

\* Thread::Start: create the thread and wait for its tid.
ThreadStart ==
  /\ owner_pc = "constructed"
  /\ worker_pc' = "tid"
  /\ owner_pc' = "sem_wait"
  /\ UNCHANGED <<vars, sem, loop_, loop_alive, self_quit>>

SemWaitReturns ==
  /\ owner_pc = "sem_wait" /\ sem = 1
  /\ sem' = 0
  /\ owner_pc' = "check"
  /\ UNCHANGED <<vars, worker_pc, loop_, loop_alive, self_quit>>

\* Mutant: StartLoop does not wait for loop_.
CheckLoopNoWait ==
  /\ owner_pc = "check"
  /\ owner_pc' = "using"
  /\ UNCHANGED <<vars, worker_pc, sem, loop_, loop_alive, self_quit>>

\* StartLoop: while (loop_ == nullptr) cond_.wait(lock); return loop_.
CheckLoop ==
  /\ owner_pc = "check"
  /\ owner_pc' = IF loop_ THEN "using" ELSE "wait"
  /\ UNCHANGED <<vars, worker_pc, sem, loop_, loop_alive, self_quit>>

\* cond_.wait may return without a notification.
SpuriousWakeup ==
  /\ owner_pc = "wait"
  /\ owner_pc' = "check"
  /\ UNCHANGED <<vars, worker_pc, sem, loop_, loop_alive, self_quit>>

\* The owner uses the loop it got from StartLoop.
OwnerCalls ==
  /\ owner_pc = "using"
  /\ \E f \in Functors : QueueInLoop(Owner, f) \/ RunInLoop(Owner, f)
  /\ UNCHANGED evars

OwnerCallReturns ==
  /\ CallReturns(Owner)
  /\ UNCHANGED evars

\* The destructor begins: exiting_ = true.  Also for an object never started.
BeginDtor ==
  /\ owner_pc \in {"constructed", "using"}
  /\ call[Owner] = "none"
  /\ owner_pc' = "dtor"
  /\ UNCHANGED <<vars, worker_pc, sem, loop_, loop_alive, self_quit>>

\* if (loop_ != nullptr), read without mutex_.  Nothing is joined when it is
\* null: ~Thread then detaches the thread, if there is one.
DtorTestsLoop ==
  /\ owner_pc = "dtor"
  /\ owner_pc' = IF loop_ THEN "quit" ELSE "destroyed"
  /\ UNCHANGED <<vars, worker_pc, sem, loop_, loop_alive, self_quit>>

\* Mutant: join without quit.
DtorJoinsOnly ==
  /\ owner_pc = "quit"
  /\ owner_pc' = "join"
  /\ UNCHANGED <<vars, worker_pc, sem, loop_, loop_alive, self_quit>>

\* loop_->Quit()
DtorQuits ==
  /\ owner_pc = "quit"
  /\ Quit(Owner)
  /\ owner_pc' = "join"
  /\ UNCHANGED <<worker_pc, sem, loop_, loop_alive, self_quit>>

\* thread_.Join(), then the members are destroyed.
DtorJoins ==
  /\ owner_pc = "join" /\ call[Owner] = "none"
  /\ worker_pc = "exit"
  /\ owner_pc' = "destroyed"
  /\ UNCHANGED <<vars, worker_pc, sem, loop_, loop_alive, self_quit>>

-----------------------------------------------------------------------------
(* The new thread.                                                         *)

\* tid_ = Tid(); sem_post(&sem);
WorkerPosts ==
  /\ worker_pc = "tid"
  /\ sem' = 1
  /\ worker_pc' = "construct"
  /\ UNCHANGED <<vars, owner_pc, loop_, loop_alive, self_quit>>

\* EventLoop loop;
WorkerConstructs ==
  /\ worker_pc = "construct"
  /\ loop_alive' = TRUE
  /\ worker_pc' = "callback"
  /\ UNCHANGED <<vars, owner_pc, sem, loop_, self_quit>>

\* if (callback_) callback_(&loop): user code on the loop thread, before Loop().
InitCallback ==
  /\ worker_pc = "callback"
  /\ \E f \in Functors : RunInLoop(LoopThread, f) \/ QueueInLoop(LoopThread, f)
  /\ UNCHANGED evars

InitCallbackReturns ==
  /\ worker_pc = "callback" /\ call[LoopThread] = "none"
  /\ worker_pc' = "publish"
  /\ UNCHANGED <<vars, owner_pc, sem, loop_, loop_alive, self_quit>>

\* Mutant: without notify_one().
WorkerPublishesSilently ==
  /\ worker_pc = "publish"
  /\ loop_' = TRUE
  /\ worker_pc' = "loop"
  /\ UNCHANGED <<vars, owner_pc, sem, loop_alive, self_quit>>

\* { lock; loop_ = &loop; cond_.notify_one(); }
WorkerPublishes ==
  /\ worker_pc = "publish"
  /\ loop_' = TRUE
  /\ owner_pc' = IF owner_pc = "wait" THEN "check" ELSE owner_pc
  /\ worker_pc' = "loop"
  /\ UNCHANGED <<vars, sem, loop_alive, self_quit>>

WorkerEntersLoop ==
  /\ worker_pc = "loop"
  /\ EnterLoop
  /\ worker_pc' = "looping"
  /\ UNCHANGED <<owner_pc, sem, loop_, loop_alive, self_quit>>

\* Loop() runs, with the calls its callbacks and functors make, until it
\* returns.
WorkerLoops ==
  /\ worker_pc = "looping"
  /\ \/ /\ \/ LoopStep
           \/ \E f \in Functors : \/ QueueInLoop(LoopThread, f)
                                  \/ RunInLoop(LoopThread, f)
        /\ UNCHANGED self_quit
     \/ /\ LoopQuits /\ ~quit_
        /\ Quit(LoopThread)
        /\ self_quit' = TRUE
  /\ worker_pc' = IF looping_' THEN "looping" ELSE "clear"
  /\ UNCHANGED <<owner_pc, sem, loop_, loop_alive>>

WorkerCallReturns ==
  /\ CallReturns(LoopThread)
  /\ UNCHANGED evars

WorkerPollTimesOut == worker_pc = "looping" /\ PollTimesOut /\ UNCHANGED evars

\* The last critical section of ThreadFunc: lock, loop_ = nullptr, ...
WorkerClears ==
  /\ worker_pc = "clear"
  /\ loop_' = FALSE
  /\ worker_pc' = "unlock"
  /\ UNCHANGED <<vars, owner_pc, sem, loop_alive, self_quit>>

\* ... and the locals of ThreadFunc go in reverse order: the lock, then loop.
WorkerUnlocks ==
  /\ worker_pc = "unlock"
  /\ worker_pc' = "destruct"
  /\ UNCHANGED <<vars, owner_pc, sem, loop_, loop_alive, self_quit>>

WorkerDestructs ==
  /\ worker_pc = "destruct"
  /\ loop_alive' = FALSE
  /\ worker_pc' = "exit"
  /\ UNCHANGED <<vars, owner_pc, sem, loop_, self_quit>>

ThreadIoEvent ==
  /\ loop_alive
  /\ \E c \in IoChannels : IoEvent(c)
  /\ UNCHANGED evars

-----------------------------------------------------------------------------
OwnerStep == \/ SemWaitReturns \/ CheckLoop \/ OwnerCallReturns
             \/ DtorTestsLoop \/ DtorQuits \/ DtorJoins

WorkerStep == \/ WorkerPosts \/ WorkerConstructs \/ InitCallbackReturns
              \/ WorkerPublishes \/ WorkerEntersLoop \/ WorkerCallReturns
              \/ WorkerClears \/ WorkerUnlocks \/ WorkerDestructs
              \/ (worker_pc = "looping" /\ LoopStep /\ WorkerLoops)

\* Both threads have ended.
Terminated ==
  /\ owner_pc = "destroyed" /\ worker_pc \in {"none", "exit"}
  /\ UNCHANGED allvars

ThreadNext ==
  \/ ThreadStart \/ SpuriousWakeup \/ OwnerCalls \/ BeginDtor \/ OwnerStep
  \/ InitCallback \/ WorkerLoops \/ WorkerPollTimesOut \/ WorkerStep
  \/ ThreadIoEvent \/ Terminated

ThreadSpec == ThreadInit /\ [][ThreadNext]_allvars

\* Both threads are scheduled, user code on the loop thread returns, and the
\* poll timeout expires.
ThreadFairSpec ==
  /\ ThreadSpec
  /\ WF_allvars(OwnerStep) /\ WF_allvars(WorkerStep)
  /\ WF_allvars(WorkerPollTimesOut)

-----------------------------------------------------------------------------
(* Properties.                                                             *)

\* Wherever the owner uses the loop (the pointer StartLoop returned, the Wakeup()
\* after QueueInLoop's unlock, the destructor's Quit()) it is constructed, but at
\* one place: Quit() reads thread_id_ (event_loop.cc:113) after its store to
\* quit_, which may have let the loop end and go.
OwnerCallsLiveLoop ==
  /\ owner_pc \in {"using", "quit"} => loop_alive
  /\ call[Owner] # "none" /\ ~loop_alive =>
       call[Owner] = "quitting" /\ owner_pc = "join"

\* That place: the code does not promise this.
QuitReadsLiveLoop == call[Owner] = "quitting" => loop_alive

\* The worker locks and unlocks mutex_, and writes loop_, only while the
\* EventLoopThread exists.
WorkerUsesLiveObject ==
  worker_pc \in {"publish", "clear", "unlock"} => owner_pc # "destroyed"

\* Once the destructor has returned, the thread's loop is gone.
DtorReapsThread == owner_pc = "destroyed" => ~loop_alive

\* As long as only the owner ends the loop, the tail of its own Quit() is the one
\* use of a destroyed loop, the worker never uses a destroyed EventLoopThread, and
\* the destructor leaves no loop behind: StartLoop's wait and the destructor's
\* join suffice for the rest.  (A loop that quits by itself is not waited for:
\* see the README.)
DanglingUseOnlyInQuit ==
  ~self_quit => OwnerCallsLiveLoop /\ WorkerUsesLiveObject /\ DtorReapsThread

\* StartLoop returns: no notification is missed.  (A loop that quits before the
\* owner looks again has set loop_ back to nullptr.)
StartLoopReturns ==
  (owner_pc = "sem_wait") ~> (owner_pc = "using" \/ self_quit)

\* "dtor calls quit()": the destructor makes the loop quit and returns.
DtorReturns == (owner_pc = "dtor") ~> (owner_pc = "destroyed")

\* The same for a destructor that starts when Loop() has been entered.
DtorOfRunningLoopReturns ==
  (owner_pc = "dtor" /\ worker_pc # "loop") ~> (owner_pc = "destroyed")
=============================================================================
