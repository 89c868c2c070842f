------------------------------ MODULE EventLoop ------------------------------
(***************************************************************************)
(* EventLoop (net/event_loop.{h,cc}): one thread runs Loop(); any thread   *)
(* may call QueueInLoop, RunInLoop, Wakeup (through these) and Quit.       *)
(*                                                                         *)
(* A critical section of mutex_ is one step, so the mutex is not a         *)
(* variable.  What a call does after it unlocks (the test of               *)
(* calling_pending_functors_ and the write to wakeup_fd_) is a step of its *)
(* own, and the other threads run in between.                              *)
(***************************************************************************)
EXTENDS Naturals, Sequences

CONSTANTS LoopThread,   \* the thread that constructed the EventLoop
          Threads,      \* the other threads that hold a pointer to it
          Functors,     \* functor objects; each is handed over at most once
          IoChannels,   \* channels of the loop other than wakeup_channel_
          EarlyQueue    \* does LoopThread call QueueInLoop outside Loop()?

ASSUME LoopThreadAssumption == LoopThread \notin Threads
ASSUME EarlyQueueAssumption == EarlyQueue \in BOOLEAN

VARIABLES
  quit_, looping_, calling_pending_functors_,
  pending_functors_,   \* the queue mutex_ protects
  functors,            \* DoPendingFunctors' local vector, what is left of it
  eventfd,             \* is the counter of wakeup_fd_ non-zero (readable)?
  ready,               \* IoChannels the kernel would report (level-triggered)
  active_channels_,    \* what Poll returned and Loop has not handled yet
  loop_pc,             \* where the loop thread is
  call,                \* per thread: the call it is in the middle of
  done                 \* functors that started running

vars == <<quit_, looping_, calling_pending_functors_, pending_functors_,
          functors, eventfd, ready, active_channels_, loop_pc, call, done>>

AllThreads == Threads \cup {LoopThread}

\* wakeup_channel_; every other channel is a member of IoChannels.
WakeupChannel == "wakeup_channel_"

\* "idle": outside Loop().  "test": at while(!quit_).  "poll": in Poll().
\* "handle": between two HandleEvent calls.  "callback": in a channel's
\* callback.  "run": between two functors.  "functor": inside a functor.
LoopPcs == {"idle", "test", "poll", "handle", "callback", "run", "functor"}

\* "none": in no call.  "queued": in QueueInLoop, after the unlock.
\* "quitting": in Quit, after the store to quit_.
Calls == {"none", "queued", "quitting"}

\* Type invariant.
TypeOK ==
  /\ quit_ \in BOOLEAN /\ looping_ \in BOOLEAN
  /\ calling_pending_functors_ \in BOOLEAN
  /\ pending_functors_ \in Seq(Functors)
  /\ functors \in Seq(Functors)
  /\ eventfd \in BOOLEAN
  /\ ready \subseteq IoChannels
  /\ active_channels_ \subseteq IoChannels \cup {WakeupChannel}
  /\ loop_pc \in LoopPcs
  /\ call \in [AllThreads -> Calls]
  /\ done \subseteq Functors

Init ==
  /\ quit_ = FALSE /\ looping_ = FALSE /\ calling_pending_functors_ = FALSE
  /\ pending_functors_ = <<>> /\ functors = <<>>
  /\ eventfd = FALSE /\ ready = {} /\ active_channels_ = {}
  /\ loop_pc = "idle"
  /\ call = [t \in AllThreads |-> "none"]
  /\ done = {}

-----------------------------------------------------------------------------
(* The calls a thread makes on the loop.                                   *)

\* The thread can start a call: another thread whenever it is in none, the
\* loop thread only where user code runs on it.
InUserCode(t) ==
  /\ call[t] = "none"
  /\ t = LoopThread => loop_pc \in {"idle", "callback", "functor"}

\* The functors still to run, in order: what is left of the vector being
\* executed, then what has been queued since the swap.
Queue == functors \o pending_functors_

Queued(f) == \E i \in DOMAIN Queue : Queue[i] = f

\* Wakeup(): writing 1 to the eventfd makes it readable, whatever its count
\* (a write that would overflow the counter fails and leaves it readable).
Wakeup == eventfd' = TRUE

IsInLoopThread(t) == t = LoopThread

\* Mutant: a functor is put in front of the others.
EmplaceFront(q, f) == <<f>> \o q

\* pending_functors_.emplace_back(cb)
EmplaceBack(q, f) == Append(q, f)

\* QueueInLoop, the critical section.
QueueInLoop(t, f) ==
  /\ InUserCode(t)
  /\ f \notin done /\ ~Queued(f)
  /\ (IsInLoopThread(t) /\ loop_pc = "idle") => EarlyQueue
  /\ pending_functors_' = EmplaceBack(pending_functors_, f)
  /\ call' = [call EXCEPT ![t] = "queued"]
  /\ UNCHANGED <<quit_, looping_, calling_pending_functors_, functors, eventfd,
                 ready, active_channels_, loop_pc, done>>

\* Mutant: functors queued while functors run are forgotten.
NeedsWakeupOtherThreads(t) == ~IsInLoopThread(t)

\* QueueInLoop, after the unlock: the condition that decides on Wakeup().
NeedsWakeup(t) == ~IsInLoopThread(t) \/ calling_pending_functors_

QueueInLoopWakeup(t) ==
  /\ call[t] = "queued"
  /\ IF NeedsWakeup(t) THEN Wakeup ELSE UNCHANGED eventfd
  /\ call' = [call EXCEPT ![t] = "none"]
  /\ UNCHANGED <<quit_, looping_, calling_pending_functors_, pending_functors_,
                 functors, ready, active_channels_, loop_pc, done>>

\* RunInLoop on the loop thread calls the functor in place; on any other
\* thread it is QueueInLoop.
RunInLoop(t, f) ==
  \/ /\ ~IsInLoopThread(t)
     /\ QueueInLoop(t, f)
  \/ /\ IsInLoopThread(t) /\ InUserCode(t)
     /\ f \notin done /\ ~Queued(f)
     /\ done' = done \cup {f}
     /\ UNCHANGED <<quit_, looping_, calling_pending_functors_,
                    pending_functors_, functors, eventfd, ready,
                    active_channels_, loop_pc, call>>

\* Quit, the store.
Quit(t) ==
  /\ InUserCode(t)
  /\ quit_' = TRUE
  /\ call' = [call EXCEPT ![t] = "quitting"]
  /\ UNCHANGED <<looping_, calling_pending_functors_, pending_functors_,
                 functors, eventfd, ready, active_channels_, loop_pc, done>>

\* Quit, the rest: the code wakes the loop when the caller IS the loop thread.
QuitWakeup(t) ==
  /\ call[t] = "quitting"
  /\ IF IsInLoopThread(t) THEN Wakeup ELSE UNCHANGED eventfd
  /\ call' = [call EXCEPT ![t] = "none"]
  /\ UNCHANGED <<quit_, looping_, calling_pending_functors_, pending_functors_,
                 functors, ready, active_channels_, loop_pc, done>>

-----------------------------------------------------------------------------
(* The loop thread.                                                        *)

\* Entry of Loop().
EnterLoop ==
  /\ loop_pc = "idle" /\ call[LoopThread] = "none"
  /\ ~looping_
  /\ looping_' = TRUE /\ quit_' = FALSE
  /\ loop_pc' = "test"
  /\ UNCHANGED <<calling_pending_functors_, pending_functors_, functors,
                 eventfd, ready, active_channels_, call, done>>

\* while (!quit_), and active_channels_.clear() when it goes on.
TestQuit ==
  /\ loop_pc = "test"
  /\ IF quit_ THEN /\ looping_' = FALSE
                   /\ loop_pc' = "idle"
                   /\ UNCHANGED active_channels_
              ELSE /\ active_channels_' = {}
                   /\ loop_pc' = "poll"
                   /\ UNCHANGED looping_
  /\ UNCHANGED <<quit_, calling_pending_functors_, pending_functors_, functors,
                 eventfd, ready, call, done>>

Readable == ready \cup (IF eventfd THEN {WakeupChannel} ELSE {})

\* Poll() returns because some channel has an event.
PollReturns ==
  /\ loop_pc = "poll"
  /\ Readable # {}
  /\ active_channels_' = Readable
  /\ loop_pc' = "handle"
  /\ UNCHANGED <<quit_, looping_, calling_pending_functors_, pending_functors_,
                 functors, eventfd, ready, call, done>>

\* Mutant: the timeout is infinite.
PollBlocksForever == FALSE

\* Poll() returns after kPollTimeMs (or on EINTR) with nothing to report.
PollTimesOut ==
  /\ loop_pc = "poll"
  /\ Readable = {}
  /\ loop_pc' = "handle"
  /\ UNCHANGED <<quit_, looping_, calling_pending_functors_, pending_functors_,
                 functors, eventfd, ready, active_channels_, call, done>>

\* HandleEvent of wakeup_channel_: EventLoop::HandleRead() reads the eventfd,
\* which resets its counter to 0.
HandleRead ==
  /\ loop_pc = "handle"
  /\ WakeupChannel \in active_channels_
  /\ active_channels_' = active_channels_ \ {WakeupChannel}
  /\ eventfd' = FALSE
  /\ UNCHANGED <<quit_, looping_, calling_pending_functors_, pending_functors_,
                 functors, ready, loop_pc, call, done>>

\* HandleEvent of another channel: its callback consumes the event and runs
\* user code, which may call the loop.
HandleEvent(c) ==
  /\ loop_pc = "handle"
  /\ c \in active_channels_ \ {WakeupChannel}
  /\ active_channels_' = active_channels_ \ {c}
  /\ ready' = ready \ {c}
  /\ loop_pc' = "callback"
  /\ UNCHANGED <<quit_, looping_, calling_pending_functors_, pending_functors_,
                 functors, eventfd, call, done>>

CallbackReturns ==
  /\ loop_pc = "callback" /\ call[LoopThread] = "none"
  /\ loop_pc' = "handle"
  /\ UNCHANGED <<quit_, looping_, calling_pending_functors_, pending_functors_,
                 functors, eventfd, ready, active_channels_, call, done>>

\* What the swap leaves in pending_functors_.
PendingSwapped == <<>>

\* DoPendingFunctors up to the swap.  The flag and the swap are one step: no
\* other thread reads the flag (IsInLoopThread() decides first).
SwapPending ==
  /\ loop_pc = "handle" /\ active_channels_ = {}
  /\ calling_pending_functors_' = TRUE
  /\ functors' = pending_functors_
  /\ pending_functors_' = PendingSwapped
  /\ loop_pc' = "run"
  /\ UNCHANGED <<quit_, looping_, eventfd, ready, active_channels_, call, done>>

\* for (functor : functors) functor();
RunFunctor ==
  /\ loop_pc = "run" /\ functors # <<>>
  /\ done' = done \cup {Head(functors)}
  /\ functors' = Tail(functors)
  /\ loop_pc' = "functor"
  /\ UNCHANGED <<quit_, looping_, calling_pending_functors_, pending_functors_,
                 eventfd, ready, active_channels_, call>>

FunctorReturns ==
  /\ loop_pc = "functor" /\ call[LoopThread] = "none"
  /\ loop_pc' = "run"
  /\ UNCHANGED <<quit_, looping_, calling_pending_functors_, pending_functors_,
                 functors, eventfd, ready, active_channels_, call, done>>

\* The end of DoPendingFunctors.
PendingDone ==
  /\ loop_pc = "run" /\ functors = <<>>
  /\ calling_pending_functors_' = FALSE
  /\ loop_pc' = "test"
  /\ UNCHANGED <<quit_, looping_, pending_functors_, functors, eventfd, ready,
                 active_channels_, call, done>>

\* The environment: an event arrives on a descriptor of the loop.
IoEvent(c) ==
  /\ c \notin ready
  /\ ready' = ready \cup {c}
  /\ UNCHANGED <<quit_, looping_, calling_pending_functors_, pending_functors_,
                 functors, eventfd, active_channels_, loop_pc, call, done>>

-----------------------------------------------------------------------------
LoopStep ==
  \/ TestQuit \/ PollReturns \/ HandleRead
  \/ \E c \in IoChannels : HandleEvent(c)
  \/ CallbackReturns \/ SwapPending \/ RunFunctor \/ FunctorReturns
  \/ PendingDone

CallReturns(t) == QueueInLoopWakeup(t) \/ QuitWakeup(t)

Next ==
  \/ \E t \in AllThreads :
       \/ \E f \in Functors : QueueInLoop(t, f) \/ RunInLoop(t, f)
       \/ Quit(t)
       \/ CallReturns(t)
  \/ EnterLoop \/ LoopStep \/ PollTimesOut
  \/ \E c \in IoChannels : IoEvent(c)

Spec == Init /\ [][Next]_vars

\* The OS schedules every thread, and user callbacks and functors return, after
\* finitely many calls of their own (hence strong fairness).  No fairness is
\* given to PollTimesOut: what is promised must not wait for the 10 s timeout.
FairSpec ==
  /\ Spec
  /\ WF_vars(LoopStep)
  /\ SF_vars(CallbackReturns) /\ SF_vars(FunctorReturns)
  /\ \A t \in AllThreads : WF_vars(CallReturns(t))

-----------------------------------------------------------------------------
(* Properties.                                                             *)

\* Some other thread is inside QueueInLoop and has yet to decide on Wakeup().
WakeupInFlight == \E t \in Threads : call[t] = "queued"

\* No lost wakeup: while the loop thread sits in Poll() with functors queued,
\* the eventfd is readable or a thread that queued one is about to write it.
\* (QueueInLoop's condition, HandleRead's reset and the place of the swap in
\* Loop() together.)
NoLostWakeup ==
  (loop_pc = "poll" /\ pending_functors_ # <<>>) => eventfd \/ WakeupInFlight

\* The inductive form of NoLostWakeup.  From the moment DoPendingFunctors has
\* swapped until Poll() has returned, queued functors are covered by the
\* eventfd or by a caller that will still write it (another thread, or a
\* functor body, for which calling_pending_functors_ is set).
WakeupInv ==
  /\ calling_pending_functors_ <=> loop_pc \in {"run", "functor"}
  /\ call[LoopThread] # "none" => loop_pc \in {"idle", "callback", "functor"}
  /\ ~EarlyQueue =>
       /\ call[LoopThread] = "queued" => loop_pc \in {"callback", "functor"}
       /\ (pending_functors_ # <<>> /\ loop_pc \notin {"handle", "callback"})
            => \/ eventfd \/ WakeupInFlight
               \/ call[LoopThread] = "queued"

\* Each functor is in one place: a functor that started is queued nowhere, and
\* the queue (the local vector, then pending_functors_) holds none twice.
ExactlyOnce ==
  /\ \A i \in DOMAIN Queue : Queue[i] \notin done
  /\ \A i, j \in DOMAIN Queue : Queue[i] = Queue[j] => i = j

\* Seen from its callers the loop is the FIFO of FunctorQueue.
FQ == INSTANCE FunctorQueue WITH queue <- Queue
ImplementsFunctorQueue == FQ!QSpec

\* A functor in pending_functors_ runs without the help of the poll timeout,
\* unless the loop is told to quit first.
QueuedFunctorRuns ==
  \A f \in Functors : (looping_ /\ Queued(f)) ~> (f \in done \/ quit_)

\* A quit seen by a running loop ends Loop(): if nothing else wakes Poll(), the
\* timeout does, which here is assumed to expire.
QuitEndsLoop ==
  WF_vars(PollTimesOut) => ((looping_ /\ quit_) ~> ~looping_)

\* What the comment in Quit() says: a Quit() from another thread wakes the
\* loop thread.
QuitWakesLoop ==
  (loop_pc = "poll" /\ quit_ /\ \A t \in AllThreads : call[t] # "quitting")
    => eventfd
=============================================================================
