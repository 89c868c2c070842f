-------------------------- MODULE EventLoopProofs --------------------------
(***************************************************************************)
(* Theorems about EventLoop, for every set of threads, functors and        *)
(* channels, and about the EventLoopThread that runs one.                  *)
(***************************************************************************)
EXTENDS EventLoopThread, Integers, SequenceTheorems, TLAPS

\* Every step keeps the type invariant.
LEMMA TypeStep == TypeOK /\ [Next]_vars => TypeOK'
<1> SUFFICES ASSUME TypeOK, [Next]_vars PROVE TypeOK'
  OBVIOUS
<1> USE DEF TypeOK, LoopPcs, Calls, AllThreads
<1>1. ASSUME NEW t \in AllThreads, NEW f \in Functors, QueueInLoop(t, f)
      PROVE  TypeOK'
  BY <1>1, AppendProperties DEF QueueInLoop, EmplaceBack
<1>2. ASSUME NEW t \in AllThreads, NEW f \in Functors, RunInLoop(t, f)
      PROVE  TypeOK'
  BY <1>1, <1>2 DEF RunInLoop
<1>3. ASSUME NEW t \in AllThreads, Quit(t) PROVE TypeOK'
  BY <1>3 DEF Quit
<1>4. ASSUME NEW t \in AllThreads, CallReturns(t) PROVE TypeOK'
  BY <1>4 DEF CallReturns, QueueInLoopWakeup, QuitWakeup, Wakeup
<1>5. CASE EnterLoop
  BY <1>5 DEF EnterLoop
<1>6. CASE TestQuit
  BY <1>6 DEF TestQuit
<1>7. CASE PollReturns \/ PollTimesOut
  BY <1>7 DEF PollReturns, PollTimesOut, Readable
<1>8. CASE HandleRead
  BY <1>8 DEF HandleRead
<1>9. ASSUME NEW c \in IoChannels, HandleEvent(c) \/ IoEvent(c) PROVE TypeOK'
  BY <1>9 DEF HandleEvent, IoEvent
<1>10. CASE CallbackReturns \/ FunctorReturns
  BY <1>10 DEF CallbackReturns, FunctorReturns
<1>11. CASE SwapPending \/ PendingDone
  BY <1>11, EmptySeq DEF SwapPending, PendingSwapped, PendingDone
<1>12. CASE RunFunctor
  BY <1>12, HeadTailProperties DEF RunFunctor
<1>13. CASE UNCHANGED vars
  BY <1>13 DEF vars
<1> QED
  BY <1>1, <1>2, <1>3, <1>4, <1>5, <1>6, <1>7, <1>8, <1>9, <1>10, <1>11,
     <1>12, <1>13 DEF Next, LoopStep

\* The state of the loop is always well typed.
THEOREM TypeCorrect == Spec => []TypeOK
<1>1. Init => TypeOK
  BY EmptySeq DEF Init, TypeOK, LoopPcs, Calls, AllThreads
<1> QED
  BY <1>1, TypeStep, PTL DEF Spec

-----------------------------------------------------------------------------
\* The inductive step of the wakeup argument.
LEMMA WakeupStep == TypeOK /\ WakeupInv /\ [Next]_vars => WakeupInv'
<1> SUFFICES ASSUME TypeOK, WakeupInv, [Next]_vars PROVE WakeupInv'
  OBVIOUS
<1> USE LoopThreadAssumption, EarlyQueueAssumption
    DEF TypeOK, LoopPcs, Calls, AllThreads, WakeupInv, WakeupInFlight
<1>1. ASSUME NEW t \in AllThreads, NEW f \in Functors, QueueInLoop(t, f)
      PROVE  WakeupInv'
  <2>1. CASE t = LoopThread
    BY <1>1, <2>1 DEF QueueInLoop, EmplaceBack, InUserCode, IsInLoopThread
  <2>2. CASE t \in Threads
    BY <1>1, <2>2 DEF QueueInLoop, EmplaceBack
  <2> QED
    BY <2>1, <2>2
<1>2. ASSUME NEW t \in AllThreads, NEW f \in Functors, RunInLoop(t, f)
      PROVE  WakeupInv'
  BY <1>1, <1>2 DEF RunInLoop
<1>3. ASSUME NEW t \in AllThreads, Quit(t) PROVE WakeupInv'
  BY <1>3 DEF Quit, InUserCode
<1>4. ASSUME NEW t \in AllThreads, QueueInLoopWakeup(t) PROVE WakeupInv'
  <2>1. CASE t = LoopThread
    BY <1>4, <2>1 DEF QueueInLoopWakeup, NeedsWakeup, Wakeup, IsInLoopThread
  <2>2. CASE t \in Threads
    BY <1>4, <2>2 DEF QueueInLoopWakeup, NeedsWakeup, Wakeup, IsInLoopThread
  <2> QED
    BY <2>1, <2>2
<1>5. ASSUME NEW t \in AllThreads, QuitWakeup(t) PROVE WakeupInv'
  BY <1>5 DEF QuitWakeup, Wakeup, IsInLoopThread
<1>6. CASE EnterLoop
  BY <1>6 DEF EnterLoop
<1>7. CASE TestQuit
  BY <1>7 DEF TestQuit
<1>8. CASE PollReturns \/ PollTimesOut
  BY <1>8 DEF PollReturns, PollTimesOut
<1>9. CASE HandleRead
  BY <1>9 DEF HandleRead
<1>10. ASSUME NEW c \in IoChannels, HandleEvent(c) \/ IoEvent(c)
       PROVE  WakeupInv'
  BY <1>10 DEF HandleEvent, IoEvent
<1>11. CASE CallbackReturns \/ FunctorReturns
  BY <1>11 DEF CallbackReturns, FunctorReturns
<1>12. CASE SwapPending
  BY <1>12 DEF SwapPending, PendingSwapped
<1>13. CASE RunFunctor
  BY <1>13 DEF RunFunctor
<1>14. CASE PendingDone
  BY <1>14 DEF PendingDone
<1>15. CASE UNCHANGED vars
  BY <1>15 DEF vars
<1> QED
  BY <1>1, <1>2, <1>3, <1>4, <1>5, <1>6, <1>7, <1>8, <1>9, <1>10, <1>11,
     <1>12, <1>13, <1>14, <1>15 DEF Next, LoopStep, CallReturns

\* The inductive wakeup invariant holds of every reachable state.
THEOREM WakeupInvHolds == Spec => []WakeupInv
<1>1. Init => WakeupInv
  BY EarlyQueueAssumption DEF Init, WakeupInv, AllThreads
<1> QED
  BY <1>1, TypeCorrect, WakeupStep, PTL DEF Spec

\* No wakeup is lost: unless the loop thread queues functors outside Loop(),
\* the loop never sits in Poll() on queued functors that nobody will announce.
THEOREM NoLostWakeupHolds == Spec => [](~EarlyQueue => NoLostWakeup)
<1>1. WakeupInv => (~EarlyQueue => NoLostWakeup)
  BY DEF WakeupInv, NoLostWakeup
<1> QED
  BY <1>1, WakeupInvHolds, PTL

-----------------------------------------------------------------------------
(* The refinement.                                                         *)

\* Appending to the second part of a concatenation appends to the whole.
LEMMA AppendConcat ==
  ASSUME NEW S, NEW s \in Seq(S), NEW t \in Seq(S), NEW e \in S
  PROVE  s \o Append(t, e) = Append(s \o t, e)
<1>1. /\ Append(t, e) = t \o <<e>>
      /\ s \o t \in Seq(S)
      /\ <<e>> \in Seq(S)
  BY AppendIsConcat, ConcatProperties
<1>2. Append(s \o t, e) = (s \o t) \o <<e>>
  BY <1>1, AppendIsConcat
<1> QED
  BY <1>1, <1>2, ConcatAssociative

\* Taking the head of the first part takes the head of the whole.
LEMMA HeadTailConcat ==
  ASSUME NEW S, NEW s \in Seq(S), NEW t \in Seq(S), s # <<>>
  PROVE  /\ s \o t # <<>>
         /\ Head(s \o t) = Head(s)
         /\ Tail(s \o t) = Tail(s) \o t
<1>1. /\ s \o t \in Seq(S)
      /\ Len(s \o t) = Len(s) + Len(t)
      /\ Len(s) \in Nat \ {0} /\ Len(t) \in Nat
      /\ Tail(s) \in Seq(S) /\ Len(Tail(s)) = Len(s) - 1
      /\ \A i \in 1 .. Len(s) + Len(t) :
            (s \o t)[i] = IF i <= Len(s) THEN s[i] ELSE t[i - Len(s)]
      /\ \A i \in 1 .. Len(s) - 1 : Tail(s)[i] = s[i + 1]
  BY ConcatProperties, EmptySeq, HeadTailProperties, LenProperties
<1>2. s \o t # <<>>
  BY <1>1, EmptySeq
<1>3. Head(s \o t) = Head(s)
  BY <1>1
<1>4. /\ Tail(s \o t) \in Seq(S)
      /\ Len(Tail(s \o t)) = Len(s) + Len(t) - 1
      /\ \A i \in 1 .. Len(s) + Len(t) - 1 : Tail(s \o t)[i] = (s \o t)[i + 1]
  BY <1>1, <1>2, HeadTailProperties
<1>5. /\ Tail(s) \o t \in Seq(S)
      /\ Len(Tail(s) \o t) = Len(s) + Len(t) - 1
      /\ \A i \in 1 .. Len(s) + Len(t) - 1 : (Tail(s) \o t)[i] =
            IF i <= Len(s) - 1 THEN Tail(s)[i] ELSE t[i - (Len(s) - 1)]
  BY <1>1, ConcatProperties
<1>6. ASSUME NEW i \in 1 .. Len(s) + Len(t) - 1
      PROVE  Tail(s \o t)[i] = (Tail(s) \o t)[i]
  BY <1>1, <1>4, <1>5
<1>7. Tail(s \o t) = Tail(s) \o t
  BY <1>4, <1>5, <1>6, SeqEqual
<1> QED
  BY <1>2, <1>3, <1>7

\* DoPendingFunctors' vector is empty outside DoPendingFunctors.
FunctorsLocal == loop_pc \notin {"run", "functor"} => functors = <<>>

\* FunctorsLocal is inductive.
LEMMA FunctorsLocalHolds == Spec => []FunctorsLocal
<1>1. Init => FunctorsLocal
  BY DEF Init, FunctorsLocal
<1>2. TypeOK /\ FunctorsLocal /\ [Next]_vars => FunctorsLocal'
  <2> SUFFICES ASSUME FunctorsLocal, [Next]_vars PROVE FunctorsLocal'
    OBVIOUS
  <2> USE DEF FunctorsLocal
  <2>1. ASSUME NEW t \in AllThreads, NEW f \in Functors,
               QueueInLoop(t, f) \/ RunInLoop(t, f)
        PROVE  FunctorsLocal'
    BY <2>1 DEF QueueInLoop, RunInLoop
  <2>2. ASSUME NEW t \in AllThreads, Quit(t) \/ CallReturns(t)
        PROVE  FunctorsLocal'
    BY <2>2 DEF Quit, CallReturns, QueueInLoopWakeup, QuitWakeup
  <2>3. CASE LoopStep \/ EnterLoop \/ PollTimesOut
    BY <2>3 DEF LoopStep, TestQuit, PollReturns, HandleRead, HandleEvent,
                CallbackReturns, SwapPending, RunFunctor, FunctorReturns,
                PendingDone, EnterLoop, PollTimesOut
  <2>4. ASSUME NEW c \in IoChannels, IoEvent(c) PROVE FunctorsLocal'
    BY <2>4 DEF IoEvent
  <2>5. CASE UNCHANGED vars
    BY <2>5 DEF vars
  <2> QED
    BY <2>1, <2>2, <2>3, <2>4, <2>5 DEF Next
<1> QED
  BY <1>1, <1>2, TypeCorrect, PTL DEF Spec

\* Every step of the loop is a step of the abstract FIFO or leaves it alone.
LEMMA QueueStep ==
  TypeOK /\ FunctorsLocal /\ [Next]_vars => [FQ!QNext]_(FQ!qvars)
<1> SUFFICES ASSUME TypeOK, FunctorsLocal, [Next]_vars
             PROVE  [FQ!QNext]_(FQ!qvars)
  OBVIOUS
<1> USE DEF FQ!QNext, FQ!qvars, Queue
<1>0. functors \in Seq(Functors) /\ pending_functors_ \in Seq(Functors)
  BY DEF TypeOK
<1>1. ASSUME NEW t \in AllThreads, NEW f \in Functors, QueueInLoop(t, f)
      PROVE  FQ!Submit(f)
  <2>1. Queue' = Append(Queue, f)
    BY <1>0, <1>1, AppendConcat DEF QueueInLoop, EmplaceBack
  <2> QED
    BY <1>1, <2>1 DEF QueueInLoop, FQ!Submit, FQ!New, Queued
<1>2. ASSUME NEW t \in AllThreads, NEW f \in Functors, RunInLoop(t, f)
      PROVE  FQ!Submit(f) \/ FQ!RunDirect(f)
  BY <1>1, <1>2 DEF RunInLoop, FQ!RunDirect, FQ!New, Queued
<1>3. ASSUME NEW t \in AllThreads, Quit(t) \/ CallReturns(t)
      PROVE  UNCHANGED FQ!qvars
  BY <1>3 DEF Quit, CallReturns, QueueInLoopWakeup, QuitWakeup
<1>4. CASE RunFunctor
  BY <1>0, <1>4, HeadTailConcat DEF RunFunctor, FQ!Execute
<1>5. CASE SwapPending
  <2>1. functors = <<>>
    BY <1>5 DEF SwapPending, FunctorsLocal
  <2> QED
    BY <1>0, <1>5, <2>1, ConcatEmptySeq DEF SwapPending, PendingSwapped
<1>6. CASE \/ EnterLoop \/ TestQuit \/ PollReturns \/ PollTimesOut \/ HandleRead
           \/ CallbackReturns \/ FunctorReturns \/ PendingDone
  BY <1>6 DEF EnterLoop, TestQuit, PollReturns, PollTimesOut, HandleRead,
              CallbackReturns, FunctorReturns, PendingDone
<1>7. ASSUME NEW c \in IoChannels, HandleEvent(c) \/ IoEvent(c)
      PROVE  UNCHANGED FQ!qvars
  BY <1>7 DEF HandleEvent, IoEvent
<1>8. CASE UNCHANGED vars
  BY <1>8 DEF vars
<1> QED
  BY <1>1, <1>2, <1>3, <1>4, <1>5, <1>6, <1>7, <1>8 DEF Next, LoopStep

\* EventLoop implements FunctorQueue: functors run in the order in which they
\* were queued, none is lost, duplicated or overtaken.
THEOREM Refinement == Spec => ImplementsFunctorQueue
<1>1. Init => FQ!QInit
  BY EmptySeq, ConcatEmptySeq DEF Init, FQ!QInit, Queue
<1> QED
  BY <1>1, QueueStep, TypeCorrect, FunctorsLocalHolds, PTL
     DEF Spec, ImplementsFunctorQueue, FQ!QSpec

\* A step of the abstract FIFO keeps every functor in one place.
LEMMA OnceStep ==
  TypeOK /\ TypeOK' /\ ExactlyOnce /\ [FQ!QNext]_(FQ!qvars) => ExactlyOnce'
<1> SUFFICES ASSUME TypeOK, TypeOK', ExactlyOnce, [FQ!QNext]_(FQ!qvars)
             PROVE  ExactlyOnce'
  OBVIOUS
<1>0. /\ Queue \in Seq(Functors)
      /\ Len(Queue) \in Nat
      /\ DOMAIN Queue = 1 .. Len(Queue)
  <2>1. Queue \in Seq(Functors)
    BY ConcatProperties DEF TypeOK, Queue
  <2> QED
    BY <2>1, LenProperties
<1> USE DEF ExactlyOnce
<1>1. ASSUME NEW f \in Functors, FQ!Submit(f) PROVE ExactlyOnce'
  <2>1. /\ Queue' = Append(Queue, f) /\ done' = done
        /\ f \notin done /\ \A i \in DOMAIN Queue : Queue[i] # f
    BY <1>1 DEF FQ!Submit, FQ!New
  <2>2. /\ DOMAIN Queue' = 1 .. Len(Queue) + 1
        /\ \A i \in 1 .. Len(Queue) : Queue'[i] = Queue[i]
        /\ Queue'[Len(Queue) + 1] = f
    BY <1>0, <2>1, AppendProperties, LenProperties
  <2> QED
    BY <1>0, <2>1, <2>2
<1>2. ASSUME NEW f \in Functors, FQ!RunDirect(f) PROVE ExactlyOnce'
  BY <1>2 DEF FQ!RunDirect, FQ!New
<1>3. CASE FQ!Execute
  <2>1. Queue # <<>> /\ Queue' = Tail(Queue) /\ done' = done \cup {Head(Queue)}
    BY <1>3 DEF FQ!Execute
  <2>2. /\ Len(Queue) \in Nat \ {0}
        /\ Head(Queue) = Queue[1]
        /\ DOMAIN Queue' = 1 .. Len(Queue) - 1
        /\ \A i \in 1 .. Len(Queue) - 1 : Queue'[i] = Queue[i + 1]
    BY <1>0, <2>1, EmptySeq, HeadTailProperties, LenProperties
  <2> QED
    BY <1>0, <2>1, <2>2
<1>4. CASE UNCHANGED FQ!qvars
  BY <1>4 DEF FQ!qvars
<1> QED
  BY <1>1, <1>2, <1>3, <1>4 DEF FQ!QNext

\* Every functor runs at most once, and never while it is still queued.
THEOREM ExactlyOnceHolds == Spec => []ExactlyOnce
<1>1. Init => ExactlyOnce
  BY EmptySeq, ConcatEmptySeq, LenProperties DEF Init, ExactlyOnce, Queue
<1> QED
  BY <1>1, QueueStep, OnceStep, TypeCorrect, FunctorsLocalHolds, PTL DEF Spec

-----------------------------------------------------------------------------
(* EventLoopThread.                                                        *)

\* Whatever the owner and the new thread do, the loop takes a step of EventLoop
\* or none.
LEMMA ThreadStepIsLoopStep == [ThreadNext]_allvars => [Next]_vars
<1> SUFFICES ASSUME [ThreadNext]_allvars PROVE [Next]_vars
  OBVIOUS
<1>0. Owner \in AllThreads /\ LoopThread \in AllThreads
  BY OwnerAssumption DEF AllThreads
<1>1. CASE OwnerCalls \/ OwnerCallReturns \/ DtorQuits
  BY <1>0, <1>1 DEF OwnerCalls, OwnerCallReturns, DtorQuits, Next
<1>2. CASE InitCallback \/ WorkerCallReturns \/ WorkerEntersLoop
  BY <1>0, <1>2 DEF InitCallback, WorkerCallReturns, WorkerEntersLoop, Next
<1>3. CASE WorkerLoops \/ WorkerPollTimesOut \/ ThreadIoEvent
  BY <1>0, <1>3 DEF WorkerLoops, WorkerPollTimesOut, ThreadIoEvent, Next
<1>4. CASE \/ ThreadStart \/ SemWaitReturns \/ CheckLoop \/ SpuriousWakeup
           \/ BeginDtor \/ DtorTestsLoop \/ DtorJoins
  BY <1>4 DEF ThreadStart, SemWaitReturns, CheckLoop, SpuriousWakeup, BeginDtor,
              DtorTestsLoop, DtorJoins
<1>5. CASE \/ WorkerPosts \/ WorkerConstructs \/ InitCallbackReturns
           \/ WorkerPublishes \/ WorkerClears \/ WorkerUnlocks
           \/ WorkerDestructs
  BY <1>5 DEF WorkerPosts, WorkerConstructs, InitCallbackReturns,
              WorkerPublishes, WorkerClears, WorkerUnlocks, WorkerDestructs
<1>6. CASE Terminated \/ UNCHANGED allvars
  BY <1>6 DEF Terminated, allvars
<1> QED
  BY <1>1, <1>2, <1>3, <1>4, <1>5, <1>6 DEF ThreadNext, OwnerStep, WorkerStep

\* The loop of an EventLoopThread behaves as EventLoop allows, so that what is
\* proved of EventLoop holds of it.
THEOREM ThreadImplementsLoop == ThreadSpec => Spec
<1>1. ThreadInit => Init
  BY DEF ThreadInit
<1> QED
  BY <1>1, ThreadStepIsLoopStep, PTL DEF ThreadSpec, Spec

\* Every step of the two threads keeps the type invariant.
LEMMA ThreadTypeStep == ThreadTypeOK /\ [ThreadNext]_allvars => ThreadTypeOK'
<1> SUFFICES ASSUME ThreadTypeOK, [ThreadNext]_allvars PROVE ThreadTypeOK'
  OBVIOUS
<1>0. TypeOK'
  BY ThreadStepIsLoopStep, TypeStep DEF ThreadTypeOK
<1> USE DEF ThreadTypeOK, OwnerPcs, WorkerPcs, evars
<1>1. CASE OwnerCalls \/ OwnerCallReturns \/ DtorQuits
  BY <1>0, <1>1 DEF OwnerCalls, OwnerCallReturns, DtorQuits
<1>2. CASE InitCallback \/ WorkerCallReturns \/ WorkerEntersLoop
  BY <1>0, <1>2 DEF InitCallback, WorkerCallReturns, WorkerEntersLoop
<1>3. CASE WorkerLoops \/ WorkerPollTimesOut \/ ThreadIoEvent
  BY <1>0, <1>3 DEF WorkerLoops, WorkerPollTimesOut, ThreadIoEvent
<1>4. CASE \/ ThreadStart \/ SemWaitReturns \/ CheckLoop \/ SpuriousWakeup
           \/ BeginDtor \/ DtorTestsLoop \/ DtorJoins
  BY <1>0, <1>4 DEF ThreadStart, SemWaitReturns, CheckLoop, SpuriousWakeup,
                    BeginDtor, DtorTestsLoop, DtorJoins
<1>5. CASE WorkerPosts
  BY <1>0, <1>5 DEF WorkerPosts
<1>6. CASE \/ WorkerConstructs \/ InitCallbackReturns \/ WorkerClears
           \/ WorkerUnlocks \/ WorkerDestructs
  BY <1>0, <1>6 DEF WorkerConstructs, InitCallbackReturns, WorkerClears,
                    WorkerUnlocks, WorkerDestructs
<1>7. CASE WorkerPublishes
  BY <1>0, <1>7 DEF WorkerPublishes
<1>8. CASE Terminated \/ UNCHANGED allvars
  BY <1>0, <1>8 DEF Terminated, allvars
<1> QED
  BY <1>1, <1>2, <1>3, <1>4, <1>5, <1>6, <1>7, <1>8
     DEF ThreadNext, OwnerStep, WorkerStep

\* What a step of the loop does to quit_, looping_ and the owner's call.
LEMMA LoopStepKeeps ==
  ASSUME TypeOK, LoopStep \/ PollTimesOut
  PROVE  /\ UNCHANGED <<quit_, call>>
         /\ ~looping_' => ~looping_ \/ quit_
BY DEF LoopStep, TestQuit, PollReturns, PollTimesOut, HandleRead, HandleEvent,
       CallbackReturns, SwapPending, RunFunctor, FunctorReturns, PendingDone

\* A call that queues or runs a functor changes only the caller's call.
LEMMA QueueKeeps ==
  ASSUME TypeOK, NEW t \in AllThreads, NEW f \in Functors,
         QueueInLoop(t, f) \/ RunInLoop(t, f)
  PROVE  /\ UNCHANGED <<quit_, looping_>>
         /\ \A u \in AllThreads \ {t} : call'[u] = call[u]
         /\ call'[t] \in {"none", "queued"} \/ call'[t] = call[t]
<1>1. ASSUME QueueInLoop(t, f)
      PROVE  /\ UNCHANGED <<quit_, looping_>>
             /\ \A u \in AllThreads \ {t} : call'[u] = call[u]
             /\ call'[t] = "queued"
  BY <1>1 DEF QueueInLoop, TypeOK
<1> QED
  BY <1>1 DEF RunInLoop

\* A call that returns.
LEMMA ReturnKeeps ==
  ASSUME TypeOK, NEW t \in AllThreads, CallReturns(t)
  PROVE  /\ UNCHANGED <<quit_, looping_>>
         /\ \A u \in AllThreads \ {t} : call'[u] = call[u]
         /\ call'[t] = "none"
BY DEF CallReturns, QueueInLoopWakeup, QuitWakeup, TypeOK

\* The inductive form of DanglingUseOnlyInQuit: where the worker may be for each
\* place of the owner.  Only the owner's Quit() ends the loop, so the worker is
\* past it only when the owner is on its way to the join.
LifeInv ==
  /\ loop_alive <=> worker_pc \in {"callback", "publish", "loop", "looping",
                                   "clear", "unlock", "destruct"}
  /\ loop_ <=> worker_pc \in {"loop", "looping", "clear"}
  /\ owner_pc = "constructed" => worker_pc = "none"
  /\ worker_pc = "none" => owner_pc \in {"constructed", "dtor", "destroyed"}
  /\ worker_pc = "looping" => looping_
  /\ ~self_quit =>
       /\ quit_ /\ worker_pc = "looping" => owner_pc \in {"join", "destroyed"}
       /\ worker_pc \in {"clear", "unlock", "destruct", "exit"} =>
            owner_pc \in {"join", "destroyed"}
       /\ owner_pc \in {"using", "quit"} => worker_pc \in {"loop", "looping"}
       /\ owner_pc = "dtor" => worker_pc \in {"none", "loop", "looping"}
       /\ owner_pc = "destroyed" => worker_pc \in {"none", "exit"}
       /\ call[Owner] = "queued" => owner_pc = "using"
  /\ call[Owner] = "quitting" => owner_pc = "join"

\* LifeInv is inductive.
LEMMA LifeStep ==
  ThreadTypeOK /\ LifeInv /\ [ThreadNext]_allvars => LifeInv'
<1> SUFFICES ASSUME ThreadTypeOK, LifeInv, [ThreadNext]_allvars PROVE LifeInv'
  OBVIOUS
<1>0. /\ Owner \in AllThreads /\ LoopThread \in AllThreads /\ Owner # LoopThread
      /\ TypeOK
  BY OwnerAssumption, LoopThreadAssumption DEF AllThreads, ThreadTypeOK
<1> USE DEF LifeInv
<1>1. CASE OwnerCalls
  <2>1. PICK f \in Functors : QueueInLoop(Owner, f) \/ RunInLoop(Owner, f)
    BY <1>1 DEF OwnerCalls
  <2> QED
    BY <1>0, <1>1, <2>1, QueueKeeps DEF OwnerCalls, evars
<1>2. CASE OwnerCallReturns
  BY <1>0, <1>2, ReturnKeeps DEF OwnerCallReturns, evars
<1>3. CASE DtorQuits
  BY <1>0, <1>3 DEF DtorQuits, Quit, TypeOK
<1>4. CASE InitCallback
  <2>1. PICK f \in Functors :
          RunInLoop(LoopThread, f) \/ QueueInLoop(LoopThread, f)
    BY <1>4 DEF InitCallback
  <2> QED
    BY <1>0, <1>4, <2>1, QueueKeeps DEF InitCallback, evars
<1>5. CASE WorkerCallReturns
  BY <1>0, <1>5, ReturnKeeps DEF WorkerCallReturns, evars
<1>6. CASE WorkerEntersLoop
  BY <1>0, <1>6 DEF WorkerEntersLoop, EnterLoop
<1>7. CASE WorkerLoops
  <2>1. CASE LoopStep
    BY <1>0, <1>7, <2>1, LoopStepKeeps DEF WorkerLoops, Quit
  <2>2. ASSUME NEW f \in Functors,
               QueueInLoop(LoopThread, f) \/ RunInLoop(LoopThread, f)
        PROVE  LifeInv'
    BY <1>0, <1>7, <2>2, QueueKeeps DEF WorkerLoops, Quit
  <2>3. CASE Quit(LoopThread) /\ self_quit' = TRUE
    BY <1>0, <1>7, <2>3 DEF WorkerLoops, Quit
  <2> QED
    BY <1>7, <2>1, <2>2, <2>3 DEF WorkerLoops
<1>8. CASE WorkerPollTimesOut
  BY <1>0, <1>8, LoopStepKeeps DEF WorkerPollTimesOut, PollTimesOut, evars
<1>9. CASE ThreadIoEvent
  BY <1>9 DEF ThreadIoEvent, IoEvent, evars
<1>10. CASE \/ ThreadStart \/ SemWaitReturns \/ CheckLoop \/ SpuriousWakeup
            \/ BeginDtor \/ DtorTestsLoop \/ DtorJoins
  BY <1>10 DEF ThreadStart, SemWaitReturns, CheckLoop, SpuriousWakeup,
               BeginDtor, DtorTestsLoop, DtorJoins, vars
<1>11. CASE \/ WorkerPosts \/ WorkerConstructs \/ InitCallbackReturns
            \/ WorkerPublishes \/ WorkerClears \/ WorkerUnlocks
            \/ WorkerDestructs
  BY <1>11 DEF WorkerPosts, WorkerConstructs, InitCallbackReturns,
               WorkerPublishes, WorkerClears, WorkerUnlocks, WorkerDestructs, vars
<1>12. CASE Terminated \/ UNCHANGED allvars
  BY <1>12 DEF Terminated, allvars, vars, evars
<1> QED
  BY <1>1, <1>2, <1>3, <1>4, <1>5, <1>6, <1>7, <1>8, <1>9, <1>10, <1>11, <1>12
     DEF ThreadNext, OwnerStep, WorkerStep

\* As long as only the owner ends the loop: it uses a destroyed loop nowhere but
\* in the tail of its Quit() (which reads thread_id_ after the store to quit_,
\* event_loop.cc:113), the worker never uses a destroyed EventLoopThread, and the
\* destructor leaves no loop behind, for every number of functors and channels.
THEOREM DanglingUseOnlyInQuitHolds == ThreadSpec => []DanglingUseOnlyInQuit
<1>1. ThreadInit => ThreadTypeOK
  <2>1. ThreadInit => TypeOK
    BY EmptySeq DEF ThreadInit, Init, TypeOK, LoopPcs, Calls, AllThreads
  <2>2. ThreadInit => sem \in 0..1
    BY DEF ThreadInit
  <2> QED
    BY <2>1, <2>2, Zenon DEF ThreadInit, ThreadTypeOK, OwnerPcs, WorkerPcs
<1>2. ThreadInit => LifeInv
  BY OwnerAssumption DEF ThreadInit, Init, LifeInv, AllThreads
<1>3. ThreadTypeOK /\ LifeInv => DanglingUseOnlyInQuit
  <2> SUFFICES ASSUME ThreadTypeOK, LifeInv, ~self_quit
               PROVE  /\ OwnerCallsLiveLoop
                      /\ WorkerUsesLiveObject /\ DtorReapsThread
    BY DEF DanglingUseOnlyInQuit
  <2>1. call[Owner] \in {"none", "queued", "quitting"}
    BY OwnerAssumption DEF ThreadTypeOK, TypeOK, Calls, AllThreads
  <2> QED
    BY <2>1 DEF LifeInv, OwnerCallsLiveLoop, WorkerUsesLiveObject, DtorReapsThread
<1> QED
  BY <1>1, <1>2, <1>3, ThreadTypeStep, LifeStep, PTL DEF ThreadSpec
=============================================================================
