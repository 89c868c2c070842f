-------------------------- MODULE TimerQueueProofs --------------------------
(***************************************************************************)
(* Theorems about TimerQueue, for every set of timers, every choice of     *)
(* intervals and every length of time.                                     *)
(***************************************************************************)
EXTENDS TimerQueue, SequenceTheorems, TLAPS

(* Queues kept as a batch followed by what has been queued since.          *)

\* Appending to the second part of a concatenation appends to the whole.
LEMMA AppendConcat ==
  ASSUME NEW S, NEW s \in Seq(S), NEW t \in Seq(S), NEW e \in S
  PROVE  s \o Append(t, e) = Append(s \o t, e)
<1>1. /\ Append(t, e) = t \o <<e>>
      /\ s \o t \in Seq(S)
      /\ <<e>> \in Seq(S)
  BY AppendIsConcat, ConcatProperties
<1>2. Append(s \o t, e) = (s \o t) \o <<e>>
  BY <1>1, AppendIsConcat
<1> QED
  BY <1>1, <1>2, ConcatAssociative

\* Taking the head of the first part takes the head of the whole.
LEMMA HeadTailConcat ==
  ASSUME NEW S, NEW s \in Seq(S), NEW t \in Seq(S), s # <<>>
  PROVE  /\ s \o t # <<>>
         /\ Head(s \o t) = Head(s)
         /\ Tail(s \o t) = Tail(s) \o t
<1>1. /\ s \o t \in Seq(S)
      /\ Len(s \o t) = Len(s) + Len(t)
      /\ Len(s) \in Nat \ {0} /\ Len(t) \in Nat
      /\ Tail(s) \in Seq(S) /\ Len(Tail(s)) = Len(s) - 1
      /\ \A i \in 1 .. Len(s) + Len(t) :
            (s \o t)[i] = IF i <= Len(s) THEN s[i] ELSE t[i - Len(s)]
      /\ \A i \in 1 .. Len(s) - 1 : Tail(s)[i] = s[i + 1]
  BY ConcatProperties, EmptySeq, HeadTailProperties, LenProperties
<1>2. s \o t # <<>>
  BY <1>1, EmptySeq
<1>3. Head(s \o t) = Head(s)
  BY <1>1
<1>4. /\ Tail(s \o t) \in Seq(S)
      /\ Len(Tail(s \o t)) = Len(s) + Len(t) - 1
      /\ \A i \in 1 .. Len(s) + Len(t) - 1 : Tail(s \o t)[i] = (s \o t)[i + 1]
  BY <1>1, <1>2, HeadTailProperties
<1>5. /\ Tail(s) \o t \in Seq(S)
      /\ Len(Tail(s) \o t) = Len(s) + Len(t) - 1
      /\ \A i \in 1 .. Len(s) + Len(t) - 1 : (Tail(s) \o t)[i] =
            IF i <= Len(s) - 1 THEN Tail(s)[i] ELSE t[i - (Len(s) - 1)]
  BY <1>1, ConcatProperties
<1>6. ASSUME NEW i \in 1 .. Len(s) + Len(t) - 1
      PROVE  Tail(s \o t)[i] = (Tail(s) \o t)[i]
  BY <1>1, <1>4, <1>5
<1>7. Tail(s \o t) = Tail(s) \o t
  BY <1>4, <1>5, <1>6, SeqEqual
<1> QED
  BY <1>2, <1>3, <1>7

\* A queue without repetitions has none after a new element is appended, and
\* holds that element besides its own.
LEMMA AppendUnique ==
  ASSUME NEW S, NEW q \in Seq(S), NEW e \in S,
         \A i, j \in DOMAIN q : q[i] = q[j] => i = j,
         \A i \in DOMAIN q : q[i] # e
  PROVE  /\ \A i, j \in DOMAIN Append(q, e) :
               Append(q, e)[i] = Append(q, e)[j] => i = j
         /\ \A x : (\E i \in DOMAIN Append(q, e) : Append(q, e)[i] = x)
                     <=> (\E i \in DOMAIN q : q[i] = x) \/ x = e
<1>1. Len(q) \in Nat /\ DOMAIN q = 1 .. Len(q)
  BY LenProperties
<1>2. /\ DOMAIN Append(q, e) = 1 .. Len(q) + 1
      /\ \A i \in 1 .. Len(q) : Append(q, e)[i] = q[i]
      /\ Append(q, e)[Len(q) + 1] = e
  BY <1>1, AppendProperties, LenProperties
<1> QED
  BY <1>1, <1>2

\* A queue without repetitions has none after its head is taken, and holds all
\* but the head.
LEMMA TailUnique ==
  ASSUME NEW S, NEW q \in Seq(S), q # <<>>,
         \A i, j \in DOMAIN q : q[i] = q[j] => i = j
  PROVE  /\ \A i, j \in DOMAIN Tail(q) : Tail(q)[i] = Tail(q)[j] => i = j
         /\ \E i \in DOMAIN q : q[i] = Head(q)
         /\ \A x : (\E i \in DOMAIN Tail(q) : Tail(q)[i] = x)
                     <=> (\E i \in DOMAIN q : q[i] = x) /\ x # Head(q)
<1>1. DOMAIN q = 1 .. Len(q)
  BY LenProperties
<1>2. /\ Len(q) \in Nat \ {0}
      /\ Head(q) = q[1]
      /\ DOMAIN Tail(q) = 1 .. Len(q) - 1
      /\ \A i \in 1 .. Len(q) - 1 : Tail(q)[i] = q[i + 1]
  BY <1>1, EmptySeq, HeadTailProperties, LenProperties
<1>3. /\ \A i, j \in DOMAIN Tail(q) : Tail(q)[i] = Tail(q)[j] => i = j
      /\ \E i \in DOMAIN q : q[i] = Head(q)
  BY <1>1, <1>2
<1>4. ASSUME NEW i \in DOMAIN Tail(q)
      PROVE  (\E j \in DOMAIN q : q[j] = Tail(q)[i]) /\ Tail(q)[i] # Head(q)
  BY <1>1, <1>2
<1>5. ASSUME NEW i \in DOMAIN q, q[i] # Head(q)
      PROVE  \E j \in DOMAIN Tail(q) : Tail(q)[j] = q[i]
  <2>1. i - 1 \in 1 .. Len(q) - 1 /\ Tail(q)[i - 1] = q[i]
    BY <1>1, <1>2, <1>5
  <2> QED
    BY <1>2, <2>1
<1> QED
  BY <1>3, <1>4, <1>5

-----------------------------------------------------------------------------
\* Arming the timerfd keeps its type.
LEMMA ResetTimerfdType ==
  ASSUME TypeOK, NEW exp \in Nat, ResetTimerfd(exp)
  PROVE  deadline' \in Nat \cup {Disarmed} /\ readable' \in BOOLEAN
<1>1. wall \in Nat /\ mono \in Nat
  BY MaxTimeAssumption DEF TypeOK
<1>2. deadline' = mono + Later(exp - wall, 0) /\ readable' = FALSE
  BY DEF ResetTimerfd, Deadline
<1>3. Later(exp - wall, 0) \in Nat
  BY <1>1 DEF Later
<1>4. deadline' \in Nat
  BY <1>1, <1>2, <1>3
<1> QED
  BY <1>2, <1>4

\* AddTimerInLoop keeps the types of what it changes.
LEMMA AddTimerInLoopType ==
  ASSUME TypeOK, NEW t \in Timers, NEW when \in Nat, AddTimerInLoop(t, when)
  PROVE  /\ timers_' \subseteq Entries
         /\ deadline' \in Nat \cup {Disarmed} /\ readable' \in BOOLEAN
<1>1. timers_' \subseteq Entries
  BY DEF AddTimerInLoop, TypeOK, Entries, Entry
<1>2. deadline' \in Nat \cup {Disarmed} /\ readable' \in BOOLEAN
  BY ResetTimerfdType DEF AddTimerInLoop, TypeOK, timerfd
<1> QED
  BY <1>1, <1>2

\* Every step keeps the type invariant.
LEMMA TypeStep == TypeOK /\ [Next]_vars => TypeOK'
<1> SUFFICES ASSUME TypeOK, [Next]_vars PROVE TypeOK'
  OBVIOUS
<1> USE IntervalAssumption, MaxTimeAssumption
    DEF TypeOK, Phases, clocks, timerfd, timerv, loopv, batch
<1>1. ASSUME NEW t \in Timers, NEW when \in 0..MaxTime, AddTimer(t, when)
      PROVE  TypeOK'
  BY <1>1, AddTimerInLoopType DEF AddTimer, NewTimer
<1>2. ASSUME NEW t \in Timers, NEW when \in 0..MaxTime,
             AddTimerFromThread(t, when)
      PROVE  TypeOK'
  BY <1>2, AppendProperties DEF AddTimerFromThread, NewTimer
<1>3. CASE Polled
  BY <1>3 DEF Polled
<1>4. CASE HandleRead
  BY <1>4 DEF HandleRead, Unexpired, Expired
<1>5. CASE BeginReset \/ FunctorsDone
  BY <1>5 DEF BeginReset, FunctorsDone
<1>6. ASSUME NEW e \in to_run, RunTimer(e) PROVE TypeOK'
  BY <1>6 DEF RunTimer
<1>7. ASSUME NEW e \in to_reset, Reset(e) PROVE TypeOK'
  <2>1. e \in Entries /\ e.timer \in Timers /\ Restarted(e.timer) \in Nat
    BY DEF Restarted, Entries
  <2>2. timers_' \subseteq Entries
    BY <1>7, <2>1 DEF Reset, Reinserted, Entries, Entry
  <2>3. deadline' \in Nat \cup {Disarmed} /\ readable' \in BOOLEAN
    BY <1>7, <2>2, ResetTimerfdType DEF Reset, Rearm, Entries
  <2>4. expiration_' \in [Timers -> Nat]
        /\ life' \in [Timers -> {"none", "alive", "deleted"}]
    BY <1>7, <2>1 DEF Reset
  <2>5. UNCHANGED <<clocks, pending, functors, active, to_run>>
        /\ to_reset' \subseteq Entries /\ phase' \in Phases
    BY <1>7 DEF Reset
  <2> QED
    BY <2>2, <2>3, <2>4, <2>5
<1>8. CASE BeginFunctors
  BY <1>8, EmptySeq DEF BeginFunctors
<1>9. CASE RunFunctor
  <2>1. /\ Head(functors) \in Timers /\ expiration_[Head(functors)] \in Nat
        /\ Tail(functors) \in Seq(Timers)
    BY <1>9, HeadTailProperties DEF RunFunctor
  <2> QED
    BY <1>9, <2>1, AddTimerInLoopType DEF RunFunctor
<1>10. CASE Destroy
  <2>1. life' \in [Timers -> {"none", "alive", "deleted"}]
    BY <1>10 DEF Destroy
  <2>2. deadline' \in Nat \cup {Disarmed} /\ readable' \in BOOLEAN
    BY <1>10 DEF Destroy
  <2> QED
    BY <1>10, <2>1, <2>2 DEF Destroy
<1>11. CASE Tick \/ ClockSetBack \/ TimerfdFires
  <2>1. CASE Tick
    BY <2>1 DEF Tick
  <2>2. CASE ClockSetBack
    BY <2>2 DEF ClockSetBack
  <2>3. CASE TimerfdFires
    BY <2>3 DEF TimerfdFires
  <2> QED
    BY <1>11, <2>1, <2>2, <2>3
<1>12. CASE UNCHANGED vars
  BY <1>12 DEF vars
<1> QED
  BY <1>1, <1>2, <1>3, <1>4, <1>5, <1>6, <1>7, <1>8, <1>9, <1>10, <1>11, <1>12
  DEF Next, LoopStep, PollReturns, PollReturnsOther

\* The state of the timer queue is always well typed.
THEOREM TypeCorrect == Spec => []TypeOK
<1>1. Init => TypeOK
  <2> SUFFICES ASSUME Init PROVE TypeOK
    OBVIOUS
  <2>1. deadline \in Nat \cup {Disarmed} /\ readable \in BOOLEAN
    BY DEF Init
  <2>2. pending \in Seq(Timers) /\ functors \in Seq(Timers)
    BY EmptySeq DEF Init
  <2>3. /\ expiration_ \in [Timers -> Nat]
        /\ life \in [Timers -> {"none", "alive", "deleted"}]
    BY DEF Init
  <2>4. wall \in Nat /\ mono \in 0..MaxTime
    BY MaxTimeAssumption DEF Init
  <2> QED
    BY <2>1, <2>2, <2>3, <2>4 DEF Init, TypeOK, Phases
<1> QED
  BY <1>1, TypeStep, PTL DEF Spec

-----------------------------------------------------------------------------
\* What arming the timerfd for an entry that no other precedes establishes,
\* when the clocks are in step.
LEMMA ArmedForFirst ==
  ASSUME TypeOK, InStep, NEW S \in SUBSET Entries, NEW f \in S,
         \A o \in S : f.when <= o.when, ResetTimerfd(f.when), UNCHANGED clocks
  PROVE  /\ deadline' # Disarmed
         /\ \A o \in S : deadline' <= Later(o.when, mono')
         /\ f.when <= deadline'
BY MaxTimeAssumption DEF TypeOK, InStep, Entries, ResetTimerfd, Deadline, Later,
   Disarmed, clocks

\* AddTimerInLoop keeps the timerfd armed for the earliest timer.
LEMMA ArmedByAdd ==
  ASSUME TypeOK, ArmedInv, NEW t \in Timers, NEW when \in Nat,
         AddTimerInLoop(t, when), UNCHANGED <<clocks, phase, active, to_reset>>
  PROVE  ArmedInv'
<1> USE MaxTimeAssumption DEF TypeOK, clocks
<1>1. CASE EarliestChanged(when) /\ InStep
  <2>1. timers_' \in SUBSET Entries /\ Entry(when, t) \in timers_'
    BY DEF AddTimerInLoop, Entry, Entries
  <2>2. \A o \in timers_' : Entry(when, t).when <= o.when
    BY <1>1 DEF AddTimerInLoop, Entry, EarliestChanged, Entries
  <2>3. ResetTimerfd(Entry(when, t).when)
    BY <1>1 DEF AddTimerInLoop, Entry
  <2>4. /\ deadline' # Disarmed
        /\ \A o \in timers_' : deadline' <= Later(o.when, mono')
        /\ Entry(when, t).when <= deadline'
    BY <1>1, <2>1, <2>2, <2>3, ArmedForFirst
  <2> QED
    BY <2>1, <2>4 DEF ArmedInv, InStep
<1>2. CASE ~EarliestChanged(when) /\ InStep
  <2>1. UNCHANGED timerfd /\ timers_' = timers_ \cup {Entry(when, t)}
    BY <1>2 DEF AddTimerInLoop
  <2>2. PICK e \in timers_ : e.when <= when
    BY <1>2 DEF EarliestChanged, Entries
  <2>3. deadline <= Later(e.when, mono) => deadline <= Later(when, mono)
    BY <2>2 DEF Later, Entries, Disarmed
  <2>4. Entry(when, t).when = when
    BY DEF Entry
  <2> QED
    BY <1>2, <2>1, <2>2, <2>3, <2>4 DEF ArmedInv, InStep, ArmedBy, timerfd
<1>3. CASE ~InStep
  BY <1>3 DEF ArmedInv, InStep
<1> QED
  BY <1>1, <1>2, <1>3

\* The inductive step of the argument that no timer waits for another.
LEMMA ArmedStep == TypeOK /\ ArmedInv /\ [Next]_vars => ArmedInv'
<1> SUFFICES ASSUME TypeOK, ArmedInv, [Next]_vars PROVE ArmedInv'
  OBVIOUS
<1> USE MaxTimeAssumption DEF TypeOK
<1>1. ASSUME NEW t \in Timers, NEW when \in 0..MaxTime, AddTimer(t, when)
      PROVE  ArmedInv'
  BY <1>1, ArmedByAdd DEF AddTimer, loopv, batch
<1>2. ASSUME NEW t \in Timers, NEW when \in 0..MaxTime,
             AddTimerFromThread(t, when)
      PROVE  ArmedInv'
  BY <1>2 DEF AddTimerFromThread, ArmedInv, InStep, ArmedBy, clocks, timerfd,
              batch
<1>3. CASE Polled
  BY <1>3 DEF Polled, ArmedInv, InStep, ArmedBy, clocks, timerfd, timerv, batch
<1>4. CASE HandleRead
  <2>1. CASE Expired = {}
    BY <1>4, <2>1 DEF HandleRead, Expired, Unexpired, ArmedInv, InStep, ArmedBy,
                      clocks
  <2>2. CASE Expired # {}
    BY <1>4, <2>2 DEF HandleRead, ArmedInv, InStep, clocks
  <2> QED
    BY <2>1, <2>2
<1>5. CASE BeginReset \/ FunctorsDone \/ BeginFunctors
  BY <1>5 DEF BeginReset, FunctorsDone, BeginFunctors, ArmedInv, InStep,
              ArmedBy, clocks, timerfd, timerv, batch
<1>6. ASSUME NEW e \in to_run, RunTimer(e) PROVE ArmedInv'
  BY <1>6 DEF RunTimer, ArmedInv, InStep, ArmedBy, clocks, timerfd, timerv, loopv
<1>7. ASSUME NEW e \in to_reset, Reset(e) PROVE ArmedInv'
  <2>1. /\ ~active /\ ~active' /\ UNCHANGED clocks
        /\ phase' \in {"handle", "reset"}
        /\ phase' = "reset" => to_reset' # {}
    BY <1>7 DEF Reset, ArmedInv
  <2>2. TypeOK'
    BY TypeStep
  <2>3. CASE timers_' = {} \/ ~InStep
    BY <2>1, <2>3 DEF ArmedInv, InStep, clocks
  <2>4. CASE timers_' # {} /\ InStep
    <3>1. PICK f \in timers_' : IsFirst(f, timers_') /\ ResetTimerfd(f.when)
      BY <1>7, <2>4 DEF Reset, Rearm
    <3>2. timers_' \in SUBSET Entries
      BY <2>2
    <3>3. /\ deadline' # Disarmed
          /\ \A o \in timers_' : deadline' <= Later(o.when, mono')
          /\ f.when <= deadline'
      BY <2>1, <2>4, <3>1, <3>2, ArmedForFirst DEF IsFirst
    <3> QED
      BY <2>1, <3>3 DEF ArmedInv, InStep, clocks
  <2> QED
    BY <2>3, <2>4
<1>8. CASE RunFunctor
  <2>1. Head(functors) \in Timers /\ expiration_[Head(functors)] \in Nat
    BY <1>8, HeadTailProperties DEF RunFunctor
  <2> QED
    BY <1>8, <2>1, ArmedByAdd DEF RunFunctor, batch
<1>9. CASE Destroy
  BY <1>9 DEF Destroy, ArmedInv, InStep, clocks, batch
<1>10. CASE Tick
  BY <1>10 DEF Tick, ArmedInv, InStep, ArmedBy, Later, Disarmed, timerfd, timerv,
               loopv, batch, Entries
<1>11. CASE ClockSetBack
  BY <1>11 DEF ClockSetBack, ArmedInv, InStep, timerfd, timerv, loopv, batch
<1>12. CASE TimerfdFires
  BY <1>12 DEF TimerfdFires, ArmedInv, InStep, ArmedBy, Disarmed, Entries, clocks,
               timerv, loopv, batch
<1>13. CASE UNCHANGED vars
  BY <1>13 DEF vars, ArmedInv, InStep, ArmedBy, clocks, timerfd, timerv, loopv,
               batch
<1> QED
  BY <1>1, <1>2, <1>3, <1>4, <1>5, <1>6, <1>7, <1>8, <1>9, <1>10, <1>11, <1>12,
     <1>13
  DEF Next, LoopStep, PollReturns, PollReturnsOther

\* The arming invariant: HandleRead is never called in vain while it would have
\* to arm the timerfd again, and no timer is left without a deadline.
THEOREM ArmedInvHolds == Spec => []ArmedInv
<1>1. Init => ArmedInv
  BY DEF Init, ArmedInv
<1> QED
  BY <1>1, TypeCorrect, TypeStep, ArmedStep, PTL DEF Spec

\* As long as the clocks are in step the timerfd is armed for the earliest timer
\* whenever the loop thread is outside HandleRead.
THEOREM ArmedForEarliestHolds == Spec => []ArmedForEarliest
<1>1. TypeOK /\ ArmedInv => ArmedForEarliest
  BY MaxTimeAssumption
  DEF TypeOK, ArmedInv, ArmedForEarliest, ArmedBy, Later, InStep, Disarmed,
      Entries
<1> QED
  BY <1>1, TypeCorrect, ArmedInvHolds, PTL

-----------------------------------------------------------------------------
\* The functors on their way: a sequence of timers.
LEMMA HandedType ==
  ASSUME TypeOK
  PROVE  /\ Handed \in Seq(Timers) /\ Len(Handed) \in Nat
         /\ DOMAIN Handed = 1 .. Len(Handed)
<1>1. Handed \in Seq(Timers)
  BY ConcatProperties DEF TypeOK, Handed
<1> QED
  BY <1>1, LenProperties

\* What a step that leaves the functors, or moves them all, leaves true.
LEMMA HandedSame ==
  ASSUME HandedUnique, Handed' = Handed
  PROVE  HandedUnique' /\ \A t \in Timers : InPending(t)' <=> InPending(t)
BY DEF HandedUnique, InPending

\* AddTimerFromThread appends a functor for a new timer.
LEMMA HandedAppend ==
  ASSUME TypeOK, HandedUnique, NEW t \in Timers, ~InPending(t),
         Handed' = Append(Handed, t)
  PROVE  /\ HandedUnique'
         /\ \A u \in Timers : InPending(u)' <=> InPending(u) \/ u = t
BY HandedType, AppendUnique DEF HandedUnique, InPending

\* RunFunctor takes the first functor.
LEMMA HandedTail ==
  ASSUME TypeOK, HandedUnique, Handed # <<>>, Handed' = Tail(Handed)
  PROVE  /\ HandedUnique' /\ InPending(Head(Handed))
         /\ \A u \in Timers : InPending(u)' <=> InPending(u) /\ u # Head(Handed)
BY HandedType, TailUnique DEF HandedUnique, InPending

\* The inductive step of the ownership argument.
LEMMA OwnerStep == TypeOK /\ OneOwner /\ [Next]_vars => OneOwner'
<1> SUFFICES ASSUME TypeOK, OneOwner, [Next]_vars PROVE OneOwner'
  OBVIOUS
<1> USE DEF TypeOK, OneOwner
<1>1. ASSUME NEW t \in Timers, NEW when \in 0..MaxTime, AddTimer(t, when)
      PROVE  OneOwner'
  <2>1. /\ timers_' = timers_ \cup {Entry(when, t)}
        /\ expiration_' = [expiration_ EXCEPT ![t] = when]
        /\ life' = [life EXCEPT ![t] = "alive"] /\ life[t] = "none"
        /\ UNCHANGED <<to_run, to_reset, phase, functors, pending>>
        /\ Handed' = Handed
    BY <1>1 DEF AddTimer, NewTimer, AddTimerInLoop, loopv, batch, Handed
  <2>2. ~InSet(t) /\ ~InHandle(t) /\ ~InPending(t)
    BY <2>1 DEF AliveOwned
  <2>3. Entry(when, t).when = when /\ Entry(when, t).timer = t
    BY DEF Entry
  <2>4. EntriesUnique'
    BY <2>1, <2>2, <2>3 DEF EntriesUnique, InSet, InHandle, Entries
  <2>5. HandedUnique' /\ \A u \in Timers : InPending(u)' <=> InPending(u)
    BY <2>1, HandedSame
  <2>6. \A u \in Timers : /\ InSet(u)' <=> InSet(u) \/ u = t
                          /\ InHandle(u)' <=> InHandle(u)
    BY <2>1, <2>3 DEF InSet, InHandle
  <2>7. AliveOwned'
    BY <2>1, <2>2, <2>5, <2>6 DEF AliveOwned
  <2> QED
    BY <2>1, <2>4, <2>5, <2>7
<1>2. ASSUME NEW t \in Timers, NEW when \in 0..MaxTime,
             AddTimerFromThread(t, when)
      PROVE  OneOwner'
  <2>1. /\ pending' = Append(pending, t)
        /\ expiration_' = [expiration_ EXCEPT ![t] = when]
        /\ life' = [life EXCEPT ![t] = "alive"] /\ life[t] = "none"
        /\ UNCHANGED <<timers_, to_run, to_reset, phase, functors>>
    BY <1>2 DEF AddTimerFromThread, NewTimer, batch
  <2>2. ~InSet(t) /\ ~InHandle(t) /\ ~InPending(t)
    BY <2>1 DEF AliveOwned
  <2>3. Handed' = Append(Handed, t)
    <3>1. functors \in Seq(Timers) /\ pending \in Seq(Timers)
      OBVIOUS
    <3>2. functors \o Append(pending, t) = Append(functors \o pending, t)
      BY ONLY <3>1, AppendConcat, t \in Timers
    <3> QED
      BY ONLY <2>1, <3>2 DEF Handed
  <2>4. EntriesUnique'
    BY <2>1, <2>2 DEF EntriesUnique, InSet, InHandle, Entries
  <2>5. HandedUnique' /\ \A u \in Timers : InPending(u)' <=> InPending(u) \/ u = t
    BY <2>2, <2>3, HandedAppend
  <2>6. \A u \in Timers : /\ InSet(u)' <=> InSet(u)
                          /\ InHandle(u)' <=> InHandle(u)
    BY <2>1 DEF InSet, InHandle
  <2>7. AliveOwned'
    BY <2>1, <2>2, <2>5, <2>6 DEF AliveOwned
  <2> QED
    BY <2>1, <2>4, <2>5, <2>7
<1>3. ASSUME UNCHANGED <<timers_, expiration_, life, to_reset>>,
             to_run' \subseteq to_run, Handed' = Handed,
             functors' # <<>> => phase' = "functors",
             phase' # "run" => to_run' = {},
             phase' \notin {"run", "reset"} => to_reset' = {}
      PROVE  OneOwner'
  <2>1. EntriesUnique'
    BY <1>3 DEF EntriesUnique
  <2>2. HandedUnique' /\ \A u \in Timers : InPending(u)' <=> InPending(u)
    BY <1>3, HandedSame
  <2>3. AliveOwned'
    BY <1>3, <2>2 DEF AliveOwned, InSet, InHandle
  <2> QED
    BY <1>3, <2>1, <2>2, <2>3
<1>4. CASE Polled \/ BeginReset \/ FunctorsDone \/ Tick \/ ClockSetBack
           \/ TimerfdFires \/ UNCHANGED vars
  BY <1>3, <1>4 DEF Polled, BeginReset, FunctorsDone, Tick, ClockSetBack,
     TimerfdFires, vars, timerv, loopv, batch, Handed
<1>5. ASSUME NEW e \in to_run, RunTimer(e) PROVE OneOwner'
  BY <1>3, <1>5 DEF RunTimer, timerv, loopv, Handed
<1>6. CASE BeginFunctors
  <2>1. functors = <<>>
    BY <1>6 DEF BeginFunctors
  <2>2. Handed' = Handed
    BY <1>6, <2>1, ConcatEmptySeq DEF BeginFunctors, Handed
  <2> QED
    BY <1>3, <1>6, <2>2 DEF BeginFunctors, timerv, batch
<1>7. CASE HandleRead
  <2>1. /\ to_reset = {} /\ timers_' = timers_ \ Expired
        /\ to_run' = Expired /\ to_reset' = Expired /\ Expired \subseteq timers_
        /\ UNCHANGED <<expiration_, life, pending, functors>>
        /\ functors = <<>> /\ Handed' = Handed
        /\ phase' # "run" => to_run' = {}
        /\ phase' \notin {"run", "reset"} => to_reset' = {}
    BY <1>7 DEF HandleRead, Unexpired, Expired, Handed
  <2>2. EntriesUnique'
    BY <2>1 DEF EntriesUnique
  <2>3. HandedUnique' /\ \A u \in Timers : InPending(u)' <=> InPending(u)
    BY <2>1, HandedSame
  <2>4. \A u \in Timers : InSet(u)' \/ InHandle(u)' <=> InSet(u) \/ InHandle(u)
    BY <2>1 DEF InSet, InHandle
  <2>5. AliveOwned'
    BY <2>1, <2>3, <2>4 DEF AliveOwned
  <2> QED
    BY <2>1, <2>2, <2>3, <2>5
<1>8. ASSUME NEW e \in to_reset, Reset(e) PROVE OneOwner'
  <2> DEFINE new == Entry(Restarted(e.timer), e.timer)
  <2>1. /\ to_reset' = to_reset \ {e} /\ to_run = {} /\ to_run' = {}
        /\ functors = <<>> /\ functors' = <<>> /\ Handed' = Handed
        /\ phase' \notin {"run", "reset"} => to_reset' = {}
    BY <1>8 DEF Reset, Handed
  <2>2. HandedUnique' /\ \A u \in Timers : InPending(u)' <=> InPending(u)
    BY <2>1, HandedSame
  <2>3. /\ e.timer \in Timers /\ InHandle(e.timer) /\ ~InSet(e.timer)
        /\ \A f \in to_reset : f.timer = e.timer => f = e
    BY DEF Entries, InHandle, InSet, EntriesUnique
  <2>4. \A u \in Timers : InHandle(u)' <=> InHandle(u) /\ u # e.timer
    BY <2>1, <2>3 DEF InHandle
  <2>5. CASE Interval[e.timer] > 0
    <3>1. /\ timers_' = timers_ \cup {new}
          /\ expiration_' = [expiration_ EXCEPT ![e.timer] = new.when]
          /\ UNCHANGED life /\ new.timer = e.timer
      BY <1>8, <2>5 DEF Reset, Reinserted, Entry
    <3> HIDE DEF new
    <3>2. EntriesUnique'
      BY <2>1, <2>3, <3>1 DEF EntriesUnique, InSet, InHandle, Entries
    <3>3. \A u \in Timers : InSet(u)' <=> InSet(u) \/ u = e.timer
      BY <3>1 DEF InSet
    <3>4. AliveOwned'
      BY <2>2, <2>3, <2>4, <3>1, <3>3 DEF AliveOwned
    <3> QED
      BY <2>1, <2>2, <3>2, <3>4
  <2>6. CASE ~(Interval[e.timer] > 0)
    <3>1. /\ timers_' = timers_ /\ UNCHANGED expiration_
          /\ life' = [life EXCEPT ![e.timer] = "deleted"]
      BY <1>8, <2>6 DEF Reset, Reinserted
    <3>2. EntriesUnique'
      BY <2>1, <3>1 DEF EntriesUnique
    <3>3. \A u \in Timers : InSet(u)' <=> InSet(u)
      BY <3>1 DEF InSet
    <3>4. AliveOwned'
      BY <2>2, <2>3, <2>4, <3>1, <3>3 DEF AliveOwned
    <3> QED
      BY <2>1, <2>2, <3>2, <3>4
  <2> QED
    BY <2>5, <2>6
<1>9. CASE RunFunctor
  <2> DEFINE t == Head(functors)  new == Entry(expiration_[t], t)
  <2>1. /\ functors # <<>> /\ functors' = Tail(functors)
        /\ timers_' = timers_ \cup {new}
        /\ new.timer = t /\ new.when = expiration_[t]
        /\ UNCHANGED <<expiration_, life, pending, phase, to_run, to_reset>>
        /\ phase = "functors"
    BY <1>9 DEF RunFunctor, AddTimerInLoop, Entry, batch
  <2>2. /\ Handed # <<>> /\ Handed' = Tail(Handed) /\ Head(Handed) = t
        /\ t \in Timers
    <3>1. functors \in Seq(Timers) /\ pending \in Seq(Timers)
      OBVIOUS
    <3>2. /\ functors \o pending # <<>>
          /\ Head(functors \o pending) = Head(functors)
          /\ Tail(functors \o pending) = Tail(functors) \o pending
          /\ Head(functors) \in Timers
      BY ONLY <2>1, <3>1, HeadTailConcat, HeadTailProperties
    <3> QED
      BY ONLY <2>1, <3>2 DEF Handed
  <2> HIDE DEF t, new
  <2>3. /\ HandedUnique' /\ InPending(t)
        /\ \A u \in Timers : InPending(u)' <=> InPending(u) /\ u # t
    BY <2>2, HandedTail
  <2>4. ~InSet(t) /\ ~InHandle(t)
    BY <2>2, <2>3 DEF AliveOwned
  <2>5. EntriesUnique'
    BY <2>1, <2>4 DEF EntriesUnique, InSet, InHandle
  <2>6. \A u \in Timers : /\ InSet(u)' <=> InSet(u) \/ u = t
                          /\ InHandle(u)' <=> InHandle(u)
    BY <2>1 DEF InSet, InHandle
  <2>7. AliveOwned'
    BY <2>1, <2>2, <2>3, <2>4, <2>6 DEF AliveOwned
  <2> QED
    BY <2>1, <2>3, <2>5, <2>7
<1>10. CASE Destroy
  <2>1. /\ to_reset = {} /\ to_run = {} /\ functors = <<>>
        /\ UNCHANGED <<to_reset, to_run, functors, expiration_>> /\ Handed' = Handed
        /\ timers_' = {} /\ phase' = "dead"
        /\ life' = [u \in Timers |-> IF InSet(u) THEN "deleted" ELSE life[u]]
    BY <1>10 DEF Destroy, batch, Handed, InSet
  <2>2. HandedUnique' /\ \A u \in Timers : InPending(u)' <=> InPending(u)
    BY <2>1, HandedSame
  <2>3. \A u \in Timers : ~InSet(u)' /\ ~InHandle(u)' /\ ~InHandle(u)
    BY <2>1 DEF InSet, InHandle
  <2>4. AliveOwned'
    BY <2>1, <2>2, <2>3 DEF AliveOwned
  <2> QED
    BY <2>1, <2>2, <2>4 DEF EntriesUnique
<1> QED
  BY <1>1, <1>2, <1>4, <1>5, <1>6, <1>7, <1>8, <1>9, <1>10
  DEF Next, LoopStep, PollReturns, PollReturnsOther

\* Every Timer object has one owner, and HandleRead and AddTimerInLoop never
\* meet a deleted one.
THEOREM OneOwnerHolds == Spec => []OneOwner
<1>1. Init => OneOwner
  <2> SUFFICES ASSUME Init PROVE OneOwner
    OBVIOUS
  <2>1. Handed = <<>>
    BY ConcatEmptySeq, EmptySeq DEF Init, Handed
  <2>2. HandedUnique /\ \A t \in Timers : ~InPending(t)
    BY <2>1 DEF HandedUnique, InPending
  <2> QED
    BY <2>2 DEF Init, OneOwner, EntriesUnique, AliveOwned, InSet, InHandle
<1> QED
  BY <1>1, TypeCorrect, TypeStep, OwnerStep, PTL DEF Spec
=============================================================================
