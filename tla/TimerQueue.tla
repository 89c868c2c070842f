----------------------------- MODULE TimerQueue -----------------------------
(***************************************************************************)
(* TimerQueue and Timer (timer/timer_queue.cc, timer/timer.cc) on one       *)
(* EventLoop.                                                              *)
(*                                                                         *)
(* Timers are ordered by wall-clock time (Timestamp::Now()); the timerfd   *)
(* runs on CLOCK_MONOTONIC and is armed relative to now, at least 100 us   *)
(* ahead, which is below a tick of the model: a timer that is due fires    *)
(* without a tick.  HandleRead is cut at the callbacks it makes and at     *)
(* each reading of the clock, so time passes while it runs.                *)
(***************************************************************************)
EXTENDS Integers, Sequences

CONSTANTS
  Timers,       \* Timer objects; each is given to AddTimer at most once
  Interval,     \* interval_ of each; 0: not repeated
  MaxTime,      \* bound: ticks of the monotonic clock
  ClockSteps    \* may the wall clock be set back?

ASSUME IntervalAssumption == Interval \in [Timers -> Nat]
ASSUME MaxTimeAssumption == MaxTime \in Nat
ASSUME ClockStepsAssumption == ClockSteps \in BOOLEAN

VARIABLES
  wall, mono,          \* Timestamp::Now() and CLOCK_MONOTONIC
  deadline, readable,  \* timerfd_: when it fires, and whether it has
  timers_,             \* the set of entries <<expiration, timer>>
  expiration_,         \* Timer::expiration_
  life,                \* of the Timer objects: "none", "alive" or "deleted"
  pending, functors,   \* AddTimerInLoop functors: queued by other threads, and
                       \* the batch DoPendingFunctors has taken
  phase,               \* where the loop thread is
  active,              \* is timerfd_channel_ among the active channels?
  to_run, to_reset     \* HandleRead's vector: still to run, still to reset

clocks == <<wall, mono>>
timerfd == <<deadline, readable>>
timerv == <<timers_, expiration_, life>>
loopv == <<pending, functors, phase, active>>
batch == <<to_run, to_reset>>
vars == <<clocks, timerfd, timerv, loopv, batch>>

Disarmed == -1
Entries == [when : Nat, timer : Timers]

\* "poll"; "handle": the active channels; "run" and "reset": the two loops of
\* HandleRead; "functors": DoPendingFunctors; "dead": after ~TimerQueue.
Phases == {"poll", "handle", "run", "reset", "functors", "dead"}

\* Type invariant.
TypeOK ==
  /\ wall \in Nat /\ mono \in 0..MaxTime
  /\ deadline \in Nat \cup {Disarmed} /\ readable \in BOOLEAN
  /\ timers_ \subseteq Entries
  /\ expiration_ \in [Timers -> Nat]
  /\ life \in [Timers -> {"none", "alive", "deleted"}]
  /\ pending \in Seq(Timers) /\ functors \in Seq(Timers)
  /\ phase \in Phases /\ active \in BOOLEAN
  /\ to_run \subseteq Entries /\ to_reset \subseteq Entries

Init ==
  /\ wall = 0 /\ mono = 0
  /\ deadline = Disarmed /\ readable = FALSE
  /\ timers_ = {}
  /\ expiration_ = [t \in Timers |-> 0]
  /\ life = [t \in Timers |-> "none"]
  /\ pending = <<>> /\ functors = <<>> /\ phase = "poll" /\ active = FALSE
  /\ to_run = {} /\ to_reset = {}

-----------------------------------------------------------------------------
Later(a, b) == IF a < b THEN b ELSE a

\* Mutant: no minimum, and timerfd_settime takes 0 for "disarm".
DeadlineNoMinimum(exp) == IF exp <= wall THEN Disarmed ELSE mono + (exp - wall)

\* The wait of ResetTimerfd, at least 100 us, on the monotonic clock.
Deadline(exp) == mono + Later(exp - wall, 0)

\* ResetTimerfd: timerfd_settime also drops an expiration not yet read.
ResetTimerfd(exp) ==
  /\ deadline' = Deadline(exp)
  /\ readable' = FALSE

\* Is e what timers_.begin() points to in S (one of those with that time)?
IsFirst(e, S) == e \in S /\ \A o \in S : e.when <= o.when

\* Insert's result: is the new time before that of timers_.begin()?
EarliestChanged(when) == \A e \in timers_ : when < e.when

Entry(when, t) == [when |-> when, timer |-> t]

\* AddTimerInLoop for a timer that expires at when.
AddTimerInLoop(t, when) ==
  /\ timers_' = timers_ \cup {Entry(when, t)}
  /\ IF EarliestChanged(when) THEN ResetTimerfd(when) ELSE UNCHANGED timerfd

-----------------------------------------------------------------------------
(* AddTimer: RunAt, RunAfter and RunEvery.                                  *)

\* new Timer(cb, when, interval).
NewTimer(t, when) ==
  /\ life[t] = "none"
  /\ life' = [life EXCEPT ![t] = "alive"]
  /\ expiration_' = [expiration_ EXCEPT ![t] = when]

\* From user code on the loop thread: a channel's callback, a timer's callback
\* or a functor.  RunInLoop calls AddTimerInLoop in place.
AddTimer(t, when) ==
  /\ phase \in {"handle", "run", "functors"}
  /\ NewTimer(t, when)
  /\ AddTimerInLoop(t, when)
  /\ UNCHANGED <<clocks, loopv, batch>>

\* From another thread: RunInLoop queues AddTimerInLoop.
AddTimerFromThread(t, when) ==
  /\ phase # "dead"
  /\ NewTimer(t, when)
  /\ pending' = Append(pending, t)
  /\ UNCHANGED <<clocks, timerfd, timers_, functors, phase, active, batch>>

-----------------------------------------------------------------------------
(* The loop.                                                                *)

\* Poll reports the timerfd when it is readable.
Polled ==
  /\ phase = "poll"
  /\ phase' = "handle" /\ active' = readable
  /\ UNCHANGED <<clocks, timerfd, timerv, pending, functors, batch>>

\* Poll returns because of the timerfd or of a queued functor ...
PollReturns == Polled /\ (readable \/ pending # <<>>)

\* ... or because of another channel or the timeout.
PollReturnsOther == Polled /\ ~readable /\ pending = <<>>

\* Mutant: the expired timers stay in the set.
ExpiredKept == timers_

Expired == {e \in timers_ : e.when <= wall}

\* What GetExpired leaves in timers_.
Unexpired == timers_ \ Expired

\* HandleRead up to its first loop: read the timerfd (it may have been armed
\* again since Poll, then read() finds nothing) and GetExpired.
HandleRead ==
  /\ phase = "handle" /\ active
  /\ active' = FALSE
  /\ readable' = FALSE
  /\ timers_' = Unexpired
  /\ to_run' = Expired /\ to_reset' = Expired
  /\ phase' = IF Expired = {} THEN "handle" ELSE "run"
  /\ UNCHANGED <<clocks, deadline, expiration_, life, pending, functors>>

\* The callback of the next expired timer is called; while phase = "run" user
\* code may add timers.
RunTimer(e) ==
  /\ phase = "run" /\ IsFirst(e, to_run)
  /\ to_run' = to_run \ {e}
  /\ UNCHANGED <<clocks, timerfd, timerv, loopv, to_reset>>

\* All callbacks have returned.
BeginReset ==
  /\ phase = "run" /\ to_run = {}
  /\ phase' = "reset"
  /\ UNCHANGED <<clocks, timerfd, timerv, pending, functors, active, batch>>

\* Timer::Restart(Timestamp::Now())
Restarted(t) == wall + Interval[t]

\* timers_ after the body of Reset's loop for e.
Reinserted(e) ==
  IF Interval[e.timer] > 0
    THEN timers_ \cup {Entry(Restarted(e.timer), e.timer)}
    ELSE timers_

\* Mutant: only a repeated timer has the timerfd armed again.
RearmIfRepeated(e, S) ==
  IF S = {} \/ Interval[e.timer] = 0
    THEN UNCHANGED timerfd
    ELSE \E f \in S : IsFirst(f, S) /\ ResetTimerfd(f.when)

\* The end of the body: if (!timers_.empty()) ResetTimerfd(... begin() ...).
Rearm(e, S) ==
  IF S = {} THEN UNCHANGED timerfd
            ELSE \E f \in S : IsFirst(f, S) /\ ResetTimerfd(f.when)

\* Reset, one turn of its loop.
Reset(e) ==
  /\ phase = "reset" /\ IsFirst(e, to_reset)
  /\ to_reset' = to_reset \ {e}
  /\ phase' = IF to_reset = {e} THEN "handle" ELSE "reset"
  /\ timers_' = Reinserted(e)
  /\ IF Interval[e.timer] > 0
       THEN /\ expiration_' =
                 [expiration_ EXCEPT ![e.timer] = Restarted(e.timer)]
            /\ UNCHANGED life
       ELSE /\ life' = [life EXCEPT ![e.timer] = "deleted"]
            /\ UNCHANGED expiration_
  /\ Rearm(e, timers_')
  /\ UNCHANGED <<clocks, pending, functors, active, to_run>>

\* The active channels are done; DoPendingFunctors swaps ...
BeginFunctors ==
  /\ phase = "handle" /\ ~active
  /\ phase' = "functors"
  /\ functors' = pending /\ pending' = <<>>
  /\ UNCHANGED <<clocks, timerfd, timerv, active, batch>>

\* ... and runs the batch; other functors may add timers in between.
RunFunctor ==
  /\ phase = "functors" /\ functors # <<>>
  /\ functors' = Tail(functors)
  /\ AddTimerInLoop(Head(functors), expiration_[Head(functors)])
  /\ UNCHANGED <<clocks, expiration_, life, pending, phase, active, batch>>

FunctorsDone ==
  /\ phase = "functors" /\ functors = <<>>
  /\ phase' = "poll"
  /\ UNCHANGED <<clocks, timerfd, timerv, pending, functors, active, batch>>

\* ~TimerQueue, after Loop() has returned: timers in the set are deleted.
Destroy ==
  /\ phase = "poll"
  /\ phase' = "dead"
  /\ life' = [t \in Timers |->
                IF \E e \in timers_ : e.timer = t THEN "deleted" ELSE life[t]]
  /\ timers_' = {}
  /\ deadline' = Disarmed /\ readable' = FALSE
  /\ UNCHANGED <<clocks, expiration_, pending, functors, active, batch>>

-----------------------------------------------------------------------------
(* The kernel.                                                              *)

Tick ==
  /\ mono < MaxTime
  /\ mono' = mono + 1 /\ wall' = wall + 1
  /\ UNCHANGED <<timerfd, timerv, loopv, batch>>

\* The wall clock has not been set back.
InStep == wall = mono

\* The wall clock is set back by a tick; once is enough to see what it does.
ClockSetBack ==
  /\ ClockSteps /\ InStep
  /\ wall > 0
  /\ wall' = wall - 1
  /\ UNCHANGED <<mono, timerfd, timerv, loopv, batch>>

TimerfdFires ==
  /\ deadline # Disarmed /\ deadline <= mono
  /\ readable' = TRUE /\ deadline' = Disarmed
  /\ UNCHANGED <<clocks, timerv, loopv, batch>>

-----------------------------------------------------------------------------
LoopStep ==
  \/ PollReturns \/ HandleRead \/ BeginReset \/ BeginFunctors
  \/ \E e \in to_run : RunTimer(e)
  \/ \E e \in to_reset : Reset(e)
  \/ RunFunctor \/ FunctorsDone

Next ==
  \/ \E t \in Timers, when \in 0..MaxTime :
       AddTimer(t, when) \/ AddTimerFromThread(t, when)
  \/ LoopStep \/ PollReturnsOther \/ Destroy
  \/ Tick \/ ClockSetBack \/ TimerfdFires

Spec == Init /\ [][Next]_vars

\* The loop thread is scheduled and callbacks return; time passes and the
\* timerfd fires.  Other events and Poll's timeout may never come.
FairSpec ==
  /\ Spec
  /\ WF_vars(LoopStep) /\ WF_vars(Tick) /\ WF_vars(TimerfdFires)

-----------------------------------------------------------------------------
(* Properties.                                                              *)

\* The timerfd will fire no later than tick d.
ArmedBy(d) == deadline # Disarmed /\ deadline <= d

\* While the loop thread is outside HandleRead, the timerfd is armed for the
\* earliest timer, or has fired and will be handled: AddTimerInLoop's test,
\* the 100 us minimum and Reset together leave no timer to wait for another,
\* as long as the two clocks are in step.
ArmedForEarliest ==
  InStep /\ phase \notin {"run", "reset", "dead"} =>
    \A e \in timers_ : readable \/ active \/ ArmedBy(Later(e.when, mono))

\* The inductive form of ArmedForEarliest: either some timer is due and the
\* timerfd has fired or fires at once, so that HandleRead finds a timer and
\* Reset arms the timerfd again; or it is armed, not before some timer is due
\* (so that firing leads to the first case) and not after any.
ArmedInv ==
  /\ wall <= mono
  /\ active => phase = "handle"
  /\ phase \in {"run", "reset"} => to_reset # {}
  /\ InStep /\ phase \notin {"run", "reset", "dead"} /\ timers_ # {} =>
       \/ /\ \E e \in timers_ : e.when <= mono
          /\ readable \/ active \/ ArmedBy(mono)
       \/ /\ deadline # Disarmed
          /\ \A e \in timers_ : deadline <= Later(e.when, mono)
          /\ \E e \in timers_ : e.when <= deadline

\* The timers on their way from another thread to AddTimerInLoop.
Handed == functors \o pending

\* Who holds the Timer object: the set, HandleRead or a queued functor.
InSet(t)     == \E e \in timers_ : e.timer = t
InHandle(t)  == \E e \in to_reset : e.timer = t
InPending(t) == \E i \in DOMAIN Handed : Handed[i] = t

\* The parts of OneOwner: an entry per timer, with its expiration as the key ...
EntriesUnique ==
  /\ \A e, f \in timers_ \cup to_reset : e.timer = f.timer => e = f
  /\ timers_ \cap to_reset = {} /\ to_run \subseteq to_reset
  /\ \A e \in timers_ \cup to_reset : e.when = expiration_[e.timer]

\* ... a functor per timer ...
HandedUnique == \A i, j \in DOMAIN Handed : Handed[i] = Handed[j] => i = j

\* ... and for each timer that is alive an entry or a functor, not both.
AliveOwned ==
  \A t \in Timers :
    /\ InPending(t) => ~InSet(t) /\ ~InHandle(t)
    /\ life[t] = "alive" <=> InSet(t) \/ InHandle(t) \/ InPending(t)

\* Ownership of the raw Timer pointers: a timer that is alive is in exactly one
\* place and once, no deleted timer is reachable, and the key of an entry is
\* the expiration of its timer (Restart changes it only outside the set).
OneOwner ==
  /\ EntriesUnique /\ HandedUnique /\ AliveOwned
  /\ functors # <<>> => phase = "functors"
  /\ phase # "run" => to_run = {}
  /\ phase \notin {"run", "reset"} => to_reset = {}

\* The callback of t is the next one HandleRead calls.
Running(t) == \E e \in to_run : IsFirst(e, to_run) /\ e.timer = t

\* The entry of t in the set is due.
Due(t) == \E e \in timers_ : e.timer = t /\ e.when <= wall

\* A timer whose time has come has its callback called, without the help of
\* other events, unless the wall clock is set back.
DueTimerRuns ==
  \A t \in Timers : Due(t) ~> (Running(t) \/ phase = "dead" \/ ~InStep)

\* What the comment of RunAt says, "Runs callback at 'time'": no timer stays in
\* the set for ever once its time has come.
RunsAtTime == \A t \in Timers : []<>(~Due(t) \/ phase = "dead")
=============================================================================
