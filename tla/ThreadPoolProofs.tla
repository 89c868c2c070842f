-------------------------- MODULE ThreadPoolProofs --------------------------
(***************************************************************************)
(* Theorems about ThreadPool, for every number of workers, producers and   *)
(* tasks, every nesting of tasks and every size of the queue.              *)
(***************************************************************************)
EXTENDS ThreadPool, FiniteSetTheorems, SequenceTheorems, TLAPS

\* The places a thread can be after a call has returned.
LEMMA ReturnedPlace ==
  ASSUME NEW th, Len(stack[th]) \in Nat
  PROVE  /\ Len(stack[th]) > 1 => Returned(th) = "task"
         /\ ~(Len(stack[th]) > 1) /\ th \in Workers => Returned(th) = "loop"
         /\ ~(Len(stack[th]) > 1) /\ th \notin Workers => Returned(th) = "idle"
         /\ Returned(th) \in {"task", "loop", "idle"}
BY DEF Returned

\* What a notify leaves: the same places, or one thread gone from from to to.
LEMMA NotifiedPlaces ==
  ASSUME NEW P \in [Threads -> Places], NEW Q, NEW from, NEW to \in Places,
         Q \in Notified(P, from, to)
  PROVE  \/ Q = P /\ \A th \in Threads : P[th] # from
         \/ \E x \in Threads : P[x] = from /\ Q = [P EXCEPT ![x] = to]
BY DEF Notified

\* A stack that loses its only task is empty, another is not.
LEMMA TailEmpty ==
  ASSUME NEW s \in Seq(Tasks), s # <<>>
  PROVE  /\ Len(s) \in Nat /\ Len(s) > 0 /\ Head(s) \in Tasks
         /\ Tail(s) \in Seq(Tasks) /\ Len(Tail(s)) = Len(s) - 1
         /\ Tail(s) # <<>> <=> Len(s) > 1
<1>1. Len(s) \in Nat /\ Len(s) > 0
  BY EmptySeq, LenProperties
<1>2. Head(s) \in Tasks /\ Tail(s) \in Seq(Tasks) /\ Len(Tail(s)) = Len(s) - 1
  BY HeadTailProperties
<1>3. Tail(s) # <<>> => Len(Tail(s)) \in Nat \ {0}
  BY <1>2, EmptySeq
<1>4. Tail(s) = <<>> => Len(Tail(s)) = 0
  BY EmptySeq
<1> QED
  BY ONLY <1>1, <1>2, <1>3, <1>4

\* The part of TypeOK that is about places and stacks.
PlacesOK(P, st, ths) ==
  /\ P \in [Threads -> Places] /\ st \in [Threads -> Seq(Tasks)]
  /\ \A x \in Threads : st[x] # <<>> <=> P[x] \in InTask
  /\ \A x \in Producers : P[x] \in InTask \cup {"idle"}
  /\ \A x \in Workers : P[x] # "none" <=> x \in ths

\* TypeOK is PlacesOK and the types of the rest.
RestOK ==
  /\ queue_ \in Seq(Tasks) /\ running_ \in BOOLEAN
  /\ max_queue_size_ \in Nat
  /\ threads_ \subseteq Workers /\ to_start \subseteq Workers
  /\ owner \in {"new", "started", "stopping", "stopped"}
  /\ given \subseteq Tasks
  /\ accepted \in Seq(Tasks) /\ taken \in Nat /\ backlog \in Nat
  /\ to_start \cap threads_ = {}
  /\ running_ <=> owner = "started"

\* The two parts make up TypeOK, in both states of a step.
LEMMA TypeParts ==
  /\ TypeOK <=> PlacesOK(pc, stack, threads_) /\ RestOK
  /\ TypeOK' <=> PlacesOK(pc', stack', threads_') /\ RestOK'
BY DEF TypeOK, Shape, PlacesOK, RestOK

\* A thread that moves within a task, or outside one, keeps PlacesOK.
LEMMA MovePlaces ==
  ASSUME PlacesOK(pc, stack, threads_), NEW th \in Threads, NEW x \in Places,
         x \in InTask <=> pc[th] \in InTask,
         th \in Producers => x \in InTask \cup {"idle"},
         pc[th] # "none", x # "none"
  PROVE  PlacesOK([pc EXCEPT ![th] = x], stack, threads_)
BY DEF PlacesOK, Threads

\* A notify keeps PlacesOK.
LEMMA NotifyPlaces ==
  ASSUME NEW P, NEW st, NEW ths, PlacesOK(P, st, ths), NEW Q,
         \/ Q \in Notified(P, "wait_empty", "take")
         \/ Q \in Notified(P, "wait_full", "put")
  PROVE  PlacesOK(Q, st, ths)
<1>0. P \in [Threads -> Places] /\ {"take", "put"} \subseteq Places
  BY DEF PlacesOK, Places
<1>1. \/ Q = P
      \/ \E x \in Threads : P[x] = "wait_empty" /\ Q = [P EXCEPT ![x] = "take"]
      \/ \E x \in Threads : P[x] = "wait_full" /\ Q = [P EXCEPT ![x] = "put"]
  BY <1>0, NotifiedPlaces
<1>2. CASE Q = P
  BY <1>2
<1>3. ASSUME NEW x \in Threads, P[x] = "wait_empty", Q = [P EXCEPT ![x] = "take"]
      PROVE  PlacesOK(Q, st, ths)
  <2>1. x \notin Producers
    BY <1>3 DEF PlacesOK, InTask
  <2> QED
    BY <1>0, <1>3, <2>1 DEF PlacesOK, InTask, Threads
<1>4. ASSUME NEW x \in Threads, P[x] = "wait_full", Q = [P EXCEPT ![x] = "put"]
      PROVE  PlacesOK(Q, st, ths)
  BY <1>0, <1>4 DEF PlacesOK, InTask, Threads
<1> QED
  BY <1>1, <1>2, <1>3, <1>4

\* A thread that finishes a call keeps PlacesOK.
LEMMA PopPlaces ==
  ASSUME PlacesOK(pc, stack, threads_), NEW th \in Threads,
         pc[th] \in InTask, Pop(th)
  PROVE  PlacesOK([pc EXCEPT ![th] = Returned(th)], stack', threads_)
<1> DEFINE P == [pc EXCEPT ![th] = Returned(th)]
<1>1. stack[th] \in Seq(Tasks) /\ stack[th] # <<>>
  BY DEF PlacesOK
<1>2. /\ Len(stack[th]) \in Nat /\ Tail(stack[th]) \in Seq(Tasks)
      /\ Tail(stack[th]) # <<>> <=> Len(stack[th]) > 1
  BY <1>1, TailEmpty
<1>3. stack' = [stack EXCEPT ![th] = Tail(stack[th])]
  BY DEF Pop
<1>4. Returned(th) \in {"task", "loop", "idle"}
  BY <1>2, ReturnedPlace
<1>5. Returned(th) \in InTask <=> Tail(stack[th]) # <<>>
  BY <1>2, ReturnedPlace DEF InTask
<1>6. P \in [Threads -> Places] /\ stack' \in [Threads -> Seq(Tasks)]
  BY <1>2, <1>3, <1>4 DEF PlacesOK, Places
<1>7. \A x \in Threads : stack'[x] # <<>> <=> P[x] \in InTask
  BY <1>3, <1>5 DEF PlacesOK
<1>8. \A x \in Producers : P[x] \in InTask \cup {"idle"}
  BY <1>2, ReturnedPlace, ThreadsAssumption DEF PlacesOK, InTask, Threads
<1>9. \A x \in Workers : P[x] # "none" <=> x \in threads_
  BY <1>4 DEF PlacesOK, InTask, Threads
<1> QED
  BY <1>6, <1>7, <1>8, <1>9 DEF PlacesOK

\* Every step keeps the type invariant.
LEMMA TypeStep == TypeOK /\ [Next]_vars => TypeOK'
<1> SUFFICES ASSUME TypeOK, [Next]_vars PROVE TypeOK'
  OBVIOUS
<1>0. PlacesOK(pc, stack, threads_) /\ RestOK
  BY TypeParts
<1> SUFFICES PlacesOK(pc', stack', threads_') /\ RestOK'
  BY TypeParts
<1>a. /\ pc \in [Threads -> Places] /\ stack \in [Threads -> Seq(Tasks)]
      /\ \A th \in Producers : pc[th] \in InTask \cup {"idle"}
  BY <1>0 DEF PlacesOK
<1>b. {"call", "put", "wait_full", "task", "loop", "take", "wait_empty", "done"}
        \subseteq Places
  BY DEF Places
<1> USE DEF pool, history
<1>1. ASSUME NEW n \in Sizes, SetMaxQueueSize(n)
      PROVE  PlacesOK(pc', stack', threads_') /\ RestOK'
  BY <1>0, <1>1, SizesAssumption DEF SetMaxQueueSize, RestOK
<1>2. ASSUME NEW ws \in Starts, Start(ws)
      PROVE  PlacesOK(pc', stack', threads_') /\ RestOK'
  BY <1>0, <1>2, StartsAssumption DEF Start, RestOK
<1>3. CASE Stop
  <2>1. PlacesOK(pc', stack', threads_')
    BY <1>0, <1>3, <1>b DEF Stop, NotifiedAll, PlacesOK, InTask, Threads
  <2>2. RestOK'
    BY <1>0, <1>3 DEF Stop, RestOK
  <2> QED
    BY <2>1, <2>2
<1>4. CASE StopReturns
  BY <1>0, <1>4 DEF StopReturns, RestOK
<1>5. ASSUME NEW w \in Workers, StartThread(w)
      PROVE  PlacesOK(pc', stack', threads_') /\ RestOK'
  <2>1. pc[w] = "none" /\ w \notin Producers
    BY <1>0, <1>5, ThreadsAssumption DEF StartThread, PlacesOK, RestOK
  <2>2. PlacesOK(pc', stack', threads_')
    BY <1>0, <1>5, <1>b, <2>1 DEF StartThread, PlacesOK, InTask, Threads
  <2>3. RestOK'
    BY <1>0, <1>5 DEF StartThread, RestOK
  <2> QED
    BY <2>2, <2>3
<1>6. ASSUME NEW th \in Threads, NEW t \in Tasks, Call(th, t)
      PROVE  PlacesOK(pc', stack', threads_') /\ RestOK'
  <2>1. <<t>> \o stack[th] \in Seq(Tasks) /\ <<t>> \o stack[th] # <<>>
    BY <1>a
  <2>2. pc[th] # "none"
    BY <1>6 DEF Call
  <2>3. PlacesOK(pc', stack', threads_')
    BY <1>0, <1>6, <1>b, <2>1, <2>2 DEF Call, PlacesOK, InTask, Threads
  <2>4. RestOK'
    BY <1>0, <1>6 DEF Call, RestOK
  <2> QED
    BY <2>3, <2>4
<1>7. ASSUME NEW th \in Threads,
             \/ RunTask(th) \/ WaitNotFull(th) \/ RunInThread(th)
             \/ WaitNotEmpty(th) \/ TakeNothing(th) \/ SpuriousWakeup(th)
      PROVE  PlacesOK(pc', stack', threads_') /\ RestOK'
  <2>1. /\ UNCHANGED <<pool, owner, stack, given, history>>
        /\ \E x \in Places :
             /\ pc' = [pc EXCEPT ![th] = x]
             /\ x \in InTask <=> pc[th] \in InTask
             /\ th \in Producers => x \in InTask \cup {"idle"}
             /\ pc[th] # "none" /\ x # "none"
    <3>1. CASE RunTask(th)
      BY <3>1, <1>b DEF RunTask, InTask
    <3>2. CASE WaitNotFull(th)
      BY <3>2, <1>b DEF WaitNotFull, InTask
    <3>3. CASE RunInThread(th)
      BY <3>3, <1>a, <1>b DEF RunInThread, InTask
    <3>4. CASE WaitNotEmpty(th)
      BY <3>4, <1>a, <1>b DEF WaitNotEmpty, InTask
    <3>5. CASE TakeNothing(th)
      BY <3>5, <1>a, <1>b DEF TakeNothing, InTask
    <3>6. CASE SpuriousWakeup(th)
      BY <3>6, <1>a, <1>b DEF SpuriousWakeup, InTask
    <3> QED
      BY <1>7, <3>1, <3>2, <3>3, <3>4, <3>5, <3>6
  <2>2. PlacesOK(pc', stack', threads_')
    BY <1>0, <2>1, MovePlaces
  <2>3. RestOK'
    BY <1>0, <2>1 DEF RestOK
  <2> QED
    BY <2>2, <2>3
<1>8. ASSUME NEW th \in Threads, Drop(th) \/ TaskDone(th)
      PROVE  PlacesOK(pc', stack', threads_') /\ RestOK'
  <2>1. pc[th] \in InTask
    BY <1>8 DEF Drop, TaskDone, InTask
  <2>2. PlacesOK(pc', stack', threads_')
    BY <1>0, <1>8, <2>1, PopPlaces DEF Drop, TaskDone
  <2>3. RestOK'
    BY <1>0, <1>8 DEF Drop, TaskDone, RestOK
  <2> QED
    BY <2>2, <2>3
<1>9. ASSUME NEW th \in Threads, Push(th)
      PROVE  PlacesOK(pc', stack', threads_') /\ RestOK'
  <2>1. pc[th] \in InTask
    BY <1>9 DEF Push, InTask
  <2>2. PlacesOK([pc EXCEPT ![th] = Returned(th)], stack', threads_)
    BY <1>0, <1>9, <2>1, PopPlaces DEF Push
  <2>3. PlacesOK(pc', stack', threads_')
    BY <1>9, <2>2, NotifyPlaces DEF Push
  <2>4. Head(stack[th]) \in Tasks
    BY <1>0, <1>a, <2>1, TailEmpty DEF PlacesOK
  <2>5. /\ Append(queue_, Head(stack[th])) \in Seq(Tasks)
        /\ Append(accepted, Head(stack[th])) \in Seq(Tasks)
    BY <1>0, <2>4, AppendProperties DEF RestOK
  <2>6. RestOK'
    BY <1>0, <1>9, <2>5 DEF Push, RestOK
  <2> QED
    BY <2>3, <2>6
<1>10. ASSUME NEW th \in Threads, Take(th)
       PROVE  PlacesOK(pc', stack', threads_') /\ RestOK'
  <2>1. Head(queue_) \in Tasks /\ Tail(queue_) \in Seq(Tasks)
    BY <1>0, <1>10, TailEmpty DEF Take, RestOK
  <2>2. <<Head(queue_)>> \in Seq(Tasks) /\ <<Head(queue_)>> # <<>>
    BY <2>1
  <2>3. th \notin Producers
    BY <1>10, <1>a DEF Take, InTask
  <2>4. PlacesOK([pc EXCEPT ![th] = "task"], stack', threads_)
    BY <1>0, <1>10, <1>b, <2>2, <2>3 DEF Take, PlacesOK, InTask, Threads
  <2>5. PlacesOK(pc', stack', threads_')
    BY <1>10, <2>4, NotifyPlaces DEF Take
  <2>6. RestOK'
    BY <1>0, <1>10, <2>1 DEF Take, RestOK
  <2> QED
    BY <2>5, <2>6
<1>11. CASE UNCHANGED vars
  BY <1>0, <1>11 DEF vars, RestOK
<1> QED
  BY <1>1, <1>2, <1>3, <1>4, <1>5, <1>6, <1>7, <1>8, <1>9, <1>10, <1>11
  DEF Next, ThreadStep

\* Init has the types.
LEMMA TypeInit == Init => TypeOK
<1> SUFFICES ASSUME Init PROVE TypeOK
  OBVIOUS
<1>1. PlacesOK(pc, stack, threads_)
  BY ThreadsAssumption DEF Init, PlacesOK, Places, InTask, Threads
<1>2. queue_ \in Seq(Tasks) /\ accepted \in Seq(Tasks)
  BY EmptySeq DEF Init
<1>3. ~running_ /\ owner # "started"
  BY DEF Init
<1>4. RestOK
  BY <1>2, <1>3 DEF Init, RestOK
<1> QED
  BY <1>1, <1>4, TypeParts

\* The type invariant of the pool: the variables of every reachable state have
\* their types and are tied together as Shape says.
THEOREM TypeCorrect == Spec => []TypeOK
BY TypeInit, TypeStep, PTL DEF Spec

-----------------------------------------------------------------------------
(* The condition variables.                                                 *)

\* Counting: a set that keeps all but one element, and may gain one.
LEMMA CardinalityBounds ==
  ASSUME NEW S, NEW T, IsFiniteSet(S), IsFiniteSet(T), NEW x
  PROVE  /\ Cardinality(S) \in Nat /\ Cardinality(T) \in Nat
         /\ S \subseteq T => Cardinality(S) <= Cardinality(T)
         /\ S \ {x} \subseteq T => Cardinality(S) - 1 <= Cardinality(T)
         /\ S \cup {x} \subseteq T /\ x \notin S =>
              Cardinality(S) + 1 <= Cardinality(T)
<1>1. Cardinality(S) \in Nat /\ Cardinality(T) \in Nat
  BY FS_CardinalityType
<1>2. S \subseteq T => Cardinality(S) <= Cardinality(T)
  BY FS_Subset
<1>3. ASSUME S \ {x} \subseteq T PROVE Cardinality(S) - 1 <= Cardinality(T)
  <2>1. Cardinality(S \ {x}) <= Cardinality(T)
    BY <1>3, FS_Subset
  <2>2. Cardinality(S \ {x}) = IF x \in S THEN Cardinality(S) - 1
                                          ELSE Cardinality(S)
    BY FS_RemoveElement
  <2> QED
    BY <1>1, <2>1, <2>2
<1>4. ASSUME S \cup {x} \subseteq T, x \notin S
      PROVE  Cardinality(S) + 1 <= Cardinality(T)
  <2>1. Cardinality(S \cup {x}) <= Cardinality(T)
    BY <1>4, FS_Subset
  <2>2. Cardinality(S \cup {x}) = Cardinality(S) + 1
    BY <1>4, FS_AddElement
  <2> QED
    BY <2>1, <2>2
<1> QED
  BY <1>1, <1>2, <1>3, <1>4

\* The sets of threads that are counted are finite.
LEMMA AtFinite ==
  ASSUME NEW place
  PROVE  /\ IsFiniteSet(At(place)) /\ IsFiniteSet(At(place)')
         /\ Cardinality(At(place)) \in Nat /\ Cardinality(At(place)') \in Nat
<1>1. At(place) \in SUBSET Threads /\ At(place)' \in SUBSET Threads
  BY DEF At
<1>2. IsFiniteSet(At(place)) /\ IsFiniteSet(At(place)')
  BY <1>1, FS_Subset, ThreadsAssumption
<1> QED
  BY <1>2, FS_CardinalityType

\* What a notify leaves at the places it is not about, and at those it is.
LEMMA NotifyCounts ==
  ASSUME NEW P \in [Threads -> Places], NEW Q, NEW from \in Places,
         NEW to \in Places, from # to, Q \in Notified(P, from, to)
  PROVE  /\ Q \in [Threads -> Places]
         /\ \A place \in Places \ {from, to} :
              {th \in Threads : Q[th] = place} = {th \in Threads : P[th] = place}
         /\ {th \in Threads : Q[th] = from} \subseteq
              {th \in Threads : P[th] = from}
         /\ \/ {th \in Threads : Q[th] = from} = {}
            \/ \E x \in Threads :
                 /\ x \notin {th \in Threads : P[th] = to}
                 /\ {th \in Threads : P[th] = to} \cup {x} \subseteq
                      {th \in Threads : Q[th] = to}
<1>1. CASE Q = P /\ \A th \in Threads : P[th] # from
  BY <1>1
<1>2. ASSUME NEW x \in Threads, P[x] = from, Q = [P EXCEPT ![x] = to]
      PROVE  /\ Q \in [Threads -> Places]
             /\ \A place \in Places \ {from, to} :
                  {th \in Threads : Q[th] = place} =
                    {th \in Threads : P[th] = place}
             /\ {th \in Threads : Q[th] = from} \subseteq
                  {th \in Threads : P[th] = from}
             /\ x \notin {th \in Threads : P[th] = to}
             /\ {th \in Threads : P[th] = to} \cup {x} \subseteq
                  {th \in Threads : Q[th] = to}
  BY <1>2
<1> QED
  BY <1>1, <1>2, NotifiedPlaces

\* NotEmptyInv survives when the queue stays, no worker starts to wait and
\* none that is about to take a task turns away.
LEMMA NotEmptyKept ==
  ASSUME TypeOK, NotEmptyInv, queue_' = queue_,
         At("wait_empty")' \subseteq At("wait_empty"),
         At("take") \subseteq At("take")'
  PROVE  NotEmptyInv'
<1>1. Cardinality(At("take")) <= Cardinality(At("take")')
  BY AtFinite, CardinalityBounds
<1>2. Len(queue_) \in Nat
  BY LenProperties DEF TypeOK
<1>3. Cardinality(At("take")) \in Nat /\ Cardinality(At("take")') \in Nat
  BY AtFinite
<1>4. At("wait_empty")' # {} => Len(queue_') <= Cardinality(At("take")')
  BY <1>1, <1>2, <1>3 DEF NotEmptyInv
<1> QED
  BY <1>4 DEF NotEmptyInv

\* Every step keeps NotEmptyInv.
LEMMA NotEmptyStep == TypeOK /\ NotEmptyInv /\ [Next]_vars => NotEmptyInv'
<1> SUFFICES ASSUME TypeOK, NotEmptyInv, [Next]_vars PROVE NotEmptyInv'
  OBVIOUS
<1>a. pc \in [Threads -> Places] /\ queue_ \in Seq(Tasks) /\ Len(queue_) \in Nat
  BY LenProperties DEF TypeOK
<1>b. Cardinality(At("take")) \in Nat /\ Cardinality(At("take")') \in Nat
  BY AtFinite
<1> USE DEF pool, history
<1>1. CASE UNCHANGED <<queue_, pc>>
  BY <1>1, NotEmptyKept DEF At
<1>2. CASE Stop
  <2>1. At("wait_empty")' = {}
    BY <1>2, <1>a DEF Stop, NotifiedAll, At
  <2> QED
    BY <2>1 DEF NotEmptyInv
<1>3. ASSUME NEW w \in Workers, StartThread(w) PROVE NotEmptyInv'
  <2>1. pc[w] = "none" /\ w \in Threads
    BY <1>3 DEF StartThread, TypeOK, Shape, Threads
  <2> QED
    BY <1>3, <1>a, <2>1, NotEmptyKept DEF StartThread, At
<1>4. ASSUME NEW th \in Threads, NEW t \in Tasks, Call(th, t)
      PROVE  NotEmptyInv'
  BY <1>4, <1>a, NotEmptyKept DEF Call, At
<1>5. ASSUME NEW th \in Threads,
             \/ RunTask(th) \/ WaitNotFull(th) \/ RunInThread(th)
             \/ SpuriousWakeup(th)
      PROVE  NotEmptyInv'
  <2>1. /\ queue_' = queue_
        /\ At("wait_empty")' \subseteq At("wait_empty")
        /\ At("take") \subseteq At("take")'
    BY <1>5, <1>a
    DEF RunTask, WaitNotFull, RunInThread, SpuriousWakeup, At
  <2> QED
    BY <2>1, NotEmptyKept
<1>6. ASSUME NEW th \in Threads, Drop(th) \/ TaskDone(th)
      PROVE  NotEmptyInv'
  <2>1. Returned(th) \in {"task", "loop", "idle"} /\ pc[th] \in {"put", "task"}
    BY <1>6 DEF Drop, TaskDone, Returned
  <2>2. pc' = [pc EXCEPT ![th] = Returned(th)] /\ queue_' = queue_
    BY <1>6 DEF Drop, TaskDone
  <2> QED
    BY <1>a, <2>1, <2>2, NotEmptyKept DEF At
<1>7. ASSUME NEW th \in Threads, WaitNotEmpty(th) \/ TakeNothing(th)
      PROVE  NotEmptyInv'
  <2>1. Len(queue_') = 0
    BY <1>7, EmptySeq DEF WaitNotEmpty, TakeNothing
  <2> QED
    BY <1>b, <2>1 DEF NotEmptyInv
<1>8. ASSUME NEW th \in Threads, Push(th) PROVE NotEmptyInv'
  <2> DEFINE P == [pc EXCEPT ![th] = Returned(th)]
  <2>1. Returned(th) \in {"task", "loop", "idle"} /\ pc[th] = "put"
    BY <1>8 DEF Push, Returned
  <2>2. P \in [Threads -> Places] /\ {"wait_empty", "take"} \subseteq Places
    BY <1>a, <2>1 DEF Places
  <2>3. {x \in Threads : P[x] = "take"} = At("take")
    BY <1>a, <2>1 DEF At
  <2>4. pc' \in Notified(P, "wait_empty", "take")
    BY <1>8 DEF Push
  <2>5. \/ At("wait_empty")' = {}
        \/ \E x \in Threads : x \notin At("take") /\ At("take") \cup {x} \subseteq At("take")'
    <3> HIDE DEF P
    <3>1. \/ {x \in Threads : pc'[x] = "wait_empty"} = {}
          \/ \E x \in Threads :
               /\ x \notin {y \in Threads : P[y] = "take"}
               /\ {y \in Threads : P[y] = "take"} \cup {x} \subseteq
                    {y \in Threads : pc'[y] = "take"}
      BY <2>2, <2>4, NotifyCounts
    <3> QED
      BY <2>3, <3>1 DEF At
  <2>6. Len(queue_') = Len(queue_) + 1
    BY <1>8, <1>a, AppendProperties DEF Push
  <2>7. At("wait_empty")' # {} => At("wait_empty") # {}
    <3> HIDE DEF P
    <3>1. {x \in Threads : pc'[x] = "wait_empty"} \subseteq
            {x \in Threads : P[x] = "wait_empty"}
      BY <2>2, <2>4, NotifyCounts
    <3>2. {x \in Threads : P[x] = "wait_empty"} \subseteq At("wait_empty")
      BY <1>a, <2>1 DEF At, P
    <3> QED
      BY <3>1, <3>2 DEF At
  <2>8. ASSUME At("wait_empty")' # {}
        PROVE  Len(queue_') <= Cardinality(At("take")')
    <3>1. Cardinality(At("take")) + 1 <= Cardinality(At("take")')
      BY <2>5, <2>8, AtFinite, CardinalityBounds
    <3>2. Len(queue_) <= Cardinality(At("take"))
      BY <2>7, <2>8 DEF NotEmptyInv
    <3> QED
      BY <1>a, <1>b, <2>6, <3>1, <3>2
  <2> QED
    BY <2>8 DEF NotEmptyInv
<1>9. ASSUME NEW th \in Threads, Take(th) PROVE NotEmptyInv'
  <2> DEFINE P == [pc EXCEPT ![th] = "task"]
  <2>1. P \in [Threads -> Places] /\ {"wait_full", "put", "wait_empty", "take"} \subseteq Places
    BY <1>a DEF Places
  <2>2. pc' = P \/ pc' \in Notified(P, "wait_full", "put")
    BY <1>9 DEF Take
  <2>3. /\ {x \in Threads : pc'[x] = "wait_empty"} = {x \in Threads : P[x] = "wait_empty"}
        /\ {x \in Threads : pc'[x] = "take"} = {x \in Threads : P[x] = "take"}
    <3> HIDE DEF P
    <3>1. "wait_empty" \in Places \ {"wait_full", "put"} /\ "take" \in Places \ {"wait_full", "put"}
      BY <2>1
    <3> QED
      BY <2>1, <2>2, <3>1, NotifyCounts
  <2>4. At("wait_empty")' \subseteq At("wait_empty") /\ At("take") \ {th} \subseteq At("take")'
    BY <1>a, <2>3 DEF At
  <2>5. Len(queue_') = Len(queue_) - 1
    BY <1>9, <1>a, HeadTailProperties DEF Take
  <2>6. Cardinality(At("take")) - 1 <= Cardinality(At("take")')
    BY <2>4, AtFinite, CardinalityBounds
  <2>7. ASSUME At("wait_empty")' # {}
        PROVE  Len(queue_') <= Cardinality(At("take")')
    <3>1. Len(queue_) <= Cardinality(At("take"))
      BY <2>4, <2>7 DEF NotEmptyInv
    <3> QED
      BY <1>a, <1>b, <2>5, <2>6, <3>1
  <2> QED
    BY <2>7 DEF NotEmptyInv
<1> QED
  BY <1>1, <1>2, <1>3, <1>4, <1>5, <1>6, <1>7, <1>8, <1>9
  DEF Next, ThreadStep, vars, SetMaxQueueSize, Start, StopReturns

\* No wakeup of not_empty_ is lost, for any number of workers and producers.
THEOREM NotEmptyHolds == Spec => []NotEmptyInv
<1>1. Init => NotEmptyInv
  <2>1. Init => At("wait_empty") = {}
    BY DEF Init, At
  <2> QED
    BY <2>1 DEF NotEmptyInv
<1> QED
  BY <1>1, NotEmptyStep, TypeCorrect, PTL DEF Spec

-----------------------------------------------------------------------------
\* Threads wait only while running_ is set.
WaitsInv == ~running_ => At("wait_full") = {} /\ At("wait_empty") = {}

\* How a step that is not a notify changes the waiting threads.
LEMMA NoNewWaiter ==
  ASSUME TypeOK, [Next]_vars,
         ~\E th \in Threads : WaitNotFull(th) \/ WaitNotEmpty(th)
  PROVE  /\ At("wait_full")' \subseteq At("wait_full")
         /\ At("wait_empty")' \subseteq At("wait_empty")
<1> DEFINE G == /\ At("wait_full")' \subseteq At("wait_full")
                /\ At("wait_empty")' \subseteq At("wait_empty")
<1>a. pc \in [Threads -> Places]
  BY DEF TypeOK
<1>b. {"wait_full", "put", "wait_empty", "take"} \subseteq Places
  BY DEF Places
<1> USE DEF pool, history
<1>1. CASE UNCHANGED pc
  BY <1>1 DEF At
<1>2. CASE Stop
  BY <1>2, <1>a DEF Stop, NotifiedAll, At
<1>3. ASSUME NEW w \in Workers, StartThread(w) PROVE G
  BY <1>3, <1>a DEF StartThread, At
<1>4. ASSUME NEW th \in Threads, NEW t \in Tasks, Call(th, t) PROVE G
  BY <1>4, <1>a DEF Call, At
<1>5. ASSUME NEW th \in Threads,
             \/ RunTask(th) \/ RunInThread(th) \/ TakeNothing(th)
             \/ SpuriousWakeup(th)
      PROVE  G
  BY <1>5, <1>a DEF RunTask, RunInThread, TakeNothing, SpuriousWakeup, At
<1>6. ASSUME NEW th \in Threads, Drop(th) \/ TaskDone(th) PROVE G
  <2>1. Returned(th) \in {"task", "loop", "idle"}
    BY DEF Returned
  <2> QED
    BY <1>6, <1>a, <2>1 DEF Drop, TaskDone, At
<1>7. ASSUME NEW P \in [Threads -> Places],
             {th \in Threads : P[th] = "wait_full"} \subseteq At("wait_full"),
             {th \in Threads : P[th] = "wait_empty"} \subseteq At("wait_empty"),
             \/ pc' = P
             \/ pc' \in Notified(P, "wait_full", "put")
             \/ pc' \in Notified(P, "wait_empty", "take")
      PROVE  G
  <2>1. CASE pc' = P
    BY <1>7, <2>1 DEF At
  <2>2. CASE pc' \in Notified(P, "wait_full", "put")
    <3>1. "wait_empty" \in Places \ {"wait_full", "put"}
      BY <1>b
    <3>2. /\ {th \in Threads : pc'[th] = "wait_empty"} =
               {th \in Threads : P[th] = "wait_empty"}
          /\ {th \in Threads : pc'[th] = "wait_full"} \subseteq
               {th \in Threads : P[th] = "wait_full"}
      BY <1>b, <2>2, <3>1, NotifyCounts
    <3> QED
      BY <1>7, <3>2 DEF At
  <2>3. CASE pc' \in Notified(P, "wait_empty", "take")
    <3>1. "wait_full" \in Places \ {"wait_empty", "take"}
      BY <1>b
    <3>2. /\ {th \in Threads : pc'[th] = "wait_full"} =
               {th \in Threads : P[th] = "wait_full"}
          /\ {th \in Threads : pc'[th] = "wait_empty"} \subseteq
               {th \in Threads : P[th] = "wait_empty"}
      BY <1>b, <2>3, <3>1, NotifyCounts
    <3> QED
      BY <1>7, <3>2 DEF At
  <2> QED
    BY <1>7, <2>1, <2>2, <2>3
<1>8. ASSUME NEW th \in Threads, Push(th) PROVE G
  <2>1. Returned(th) \in {"task", "loop", "idle"}
    BY DEF Returned
  <2>2. /\ [pc EXCEPT ![th] = Returned(th)] \in [Threads -> Places]
        /\ {x \in Threads : [pc EXCEPT ![th] = Returned(th)][x] = "wait_full"}
             \subseteq At("wait_full")
        /\ {x \in Threads : [pc EXCEPT ![th] = Returned(th)][x] = "wait_empty"}
             \subseteq At("wait_empty")
    BY <1>a, <2>1 DEF Places, At
  <2>3. pc' \in Notified([pc EXCEPT ![th] = Returned(th)], "wait_empty", "take")
    BY <1>8 DEF Push
  <2> HIDE DEF G
  <2> QED
    BY <1>7, <2>2, <2>3
<1>9. ASSUME NEW th \in Threads, Take(th) PROVE G
  <2>1. /\ [pc EXCEPT ![th] = "task"] \in [Threads -> Places]
        /\ {x \in Threads : [pc EXCEPT ![th] = "task"][x] = "wait_full"}
             \subseteq At("wait_full")
        /\ {x \in Threads : [pc EXCEPT ![th] = "task"][x] = "wait_empty"}
             \subseteq At("wait_empty")
    BY <1>a DEF Places, At
  <2>2. \/ pc' = [pc EXCEPT ![th] = "task"]
        \/ pc' \in Notified([pc EXCEPT ![th] = "task"], "wait_full", "put")
    BY <1>9 DEF Take
  <2> HIDE DEF G
  <2> QED
    BY <1>7, <2>1, <2>2
<1> QED
  BY <1>1, <1>2, <1>3, <1>4, <1>5, <1>6, <1>8, <1>9
  DEF Next, ThreadStep, vars, SetMaxQueueSize, Start, StopReturns

\* Every step keeps WaitsInv.
LEMMA WaitsStep == TypeOK /\ WaitsInv /\ [Next]_vars => WaitsInv'
<1> SUFFICES ASSUME TypeOK, WaitsInv, [Next]_vars, ~running_'
             PROVE  At("wait_full")' = {} /\ At("wait_empty")' = {}
  BY DEF WaitsInv
<1>1. CASE Stop
  BY <1>1 DEF Stop, NotifiedAll, At, TypeOK
<1>2. CASE ~Stop
  <2>1. ~running_
    BY <1>2 DEF Next, ThreadStep, vars, pool, SetMaxQueueSize, Start, StartThread,
       StopReturns, Call, RunTask, WaitNotFull, Drop, Push, RunInThread,
       WaitNotEmpty, TakeNothing, Take, TaskDone, SpuriousWakeup
  <2>2. ~\E th \in Threads : WaitNotFull(th) \/ WaitNotEmpty(th)
    BY <2>1 DEF WaitNotFull, WaitNotEmpty
  <2> QED
    BY <2>1, <2>2, NoNewWaiter DEF WaitsInv
<1> QED
  BY <1>1, <1>2

\* Nobody waits once Stop has cleared running_.
THEOREM WaitsHold == Spec => [](WaitsInv /\ StopWakesAll)
<1>1. Init => WaitsInv
  BY DEF Init, WaitsInv, At
<1>2. TypeOK /\ WaitsInv => StopWakesAll
  BY DEF TypeOK, Shape, WaitsInv, StopWakesAll
<1> QED
  BY <1>1, <1>2, WaitsStep, TypeCorrect, PTL DEF Spec

\* NotFullInv survives when the queue and its size stay, no thread starts to
\* wait for room and none that is about to fill a slot turns away.
LEMMA NotFullKept ==
  ASSUME TypeOK, NotFullInv, queue_' = queue_, max_queue_size_' = max_queue_size_,
         At("wait_full")' \subseteq At("wait_full"),
         At("put") \subseteq At("put")'
  PROVE  NotFullInv'
<1>1. Cardinality(At("put")) <= Cardinality(At("put")')
  BY AtFinite, CardinalityBounds
<1>2. Len(queue_) \in Nat /\ max_queue_size_ \in Nat
  BY LenProperties DEF TypeOK
<1>3. Cardinality(At("put")) \in Nat /\ Cardinality(At("put")') \in Nat
  BY AtFinite
<1>4. At("wait_full")' # {} =>
        max_queue_size_' - Len(queue_') <= Cardinality(At("put")')
  BY <1>1, <1>2, <1>3 DEF NotFullInv
<1> QED
  BY <1>4 DEF NotFullInv

\* Every step keeps NotFullInv.
LEMMA NotFullStep ==
  TypeOK /\ WaitsInv /\ NotFullInv /\ [Next]_vars => NotFullInv'
<1> SUFFICES ASSUME TypeOK, WaitsInv, NotFullInv, [Next]_vars
             PROVE  NotFullInv'
  OBVIOUS
<1>a. /\ pc \in [Threads -> Places] /\ queue_ \in Seq(Tasks)
      /\ Len(queue_) \in Nat /\ max_queue_size_ \in Nat
  BY LenProperties DEF TypeOK
<1>b. Cardinality(At("put")) \in Nat /\ Cardinality(At("put")') \in Nat
  BY AtFinite
<1> USE DEF pool, history
<1>1. CASE UNCHANGED <<queue_, max_queue_size_, pc>>
  BY <1>1, NotFullKept DEF At
<1>2. ASSUME NEW n \in Sizes, SetMaxQueueSize(n) PROVE NotFullInv'
  <2>1. ~running_
    BY <1>2 DEF SetMaxQueueSize, TypeOK, Shape
  <2>2. At("wait_full")' = {}
    BY <1>2, <2>1 DEF SetMaxQueueSize, WaitsInv, At
  <2> QED
    BY <2>2 DEF NotFullInv
<1>3. CASE Stop
  <2>1. At("wait_full")' = {}
    BY <1>3, <1>a DEF Stop, NotifiedAll, At
  <2> QED
    BY <2>1 DEF NotFullInv
<1>4. ASSUME NEW w \in Workers, StartThread(w) PROVE NotFullInv'
  <2>1. pc[w] = "none" /\ w \in Threads
    BY <1>4 DEF StartThread, TypeOK, Shape, Threads
  <2> QED
    BY <1>4, <1>a, <2>1, NotFullKept DEF StartThread, At
<1>5. ASSUME NEW th \in Threads, NEW t \in Tasks, Call(th, t) PROVE NotFullInv'
  BY <1>5, <1>a, NotFullKept DEF Call, At
<1>6. ASSUME NEW th \in Threads,
             \/ RunTask(th) \/ RunInThread(th) \/ WaitNotEmpty(th)
             \/ TakeNothing(th) \/ SpuriousWakeup(th)
      PROVE  NotFullInv'
  <2>1. /\ queue_' = queue_ /\ max_queue_size_' = max_queue_size_
        /\ At("wait_full")' \subseteq At("wait_full")
        /\ At("put") \subseteq At("put")'
    BY <1>6, <1>a
    DEF RunTask, RunInThread, WaitNotEmpty, TakeNothing, SpuriousWakeup, At
  <2> QED
    BY <2>1, NotFullKept
<1>7. ASSUME NEW th \in Threads, TaskDone(th) PROVE NotFullInv'
  <2>1. Returned(th) \in {"task", "loop", "idle"}
    BY DEF Returned
  <2> QED
    BY <1>7, <1>a, <2>1, NotFullKept DEF TaskDone, At
<1>8. ASSUME NEW th \in Threads, Drop(th) PROVE NotFullInv'
  <2>1. At("wait_full") = {} /\ Returned(th) \in {"task", "loop", "idle"}
    BY <1>8 DEF Drop, Returned, WaitsInv
  <2>2. At("wait_full")' = {}
    BY <1>8, <1>a, <2>1 DEF Drop, At
  <2> QED
    BY <2>2 DEF NotFullInv
<1>9. ASSUME NEW th \in Threads, WaitNotFull(th) PROVE NotFullInv'
  <2>1. max_queue_size_' - Len(queue_') <= 0
    BY <1>9, <1>a DEF WaitNotFull, IsFull
  <2>2. max_queue_size_' - Len(queue_') \in Int
    BY <1>9, <1>a DEF WaitNotFull
  <2> QED
    BY <1>b, <2>1, <2>2 DEF NotFullInv
<1>10. ASSUME NEW th \in Threads, Push(th) PROVE NotFullInv'
  <2> DEFINE P == [pc EXCEPT ![th] = Returned(th)]
  <2>1. Returned(th) \in {"task", "loop", "idle"} /\ pc[th] = "put"
    BY <1>10 DEF Push, Returned
  <2>2. /\ P \in [Threads -> Places] /\ {"wait_empty", "take"} \subseteq Places
        /\ "put" \in Places \ {"wait_empty", "take"}
        /\ "wait_full" \in Places \ {"wait_empty", "take"}
    BY <1>a, <2>1 DEF Places
  <2>3. pc' \in Notified(P, "wait_empty", "take")
    BY <1>10 DEF Push
  <2>4. /\ {x \in Threads : pc'[x] = "put"} = {x \in Threads : P[x] = "put"}
        /\ {x \in Threads : pc'[x] = "wait_full"} =
             {x \in Threads : P[x] = "wait_full"}
    <3> HIDE DEF P
    <3> QED
      BY <2>2, <2>3, NotifyCounts
  <2>5. /\ At("wait_full")' \subseteq At("wait_full")
        /\ At("put") \ {th} \subseteq At("put")'
    BY <1>a, <2>1, <2>4 DEF At
  <2>6. Len(queue_') = Len(queue_) + 1 /\ max_queue_size_' = max_queue_size_
    BY <1>10, <1>a, AppendProperties DEF Push
  <2>7. Cardinality(At("put")) - 1 <= Cardinality(At("put")')
    BY <2>5, AtFinite, CardinalityBounds
  <2>8. ASSUME At("wait_full")' # {}
        PROVE  max_queue_size_' - Len(queue_') <= Cardinality(At("put")')
    <3>1. max_queue_size_ - Len(queue_) <= Cardinality(At("put"))
      BY <2>5, <2>8 DEF NotFullInv
    <3> QED
      BY <1>a, <1>b, <2>6, <2>7, <3>1
  <2> QED
    BY <2>8 DEF NotFullInv
<1>11. ASSUME NEW th \in Threads, Take(th) PROVE NotFullInv'
  <2> DEFINE P == [pc EXCEPT ![th] = "task"]
  <2>1. P \in [Threads -> Places] /\ {"wait_full", "put"} \subseteq Places
    BY <1>a DEF Places
  <2>2. /\ {x \in Threads : P[x] = "put"} = At("put")
        /\ {x \in Threads : P[x] = "wait_full"} = At("wait_full")
    BY <1>11, <1>a DEF Take, At
  <2>3. Len(queue_') = Len(queue_) - 1 /\ max_queue_size_' = max_queue_size_
    BY <1>11, <1>a, HeadTailProperties DEF Take
  <2>4. CASE max_queue_size_ = 0
    <3>1. Len(queue_') \in Nat /\ max_queue_size_' = 0
      BY <1>11, <1>a, <2>3, <2>4, HeadTailProperties, LenProperties DEF Take
    <3>2. max_queue_size_' - Len(queue_') <= Cardinality(At("put")')
      BY <1>b, <3>1
    <3> QED
      BY <3>2 DEF NotFullInv
  <2>5. CASE max_queue_size_ > 0
    <3>1. pc' \in Notified(P, "wait_full", "put")
      BY <1>11, <2>5 DEF Take
    <3>2. /\ {x \in Threads : pc'[x] = "wait_full"} \subseteq At("wait_full")
          /\ \/ {x \in Threads : pc'[x] = "wait_full"} = {}
             \/ \E x \in Threads :
                  /\ x \notin At("put")
                  /\ At("put") \cup {x} \subseteq {y \in Threads : pc'[y] = "put"}
      <4> HIDE DEF P
      <4> QED
        BY <2>1, <2>2, <3>1, NotifyCounts
    <3>3. /\ At("wait_full")' \subseteq At("wait_full")
          /\ \/ At("wait_full")' = {}
             \/ \E x \in Threads :
                  x \notin At("put") /\ At("put") \cup {x} \subseteq At("put")'
      BY <3>2 DEF At
    <3>4. ASSUME At("wait_full")' # {}
          PROVE  max_queue_size_' - Len(queue_') <= Cardinality(At("put")')
      <4>1. Cardinality(At("put")) + 1 <= Cardinality(At("put")')
        BY <3>3, <3>4, AtFinite, CardinalityBounds
      <4>2. max_queue_size_ - Len(queue_) <= Cardinality(At("put"))
        BY <3>3, <3>4 DEF NotFullInv
      <4> QED
        BY <1>a, <1>b, <2>3, <4>1, <4>2
    <3> QED
      BY <3>4 DEF NotFullInv
  <2> QED
    BY <1>a, <2>4, <2>5
<1> QED
  BY <1>1, <1>2, <1>3, <1>4, <1>5, <1>6, <1>7, <1>8, <1>9, <1>10, <1>11
  DEF Next, ThreadStep, vars, Start, StopReturns

\* No wakeup of not_full_ is lost, for any size of the queue.
THEOREM NotFullHolds == Spec => []NotFullInv
<1>1. Init => NotFullInv
  <2>1. Init => At("wait_full") = {}
    BY DEF Init, At
  <2> QED
    BY <2>1 DEF NotFullInv
<1> QED
  BY <1>1, NotFullStep, WaitsHold, TypeCorrect, PTL DEF Spec

\* No wakeup of either condition variable is lost: whoever waits has nothing to
\* wait for that another thread is not about to take.
THEOREM NoLostNotifyHolds == Spec => []NoLostNotify
BY NotEmptyHolds, NotFullHolds, PTL DEF NoLostNotify

-----------------------------------------------------------------------------
\* Nothing is queued before Start.
NewIsEmpty == owner = "new" => queue_ = <<>>

\* The steps that change neither the queue nor its history.
LEMMA QueueUnchanged ==
  ASSUME [Next]_vars, ~\E n \in Sizes : SetMaxQueueSize(n),
         ~\E th \in Threads : Push(th) \/ Take(th)
  PROVE  /\ UNCHANGED <<queue_, max_queue_size_, accepted, taken>>
         /\ owner' = "new" => owner = "new"
BY DEF Next, ThreadStep, vars, pool, history, Start, StartThread, Stop,
   StopReturns, Call, RunTask, WaitNotFull, Drop, RunInThread, WaitNotEmpty,
   TakeNothing, TaskDone, SpuriousWakeup

\* Every step keeps Fifo.
LEMMA FifoStep ==
  TypeOK /\ NewIsEmpty /\ Fifo /\ [Next]_vars => NewIsEmpty' /\ Fifo'
<1> SUFFICES ASSUME TypeOK, NewIsEmpty, Fifo, [Next]_vars
             PROVE  NewIsEmpty' /\ Fifo'
  OBVIOUS
<1>a. /\ queue_ \in Seq(Tasks) /\ Len(queue_) \in Nat
      /\ accepted \in Seq(Tasks) /\ Len(accepted) \in Nat
      /\ taken \in Nat /\ max_queue_size_ \in Nat
  BY LenProperties DEF TypeOK
<1>1. CASE ~(\E n \in Sizes : SetMaxQueueSize(n)) /\
           ~\E th \in Threads : Push(th) \/ Take(th)
  <2>1. /\ UNCHANGED <<queue_, max_queue_size_, accepted, taken>>
        /\ owner' = "new" => owner = "new"
    BY <1>1, QueueUnchanged
  <2> QED
    BY <2>1 DEF Fifo, NewIsEmpty
<1>2. ASSUME NEW n \in Sizes, SetMaxQueueSize(n) PROVE NewIsEmpty' /\ Fifo'
  <2>1. queue_ = <<>> /\ UNCHANGED <<queue_, accepted, taken>>
    BY <1>2 DEF SetMaxQueueSize, NewIsEmpty, history
  <2>2. Len(queue_') = 0 /\ max_queue_size_' \in Nat
    BY <1>2, <2>1, EmptySeq, SizesAssumption DEF SetMaxQueueSize
  <2>3. Fifo'
    BY <2>1, <2>2 DEF Fifo
  <2> QED
    BY <2>1, <2>3 DEF NewIsEmpty
<1>3. ASSUME NEW th \in Threads, Push(th) PROVE NewIsEmpty' /\ Fifo'
  <2> DEFINE t == Head(stack[th])
  <2>1. t \in Tasks
    <3>1. stack[th] \in Seq(Tasks) /\ stack[th] # <<>>
      BY <1>3 DEF Push, TypeOK, Shape, InTask
    <3> QED
      BY <3>1, TailEmpty
  <2>2. /\ queue_' = Append(queue_, t) /\ accepted' = Append(accepted, t)
        /\ taken' = taken /\ max_queue_size_' = max_queue_size_
        /\ owner' = owner /\ ~IsFull /\ running_
    BY <1>3 DEF Push
  <2> HIDE DEF t
  <2>3. /\ Len(queue_') = Len(queue_) + 1
        /\ \A i \in 1..Len(queue_) : queue_'[i] = queue_[i]
        /\ queue_'[Len(queue_) + 1] = t
    BY <1>a, <2>1, <2>2, AppendProperties
  <2>4. /\ Len(accepted') = Len(accepted) + 1
        /\ \A i \in 1..Len(accepted) : accepted'[i] = accepted[i]
        /\ accepted'[Len(accepted) + 1] = t
    BY <1>a, <2>1, <2>2, AppendProperties
  <2>5. owner' # "new"
    BY <2>2 DEF TypeOK, Shape
  <2>6. max_queue_size_' > 0 => Len(queue_') <= max_queue_size_'
    BY <1>a, <2>2, <2>3 DEF IsFull
  <2>7. Len(accepted) = taken + Len(queue_)
    BY DEF Fifo
  <2>8. Len(accepted') = taken' + Len(queue_')
    BY <1>a, <2>2, <2>3, <2>4, <2>7
  <2>9. ASSUME NEW i \in 1..Len(queue_') PROVE queue_'[i] = accepted'[taken' + i]
    <3>1. CASE i \in 1..Len(queue_)
      <4>1. queue_[i] = accepted[taken + i]
        BY <3>1 DEF Fifo
      <4>2. taken + i \in 1..Len(accepted)
        BY <1>a, <2>7, <3>1
      <4> QED
        BY <2>2, <2>3, <2>4, <3>1, <4>1, <4>2
    <3>2. CASE i = Len(queue_) + 1
      <4>1. taken + i = Len(accepted) + 1
        BY <1>a, <2>7, <3>2
      <4> QED
        BY <2>2, <2>3, <2>4, <3>2, <4>1
    <3> QED
      BY <1>a, <2>3, <3>1, <3>2
  <2>10. Fifo'
    BY <2>6, <2>8, <2>9 DEF Fifo
  <2> QED
    BY <2>5, <2>10 DEF NewIsEmpty
<1>4. ASSUME NEW th \in Threads, Take(th) PROVE NewIsEmpty' /\ Fifo'
  <2>1. /\ queue_ # <<>> /\ queue_' = Tail(queue_) /\ accepted' = accepted
        /\ taken' = taken + 1 /\ max_queue_size_' = max_queue_size_
        /\ owner' = owner
    BY <1>4 DEF Take
  <2>2. /\ Len(queue_') = Len(queue_) - 1
        /\ \A i \in 1..Len(queue_') : queue_'[i] = queue_[i + 1]
    BY <1>a, <2>1, HeadTailProperties
  <2>3. Len(queue_) > 0
    BY <1>a, <2>1, EmptySeq
  <2>4. Len(accepted) = taken + Len(queue_) /\
        (max_queue_size_ > 0 => Len(queue_) <= max_queue_size_)
    BY DEF Fifo
  <2>5. /\ max_queue_size_' > 0 => Len(queue_') <= max_queue_size_'
        /\ Len(accepted') = taken' + Len(queue_')
    BY <1>a, <2>1, <2>2, <2>4
  <2>6. ASSUME NEW i \in 1..Len(queue_') PROVE queue_'[i] = accepted'[taken' + i]
    <3>1. i + 1 \in 1..Len(queue_) /\ taken + (i + 1) = taken' + i
      BY <1>a, <2>1, <2>2
    <3>2. queue_[i + 1] = accepted[taken + (i + 1)]
      BY <3>1 DEF Fifo
    <3> QED
      BY <2>1, <2>2, <3>1, <3>2
  <2>7. Fifo'
    BY <2>5, <2>6 DEF Fifo
  <2> QED
    BY <2>1, <2>7 DEF NewIsEmpty
<1> QED
  BY <1>1, <1>2, <1>3, <1>4

\* The queue is a bounded FIFO whatever the threads do: RunTask's assert never
\* fails, each accepted task is taken at most once and none overtakes another.
THEOREM FifoHolds == Spec => []Fifo
<1>1. Init => NewIsEmpty /\ Fifo
  BY EmptySeq DEF Init, NewIsEmpty, Fifo
<1> QED
  BY <1>1, FifoStep, TypeCorrect, PTL DEF Spec

-----------------------------------------------------------------------------
\* Workers that are about to take a task are in threads_, and so are no more
\* than it has elements.
TakersBound ==
  /\ IsFiniteSet(threads_) /\ Cardinality(threads_) \in Nat
  /\ Cardinality(At("take")) <= Cardinality(threads_)

\* The bound holds in every state that has the types.
LEMMA TakersAreWorkers == TypeOK => TakersBound
<1> SUFFICES ASSUME TypeOK PROVE TakersBound
  OBVIOUS
<1>1. At("take") \subseteq threads_
  BY DEF TypeOK, Shape, At, InTask, Threads
<1>2. threads_ \in SUBSET Threads
  BY DEF TypeOK, Threads
<1>3. IsFiniteSet(threads_)
  BY <1>2, FS_Subset, ThreadsAssumption
<1> QED
  BY <1>1, <1>3, FS_Subset, FS_CardinalityType DEF TakersBound

\* Once running_ is cleared no worker gets to "take", and only Take counts.
LEMMA StoppedTakers ==
  ASSUME TypeOK, WaitsInv, [Next]_vars, ~running_, ~running_', owner' # "new"
  PROVE  /\ owner # "new" /\ backlog' = backlog /\ threads_ \subseteq threads_'
         /\ \/ taken' = taken /\ At("take")' \subseteq At("take")
            \/ \E th \in At("take") :
                 taken' = taken + 1 /\ At("take")' \cup {th} \subseteq At("take")
                 /\ th \notin At("take")'
<1> DEFINE G == /\ owner # "new" /\ backlog' = backlog /\ threads_ \subseteq threads_'
                /\ \/ taken' = taken /\ At("take")' \subseteq At("take")
                   \/ \E th \in At("take") :
                        taken' = taken + 1 /\ At("take")' \cup {th} \subseteq At("take")
                        /\ th \notin At("take")'
<1>a. /\ pc \in [Threads -> Places] /\ owner # "started"
      /\ At("wait_full") = {} /\ At("wait_empty") = {}
  BY DEF TypeOK, Shape, WaitsInv
<1> USE DEF pool, history
<1>1. CASE UNCHANGED <<pc, owner, taken, backlog, threads_>>
  BY <1>1 DEF At
<1>2. CASE StopReturns
  BY <1>2 DEF StopReturns, At
<1>3. ASSUME NEW w \in Workers, StartThread(w) PROVE G
  BY <1>3, <1>a DEF StartThread, At
<1>4. ASSUME NEW th \in Threads, NEW t \in Tasks, Call(th, t) PROVE G
  BY <1>4, <1>a DEF Call, At
<1>5. ASSUME NEW th \in Threads, RunTask(th) \/ RunInThread(th) \/ TakeNothing(th)
      PROVE  G
  BY <1>5, <1>a DEF RunTask, RunInThread, RunsOn, TakeNothing, At
<1>6. ASSUME NEW th \in Threads, Drop(th) \/ TaskDone(th) PROVE G
  <2>1. Returned(th) \in {"task", "loop", "idle"}
    BY DEF Returned
  <2> QED
    BY <1>6, <1>a, <2>1 DEF Drop, TaskDone, At
<1>7. ASSUME NEW th \in Threads, SpuriousWakeup(th) PROVE G
  BY <1>7, <1>a DEF SpuriousWakeup, At
<1>8. ASSUME NEW th \in Threads, Take(th) PROVE G
  <2> DEFINE P == [pc EXCEPT ![th] = "task"]
  <2>1. /\ P \in [Threads -> Places] /\ {"wait_full", "put"} \subseteq Places
        /\ "take" \in Places \ {"wait_full", "put"}
    BY <1>a DEF Places
  <2>2. pc' = P \/ pc' \in Notified(P, "wait_full", "put")
    BY <1>8 DEF Take
  <2>3. {x \in Threads : pc'[x] = "take"} = {x \in Threads : P[x] = "take"}
    <3> HIDE DEF P
    <3> QED
      BY <2>1, <2>2, NotifyCounts
  <2>4. /\ th \in At("take") /\ th \notin At("take")'
        /\ At("take")' \cup {th} \subseteq At("take")
    BY <1>8, <1>a, <2>3 DEF Take, At
  <2> QED
    BY <1>8, <2>4 DEF Take
<1>9. ~(Stop \/ \E th \in Threads : WaitNotFull(th) \/ WaitNotEmpty(th) \/ Push(th))
  BY <1>a DEF Stop, WaitNotFull, WaitNotEmpty, Push
<1>10. ~(\E n \in Sizes : SetMaxQueueSize(n)) /\ ~(\E ws \in Starts : Start(ws))
  BY DEF SetMaxQueueSize, Start
<1> QED
  BY <1>1, <1>2, <1>3, <1>4, <1>5, <1>6, <1>7, <1>8, <1>9, <1>10
  DEF Next, ThreadStep, vars

\* The inductive form of StopIsPrompt: the workers that are about to take a
\* task count as if they had.
PromptInv ==
  ~running_ /\ owner # "new" =>
    taken - backlog + Cardinality(At("take")) <= Cardinality(threads_)

\* The step of the induction for PromptInv.
LEMMA PromptStep ==
  TypeOK /\ TakersBound' /\ WaitsInv /\ PromptInv /\ [Next]_vars => PromptInv'
<1> SUFFICES ASSUME TypeOK, TakersBound', WaitsInv, PromptInv, [Next]_vars,
                    ~running_', owner' # "new"
             PROVE  taken' - backlog' + Cardinality(At("take")')
                      <= Cardinality(threads_')
  BY DEF PromptInv
<1>a. taken \in Nat /\ backlog \in Nat /\ IsFiniteSet(threads_)
  BY TakersAreWorkers DEF TypeOK, TakersBound
<1>b. /\ IsFiniteSet(threads_') /\ Cardinality(threads_') \in Nat
      /\ Cardinality(At("take")') <= Cardinality(threads_')
  BY DEF TakersBound
<1>c. Cardinality(At("take")) \in Nat /\ Cardinality(At("take")') \in Nat
  BY AtFinite
<1>1. CASE running_
  <2>1. Stop
    BY <1>1 DEF Next, ThreadStep, vars, pool, SetMaxQueueSize, Start, StartThread,
       StopReturns, Call, RunTask, WaitNotFull, Drop, Push, RunInThread,
       WaitNotEmpty, TakeNothing, Take, TaskDone, SpuriousWakeup
  <2>2. taken' = taken /\ backlog' = taken
    BY <2>1 DEF Stop
  <2> QED
    BY <1>a, <1>b, <1>c, <2>2
<1>2. CASE ~running_
  <2>1. /\ owner # "new" /\ backlog' = backlog /\ threads_ \subseteq threads_'
        /\ \/ taken' = taken /\ At("take")' \subseteq At("take")
           \/ \E th \in At("take") :
                taken' = taken + 1 /\ At("take")' \cup {th} \subseteq At("take")
                /\ th \notin At("take")'
    BY <1>2, StoppedTakers
  <2>2. taken - backlog + Cardinality(At("take")) <= Cardinality(threads_)
    BY <1>2, <2>1 DEF PromptInv
  <2>3. /\ Cardinality(threads_) \in Nat
        /\ Cardinality(threads_) <= Cardinality(threads_')
    BY <1>a, <1>b, <2>1, CardinalityBounds
  <2>4. CASE taken' = taken /\ At("take")' \subseteq At("take")
    <3>1. Cardinality(At("take")') <= Cardinality(At("take"))
      BY <2>4, AtFinite, CardinalityBounds
    <3> QED
      BY <1>a, <1>b, <1>c, <2>1, <2>2, <2>3, <2>4, <3>1
  <2>5. ASSUME NEW th \in At("take"), taken' = taken + 1,
               At("take")' \cup {th} \subseteq At("take"), th \notin At("take")'
        PROVE  taken' - backlog' + Cardinality(At("take")')
                 <= Cardinality(threads_')
    <3>1. Cardinality(At("take")') + 1 <= Cardinality(At("take"))
      BY <2>5, AtFinite, CardinalityBounds
    <3> QED
      BY <1>a, <1>b, <1>c, <2>1, <2>2, <2>3, <2>5, <3>1
  <2> QED
    BY <2>1, <2>4, <2>5
<1> QED
  BY <1>1, <1>2

\* After Stop has cleared running_ each worker takes at most one more task,
\* however many are queued.
THEOREM StopIsPromptHolds == Spec => []StopIsPrompt
<1>1. Init => PromptInv
  BY DEF Init, PromptInv
<1>2. TypeOK /\ PromptInv => StopIsPrompt
  <2> SUFFICES ASSUME TypeOK, PromptInv, ~running_, owner # "new"
               PROVE  taken - backlog <= Cardinality(threads_)
    BY DEF StopIsPrompt
  <2>1. taken - backlog + Cardinality(At("take")) <= Cardinality(threads_)
    BY DEF PromptInv
  <2>2. taken \in Nat /\ backlog \in Nat /\ Cardinality(threads_) \in Nat
    BY TakersAreWorkers DEF TypeOK, TakersBound
  <2>3. Cardinality(At("take")) \in Nat
    BY AtFinite
  <2> QED
    BY <2>1, <2>2, <2>3
<1> QED
  BY <1>1, <1>2, PromptStep, TakersAreWorkers, WaitsHold, TypeCorrect, PTL DEF Spec
=============================================================================
