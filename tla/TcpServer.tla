------------------------------ MODULE TcpServer ------------------------------
(***************************************************************************)
(* TcpServer (tcp_connection/tcp_server.{h,cc}) with its Acceptor          *)
(* (net/acceptor.{h,cc}) and EventLoopThreadPool                           *)
(* (net/event_loop_thread_pool.{h,cc}): several connections on several     *)
(* loops, from Start() to the destructor.                                  *)
(*                                                                         *)
(* Base is the loop the server is made with, and the thread that runs it;  *)
(* 1, 2, ... are the loops of the pool.  A loop is the FIFO of functors of *)
(* FunctorQueue, and runs events between functors.  A connection is the    *)
(* part of TcpConnection's life the server takes part in: established,     *)
(* closed by an event on its own loop, torn down by ConnectDestroyed.  The *)
(* server is destroyed on Base's thread outside Loop(), as a server on the *)
(* stack of main() is (TcpConnection has the other case).  StartLoop()     *)
(* returns when the thread has published its loop; the thread enters Loop()*)
(* later, and a Quit() that came before is lost.                           *)
(***************************************************************************)
EXTENDS Integers, Sequences, FiniteSets

CONSTANTS ThreadNums,   \* the values SetThreadNum() may be called with
          MaxThreads,   \* bound: the largest of them
          Others,       \* threads other than Base's that call Start()
          MaxConns,     \* bound: connections that clients make
          MaxFds        \* descriptors left for connections

Base == 0

ASSUME ThreadNumsAssumption ==
  MaxThreads \in Nat /\ ThreadNums \subseteq 0..MaxThreads /\ Base \notin Others
ASSUME BoundsAssumption == MaxConns \in Nat /\ MaxFds \in Nat \ {0}

VARIABLES
  num_threads_, started_, next_,
  start_pc,      \* per thread that may call Start(): how far it is
  loops_,        \* loops the pool has started: 1..loops_
  listenning_,
  backlog,       \* connections the kernel completed and nobody accepted
  arrivals,      \* bookkeeping of the bound MaxConns
  next_conn_id_,
  connections_,
  io_loop,       \* of the connections made so far
  state_,        \* of each: "connecting", "connected", "disconnected", "gone"
  queue,         \* per loop: its functors
  base_pc,       \* Base's thread: "setup" (before Loop()), "loop", "after"
  dtor,          \* "no", "conns", "threads" (in ~EventLoopThreadPool), "done"
  thread,        \* per loop of the pool: "none", "starting" (loop_ is published),
                 \* "loop" (in Loop()), "exit"
  quit_,         \* per loop of the pool
  told           \* threads of the pool whose destructor has called Quit(): 1..told

startv == <<num_threads_, started_, start_pc, loops_>>
acceptv == <<next_, listenning_, backlog, arrivals, next_conn_id_, io_loop>>
threadv == <<thread, quit_, told>>
serverVars == <<startv, acceptv, connections_, state_, queue, base_pc, dtor, threadv>>

Pool == 1..MaxThreads
Loops == {Base} \cup Pool
Callers == Others \cup {Base}
ConnIds == 1..MaxConns
Made == 1..(next_conn_id_ - 1)

Tasks == [do : {"ConnectEstablished", "RemoveConnectionInLoop",
                "ConnectDestroyed"}, conn : ConnIds]
           \cup {[do |-> "Listen", conn |-> 0]}
Task(do, c) == [do |-> do, conn |-> c]

\* Type invariant.
ServerTypeOK ==
  /\ num_threads_ \in ThreadNums /\ loops_ \in 0..num_threads_
  /\ started_ \in Nat /\ next_ \in Nat
  /\ start_pc \in [Callers -> {"none", "pool", "listen", "done"}]
  /\ listenning_ \in BOOLEAN
  /\ backlog \in 0..MaxConns /\ arrivals \in 0..MaxConns
  /\ next_conn_id_ \in 1..(MaxConns + 1)
  /\ connections_ \subseteq Made
  /\ io_loop \in [Made -> Loops]
  /\ state_ \in [Made -> {"connecting", "connected", "disconnected", "gone"}]
  /\ queue \in [Loops -> Seq(Tasks)]
  /\ base_pc \in {"setup", "loop", "after"}
  /\ dtor \in {"no", "conns", "threads", "done"}
  /\ thread \in [Pool -> {"none", "starting", "loop", "exit"}]
  /\ quit_ \in [Pool -> BOOLEAN] /\ told \in 0..MaxThreads

ServerInit ==
  /\ num_threads_ \in ThreadNums /\ started_ = 0 /\ next_ = 0
  /\ start_pc = [t \in Callers |-> "none"]
  /\ loops_ = 0 /\ listenning_ = FALSE /\ backlog = 0 /\ arrivals = 0
  /\ next_conn_id_ = 1 /\ connections_ = {}
  /\ io_loop = <<>> /\ state_ = <<>>
  /\ queue = [l \in Loops |-> <<>>]
  /\ base_pc = "setup" /\ dtor = "no"
  /\ thread = [l \in Pool |-> "none"] /\ quit_ = [l \in Pool |-> FALSE] /\ told = 0

-----------------------------------------------------------------------------
(* Start().                                                                *)

\* A thread may call into the server.
MayCall(t) == dtor = "no" /\ (t = Base => base_pc = "setup")

\* started_++ == 0
FirstStart == started_ = 0

StartTests(t) ==
  /\ MayCall(t) /\ start_pc[t] = "none"
  /\ started_' = started_ + 1
  /\ start_pc' = [start_pc EXCEPT ![t] = IF FirstStart THEN "pool" ELSE "done"]
  /\ UNCHANGED <<num_threads_, loops_, acceptv, connections_, state_, queue,
                 base_pc, dtor, threadv>>

\* EventLoopThreadPool::Start: one StartLoop() after the other.
PoolStartsLoop(t) ==
  /\ start_pc[t] = "pool" /\ loops_ < num_threads_
  /\ loops_' = loops_ + 1
  /\ thread' = [thread EXCEPT ![loops_ + 1] = "starting"]
  /\ UNCHANGED <<num_threads_, started_, start_pc, acceptv, connections_,
                 state_, queue, base_pc, dtor, quit_, told>>

\* ThreadFunc goes on to Loop(): quit_ = false.
ThreadEntersLoop(l) ==
  /\ thread[l] = "starting"
  /\ thread' = [thread EXCEPT ![l] = "loop"]
  /\ quit_' = [quit_ EXCEPT ![l] = FALSE]
  /\ UNCHANGED <<startv, acceptv, connections_, state_, queue, base_pc, dtor, told>>

PoolStarted(t) ==
  /\ start_pc[t] = "pool" /\ loops_ = num_threads_
  /\ start_pc' = [start_pc EXCEPT ![t] = "listen"]
  /\ UNCHANGED <<num_threads_, started_, loops_, acceptv, connections_, state_,
                 queue, base_pc, dtor, threadv>>

\* loop_->RunInLoop(Acceptor::Listen)
StartListens(t) ==
  /\ start_pc[t] = "listen"
  /\ start_pc' = [start_pc EXCEPT ![t] = "done"]
  /\ IF t = Base
       THEN listenning_' = TRUE /\ UNCHANGED queue
       ELSE /\ queue' = [queue EXCEPT ![Base] = Append(@, Task("Listen", 0))]
            /\ UNCHANGED listenning_
  /\ UNCHANGED <<num_threads_, started_, loops_, next_, backlog, arrivals,
                 next_conn_id_, io_loop, connections_, state_, base_pc, dtor,
                 threadv>>

\* Base's thread goes into Loop(), and comes back when something quits it.
EnterLoop ==
  /\ base_pc = "setup" /\ dtor = "no" /\ start_pc[Base] \in {"none", "done"}
  /\ base_pc' = "loop"
  /\ UNCHANGED <<startv, acceptv, connections_, state_, queue, dtor, threadv>>

LeaveLoop ==
  /\ base_pc = "loop"
  /\ base_pc' = "after"
  /\ UNCHANGED <<startv, acceptv, connections_, state_, queue, dtor, threadv>>

-----------------------------------------------------------------------------
(* Connections.                                                            *)

Runs(l) == IF l = Base THEN base_pc = "loop" ELSE thread[l] = "loop"

\* A client connects; the kernel completes the handshake.
ClientConnects ==
  /\ listenning_ /\ dtor # "done" /\ arrivals < MaxConns
  /\ arrivals' = arrivals + 1 /\ backlog' = backlog + 1
  /\ UNCHANGED <<startv, next_, listenning_, next_conn_id_, io_loop,
                 connections_, state_, queue, base_pc, dtor, threadv>>

Open == {c \in Made : state_[c] # "gone"}

\* GetNextLoop: ++next_, back to 0 at the end.
NextIndex == IF next_ + 1 >= loops_ THEN 0 ELSE next_ + 1

\* loops_[next_], or the base loop when the pool has none.
GetNextLoop == IF loops_ = 0 THEN Base ELSE next_ + 1

\* Acceptor::HandleRead => NewConnection: the loop's functor establishes the
\* connection; RunInLoop does it in place when that loop is Base.
NewConnection ==
  LET c == next_conn_id_   l == GetNextLoop   inplace == l = Base IN
  /\ next_conn_id_' = c + 1
  /\ io_loop' = Append(io_loop, l)
  /\ next_' = IF loops_ = 0 THEN next_ ELSE NextIndex
  /\ connections_' = connections_ \cup {c}
  /\ state_' = Append(state_, IF inplace THEN "connected" ELSE "connecting")
  /\ queue' = IF inplace THEN queue
              ELSE [queue EXCEPT ![l] = Append(@, Task("ConnectEstablished", c))]

HandleRead ==
  /\ base_pc = "loop" /\ listenning_ /\ backlog > 0
  /\ Cardinality(Open) < MaxFds
  /\ backlog' = backlog - 1
  /\ NewConnection
  /\ UNCHANGED <<startv, listenning_, arrivals, base_pc, dtor, threadv>>

\* Mutant: the server stops listening when there is no descriptor left.
HandleReadDrops ==
  /\ base_pc = "loop" /\ listenning_ /\ backlog > 0
  /\ Cardinality(Open) >= MaxFds
  /\ listenning_' = FALSE
  /\ UNCHANGED <<startv, next_, backlog, arrivals, next_conn_id_, io_loop,
                 connections_, state_, queue, base_pc, dtor, threadv>>

\* accept fails with EMFILE: the error is logged, the socket stays readable and
\* the loop comes here again.
HandleReadFails ==
  /\ base_pc = "loop" /\ listenning_ /\ backlog > 0
  /\ Cardinality(Open) >= MaxFds
  /\ UNCHANGED serverVars

\* Mutant: RemoveConnectionInLoop runs on the connection's loop and queues
\* ConnectDestroyed on the server's.
RemoveConnectionHere(c) ==
  /\ connections_' = connections_ \ {c}
  /\ queue' = [queue EXCEPT ![Base] = Append(@, Task("ConnectDestroyed", c))]

\* The close callback on the connection's loop: RemoveConnection.
RemoveConnection(c) ==
  IF io_loop[c] = Base
    THEN /\ connections_' = connections_ \ {c}
         /\ queue' = [queue EXCEPT ![Base] =
                        Append(@, Task("ConnectDestroyed", c))]
    ELSE /\ queue' = [queue EXCEPT ![Base] =
                        Append(@, Task("RemoveConnectionInLoop", c))]
         /\ UNCHANGED connections_

\* The peer closes and the connection's loop handles it.
HandleClose(c) ==
  /\ Runs(io_loop[c]) /\ state_[c] = "connected"
  /\ state_' = [state_ EXCEPT ![c] = "disconnected"]
  /\ RemoveConnection(c)
  /\ UNCHANGED <<startv, acceptv, base_pc, dtor, threadv>>

\* A loop runs its next functor.
RunFunctor(l) ==
  LET t == Head(queue[l])
      rest == [queue EXCEPT ![l] = Tail(@)]
  IN
  /\ Runs(l) /\ queue[l] # <<>>
  /\ \/ /\ t.do = "Listen"
        /\ listenning_' = TRUE /\ queue' = rest
        /\ UNCHANGED <<connections_, state_>>
     \/ /\ t.do = "ConnectEstablished"
        /\ state_' = [state_ EXCEPT ![t.conn] = "connected"] /\ queue' = rest
        /\ UNCHANGED <<connections_, listenning_>>
     \/ /\ t.do = "RemoveConnectionInLoop"
        /\ connections_' = connections_ \ {t.conn}
        /\ queue' = [rest EXCEPT ![io_loop[t.conn]] =
                       Append(@, Task("ConnectDestroyed", t.conn))]
        /\ UNCHANGED <<state_, listenning_>>
     \/ /\ t.do = "ConnectDestroyed"
        /\ state_' = [state_ EXCEPT ![t.conn] = "gone"] /\ queue' = rest
        /\ UNCHANGED <<connections_, listenning_>>
  /\ UNCHANGED <<startv, next_, backlog, arrivals, next_conn_id_, io_loop,
                 base_pc, dtor, threadv>>

-----------------------------------------------------------------------------
(* ~TcpServer.                                                             *)

BeginDtor ==
  /\ dtor = "no" /\ base_pc \in {"setup", "after"}
  /\ \A t \in Callers : start_pc[t] \in {"none", "done"}
  /\ dtor' = "conns"
  /\ UNCHANGED <<startv, acceptv, connections_, state_, queue, base_pc, threadv>>

\* The loop over connections_: RunInLoop(ConnectDestroyed).
DtorConnection(c) ==
  /\ dtor = "conns" /\ c \in connections_
  /\ connections_' = connections_ \ {c}
  /\ IF io_loop[c] = Base
       THEN state_' = [state_ EXCEPT ![c] = "gone"] /\ UNCHANGED queue
       ELSE /\ queue' = [queue EXCEPT ![io_loop[c]] =
                           Append(@, Task("ConnectDestroyed", c))]
            /\ UNCHANGED state_
  /\ UNCHANGED <<startv, acceptv, base_pc, dtor, threadv>>

DtorConnectionsDone ==
  /\ dtor = "conns" /\ connections_ = {}
  /\ dtor' = "threads"
  /\ UNCHANGED <<startv, acceptv, connections_, state_, queue, base_pc, threadv>>

\* Mutant: joined without Quit().
DtorQuitsNot(l) ==
  /\ dtor = "threads" /\ told < loops_ /\ l = told + 1
  /\ \A m \in 1..told : thread[m] = "exit"
  /\ told' = l
  /\ UNCHANGED <<startv, acceptv, connections_, state_, queue, base_pc, dtor,
                 thread, quit_>>

\* ~EventLoopThreadPool: each ~EventLoopThread quits its loop and joins.
DtorQuits(l) ==
  /\ dtor = "threads" /\ told < loops_ /\ l = told + 1
  /\ \A m \in 1..told : thread[m] = "exit"
  /\ quit_' = [quit_ EXCEPT ![l] = TRUE]
  /\ told' = l
  /\ UNCHANGED <<startv, acceptv, connections_, state_, queue, base_pc, dtor, thread>>

\* Loop() returns; the EventLoop goes, and with its pending functors the
\* connections they hold.
LoopExits(l) ==
  /\ l \in Pool /\ thread[l] = "loop" /\ quit_[l]
  /\ thread' = [thread EXCEPT ![l] = "exit"]
  /\ state_' = [c \in Made |->
                  IF \E i \in DOMAIN queue[l] : queue[l][i].conn = c
                    THEN "gone" ELSE state_[c]]
  /\ queue' = [queue EXCEPT ![l] = <<>>]
  /\ UNCHANGED <<startv, acceptv, connections_, base_pc, dtor, quit_, told>>

\* The threads are joined, ~Acceptor removes the accept channel.
DtorReturns ==
  /\ dtor = "threads"
  /\ \A l \in Pool : thread[l] \in {"none", "exit"}
  /\ dtor' = "done" /\ listenning_' = FALSE
  /\ UNCHANGED <<startv, next_, backlog, arrivals, next_conn_id_, io_loop,
                 connections_, state_, queue, base_pc, threadv>>

\* Quit() before Loop(), which will set quit_ to false.
QuitTooEarly == \E l \in Pool : thread[l] = "starting" /\ quit_[l]

\* The join of a thread whose Quit() was lost.
JoinHangs ==
  /\ dtor = "threads" /\ told # 0
  /\ thread[told] = "loop" /\ ~quit_[told]

Finished == (dtor = "done" \/ JoinHangs) /\ UNCHANGED serverVars

DtorStep == \/ \E c \in Made : DtorConnection(c)
            \/ DtorConnectionsDone \/ DtorReturns
            \/ \E l \in Pool : DtorQuits(l)

StartStep(t) == PoolStartsLoop(t) \/ PoolStarted(t) \/ StartListens(t)

ServerNext ==
  \/ \E t \in Callers : StartTests(t) \/ StartStep(t)
  \/ EnterLoop \/ LeaveLoop \/ ClientConnects \/ HandleRead \/ HandleReadFails
  \/ \E c \in Made : HandleClose(c)
  \/ \E l \in Loops : RunFunctor(l)
  \/ \E l \in Pool : ThreadEntersLoop(l) \/ LoopExits(l)
  \/ BeginDtor \/ DtorStep \/ Finished

ServerSpec == ServerInit /\ [][ServerNext]_serverVars

\* Threads are scheduled and loops run (EventLoop's QueuedFunctorRuns and the
\* level-triggered poller); clients do not stay for ever.
ServerFairSpec ==
  /\ ServerSpec
  /\ WF_serverVars(HandleRead) /\ WF_serverVars(DtorStep)
  /\ \A l \in Loops : WF_serverVars(RunFunctor(l)) /\ WF_serverVars(LoopExits(l))
  /\ \A l \in Pool : WF_serverVars(ThreadEntersLoop(l))
  /\ \A c \in ConnIds : WF_serverVars(c \in Made /\ HandleClose(c))

-----------------------------------------------------------------------------
(* Properties.                                                             *)

\* The functors of kind do for connection c that wait in loop l.
Waiting(l, do, c) == {i \in DOMAIN queue[l] : queue[l][i] = Task(do, c)}

\* A connection is torn down once, on its own loop, after it was established:
\* while the server runs it is either in connections_ and not closed, or one
\* RemoveConnectionInLoop is on its way to Base, or one ConnectDestroyed is on
\* its way to its loop.  A second ConnectDestroyed would fail the asserts of
\* RemoveChannel.
OneTeardown ==
  \A c \in Made :
    LET removes == Cardinality(Waiting(Base, "RemoveConnectionInLoop", c))
        destroys == Cardinality(Waiting(io_loop[c], "ConnectDestroyed", c))
        listed == IF c \in connections_ /\ state_[c] \in {"connecting", "connected"}
                    THEN 1 ELSE 0
    IN
    /\ \A l \in Loops \ {io_loop[c]} : Waiting(l, "ConnectDestroyed", c) = {}
    /\ destroys <= 1 /\ (state_[c] = "gone" => destroys = 0)
    /\ dtor = "no" /\ state_[c] # "gone" => listed + removes + destroys = 1
    /\ dtor = "no" /\ state_[c] = "gone" =>
         removes = 0 /\ c \notin connections_
    /\ \A i \in Waiting(io_loop[c], "ConnectDestroyed", c) :
       \A j \in Waiting(io_loop[c], "ConnectEstablished", c) : j < i

\* A connection the kernel completed is accepted, also when accept failed for
\* want of descriptors meanwhile, unless the loop is left.
PendingIsAccepted ==
  (base_pc = "loop" /\ backlog > 0) ~> (backlog = 0 \/ base_pc = "after")

\* The threads are joined and no connection is left, except in functors of
\* Base's loop, which no longer runs.
Freed ==
  /\ dtor = "done"
  /\ \A l \in Pool : thread[l] \in {"none", "exit"}
  /\ \A c \in Made : \/ state_[c] = "gone"
                     \/ \E i \in DOMAIN queue[Base] : queue[Base][i].conn = c

\* The destructor returns with everything freed, unless it calls Quit() on a
\* thread of the pool that has not entered Loop() yet: that Quit() is lost and the
\* join never returns.
DtorFreesAll == (dtor = "conns") ~> (Freed \/ QuitTooEarly)

\* Without the exception, which TLC refutes; no run lists it.
DtorAlwaysFreesAll == (dtor = "conns") ~> Freed
=============================================================================
