---------------------------- MODULE MysqlConnPool ----------------------------
(***************************************************************************)
(* MysqlConnPool (mysql/mysql_conn_pool.{h,cc}): a queue of connections, a *)
(* producer thread that adds one when the queue is empty, a recycler       *)
(* thread that deletes those idle for too long, and clients that take one  *)
(* with GetConnection() and give it back through the shared_ptr's deleter. *)
(*                                                                         *)
(* A critical section of mutex_ is one step; cond_.wait ends it.  A        *)
(* MysqlConn is its address and the time since RefreshAliveTime(), in      *)
(* units that make max_idle_time_ = MaxIdle; longer idle times are not     *)
(* told apart.  Connect()'s result is ignored by the code, and here.       *)
(***************************************************************************)
EXTENDS Naturals, Sequences, FiniteSets

CONSTANTS Conns,     \* addresses of MysqlConn objects
          NoConn,    \* no connection
          Clients,   \* threads that call GetConnection()
          MinSize, MaxSize, MaxIdle   \* min_size_, max_size_, max_idle_time_

ASSUME SizesAssumption ==
  MinSize \in Nat /\ MaxSize \in Nat /\ MinSize <= MaxSize
ASSUME IdleAssumption == MaxIdle \in Nat
ASSUME ConnsAssumption ==   \* the allocator does not run out
  /\ IsFiniteSet(Conns) /\ Cardinality(Conns) >= MaxSize
  /\ NoConn \notin Conns

VARIABLES
  connection_queue_,
  current_size_,     \* the counter the limit is tested against
  live,              \* MysqlConn objects that exist
  idle,              \* per object: the time since RefreshAliveTime()
  producer,          \* "run", or "wait" in cond_.wait
  client,            \* per client: "idle", "wait" in cond_.wait_for, "woken"
                     \* (about to test the queue again) or "held"
  held,              \* per client: the connection it holds
  created,           \* history: connections made so far
  destroyed          \* has ~MysqlConnPool run?

vars == <<connection_queue_, current_size_, live, idle, producer, client, held,
          created, destroyed>>

\* Type invariant.
TypeOK ==
  /\ connection_queue_ \in Seq(Conns)
  /\ current_size_ \in Nat /\ created \in Nat
  /\ live \subseteq Conns
  /\ idle \in [Conns -> 0..MaxIdle]
  /\ producer \in {"run", "wait"}
  /\ client \in [Clients -> {"idle", "wait", "woken", "held"}]
  /\ held \in [Clients -> Conns \cup {NoConn}]
  /\ destroyed \in BOOLEAN

\* The constructor: min_size_ connections, each counted by AddConnection() and
\* once more after it.  The pool is a static object, so current_size_ starts
\* at zero.
Init ==
  /\ connection_queue_ \in [1..MinSize -> Conns]
  /\ \A i, j \in 1..MinSize :
       connection_queue_[i] = connection_queue_[j] => i = j
  /\ live = {connection_queue_[i] : i \in 1..MinSize}
  /\ current_size_ = 2 * MinSize /\ created = MinSize
  /\ idle = [c \in Conns |-> 0]
  /\ producer = "run"
  /\ client = [t \in Clients |-> "idle"]
  /\ held = [t \in Clients |-> NoConn]
  /\ destroyed = FALSE

\* cond_.notify_all()
NotifyClients ==
  client' = [t \in Clients |-> IF client[t] = "wait" THEN "woken" ELSE client[t]]

\* AddConnection(), without its count.
AddConnection(c) ==
  /\ live' = live \cup {c}
  /\ idle' = [idle EXCEPT ![c] = 0]
  /\ created' = created + 1
  /\ connection_queue_' = Append(connection_queue_, c)

\* ProduceConnection(): wait while there is a connection; else add one, if the
\* counter allows.  It does not, the thread takes the lock again at once.
ProducerWaits ==
  /\ ~destroyed /\ producer = "run"
  /\ connection_queue_ # <<>>
  /\ producer' = "wait"
  /\ UNCHANGED <<connection_queue_, current_size_, live, idle, client, held,
                 created, destroyed>>

ProducerAdds ==
  /\ ~destroyed /\ producer = "run"
  /\ connection_queue_ = <<>> /\ current_size_ < MaxSize
  /\ \E c \in Conns \ live : AddConnection(c)
  /\ current_size_' = current_size_ + 2
  /\ NotifyClients
  /\ UNCHANGED <<producer, held, destroyed>>

\* cond_.wait may return without a notification.
ProducerWakes ==
  /\ ~destroyed /\ producer = "wait"
  /\ producer' = "run"
  /\ UNCHANGED <<connection_queue_, current_size_, live, idle, client, held,
                 created, destroyed>>

\* The recycler's loop goes on at its i-th connection.
MayRecycle(i) ==
  /\ Len(connection_queue_) - (i - 1) > MinSize
  /\ idle[connection_queue_[i]] >= MaxIdle

\* RecycleConnection(): delete the first k connections.
Recycle ==
  /\ ~destroyed
  /\ \E k \in 0..Len(connection_queue_) :
       /\ \A i \in 1..k : MayRecycle(i)
       /\ ~MayRecycle(k + 1)
       /\ live' = live \ {connection_queue_[i] : i \in 1..k}
       /\ connection_queue_' =
            SubSeq(connection_queue_, k + 1, Len(connection_queue_))
       /\ current_size_' = current_size_ - k
  /\ UNCHANGED <<idle, producer, client, held, created, destroyed>>

\* Mutants: the connection stays in the queue; nobody is notified.
TakeFrontOnly(t) ==
  /\ held' = [held EXCEPT ![t] = Head(connection_queue_)]
  /\ client' = [u \in Clients |-> IF u = t THEN "held"
                                  ELSE IF client[u] = "wait" THEN "woken"
                                  ELSE client[u]]
  /\ producer' = "run"
  /\ UNCHANGED connection_queue_
TakeSilently(t) ==
  /\ held' = [held EXCEPT ![t] = Head(connection_queue_)]
  /\ connection_queue_' = Tail(connection_queue_)
  /\ client' = [client EXCEPT ![t] = "held"]
  /\ UNCHANGED producer

\* The end of GetConnection(): front(), pop(), notify_all().
Take(t) ==
  /\ held' = [held EXCEPT ![t] = Head(connection_queue_)]
  /\ connection_queue_' = Tail(connection_queue_)
  /\ client' = [u \in Clients |-> IF u = t THEN "held"
                                  ELSE IF client[u] = "wait" THEN "woken"
                                  ELSE client[u]]
  /\ producer' = "run"

\* GetConnection(), at its start or back from wait_for: take a connection, or
\* wait (again).
GetConnection(t) ==
  /\ ~destroyed /\ client[t] \in {"idle", "woken"}
  /\ IF connection_queue_ # <<>>
       THEN Take(t)
       ELSE /\ client' = [client EXCEPT ![t] = "wait"]
            /\ UNCHANGED <<connection_queue_, held, producer>>
  /\ UNCHANGED <<current_size_, live, idle, created, destroyed>>

\* Mutant: a waiter only wakes when it is notified.
WaitNeverTimesOut(t) == FALSE /\ UNCHANGED vars

\* wait_for returns after timeout_, or spuriously.
WaitTimesOut(t) ==
  /\ ~destroyed /\ client[t] = "wait"
  /\ client' = [client EXCEPT ![t] = "woken"]
  /\ UNCHANGED <<connection_queue_, current_size_, live, idle, producer, held,
                 created, destroyed>>

\* Mutant: the idle time goes on from where it was.
ReleaseStale(t) ==
  /\ ~destroyed /\ client[t] = "held"
  /\ connection_queue_' = Append(connection_queue_, held[t])
  /\ held' = [held EXCEPT ![t] = NoConn]
  /\ client' = [client EXCEPT ![t] = "idle"]
  /\ UNCHANGED <<current_size_, live, idle, producer, created, destroyed>>

\* The deleter of the shared_ptr: the connection is back, nobody is notified.
Release(t) ==
  /\ ~destroyed /\ client[t] = "held"
  /\ idle' = [idle EXCEPT ![held[t]] = 0]
  /\ connection_queue_' = Append(connection_queue_, held[t])
  /\ held' = [held EXCEPT ![t] = NoConn]
  /\ client' = [client EXCEPT ![t] = "idle"]
  /\ UNCHANGED <<current_size_, live, producer, created, destroyed>>

\* steady_clock advances.
Tick ==
  /\ ~destroyed
  /\ idle' = [c \in Conns |-> IF idle[c] < MaxIdle THEN idle[c] + 1 ELSE MaxIdle]
  /\ UNCHANGED <<connection_queue_, current_size_, live, producer, client, held,
                 created, destroyed>>

\* ~MysqlConnPool, when the process exits: the connections in the queue are
\* deleted.  (The detached threads may still run for a moment and use the
\* destroyed members; that is not modelled.)
Destroy ==
  /\ ~destroyed
  /\ destroyed' = TRUE
  /\ live' = live \ {connection_queue_[i] : i \in DOMAIN connection_queue_}
  /\ current_size_' = current_size_ - Len(connection_queue_)
  /\ connection_queue_' = <<>>
  /\ UNCHANGED <<idle, producer, client, held, created>>

Exited == destroyed /\ UNCHANGED vars

Next ==
  \/ ProducerWaits \/ ProducerAdds \/ ProducerWakes \/ Recycle \/ Tick
  \/ \E t \in Clients : GetConnection(t) \/ WaitTimesOut(t) \/ Release(t)
  \/ Destroy \/ Exited

Spec == Init /\ [][Next]_vars

\* The threads are scheduled, wait_for times out, a client that is waiting
\* tests again, and clients give their connections back.  No fairness between
\* the clients that compete for the mutex is assumed.
FairSpec ==
  /\ Spec
  /\ WF_vars(ProducerWaits \/ ProducerAdds)
  /\ \A t \in Clients :
       /\ WF_vars(WaitTimesOut(t)) /\ WF_vars(Release(t))
       /\ WF_vars(client[t] = "woken" /\ GetConnection(t))

-----------------------------------------------------------------------------
(* Properties.                                                             *)

Queued == {connection_queue_[i] : i \in DOMAIN connection_queue_}
Holders == {t \in Clients : client[t] = "held"}

\* Every connection that exists is in one place, in the queue or with one
\* client, and nothing else is: none is shared, lost or used after the recycler
\* deleted it.
OneHolder ==
  /\ live = Queued \cup {held[t] : t \in Holders}
  /\ \A t \in Holders : held[t] \notin Queued
  /\ \A t, u \in Holders : held[t] = held[u] => t = u
  /\ \A i, j \in DOMAIN connection_queue_ :
       connection_queue_[i] = connection_queue_[j] => i = j

\* current_size_ is not the number of connections: what is made is counted
\* twice and what is deleted once.
CountsTwice == ~destroyed => current_size_ = created + Cardinality(live)

\* The pool never has more than max_size_ connections, although the counter it
\* tests is not their number.
Accounting == OneHolder /\ CountsTwice /\ Cardinality(live) <= MaxSize

\* The producer sleeps only while there is a connection to take: neither the
\* client that takes the last one nor the recycler leaves it asleep with an
\* empty queue.  (With min_size_ = 0 the recycler would.)
ProducerStocked ==
  MinSize > 0 /\ ~destroyed /\ producer = "wait" => connection_queue_ # <<>>

\* "FIFO order: if the front has not exceeded, those behind it have not
\* either": the recycler may stop at the first connection that is young enough.
OldestFirst ==
  \A i, j \in DOMAIN connection_queue_ :
    i <= j => idle[connection_queue_[i]] >= idle[connection_queue_[j]]

\* While clients keep waiting, connections keep being handed out, although a
\* connection that is given back wakes nobody and a pool that has used up its
\* counter makes no new ones.
PoolServes ==
  <>[](~destroyed /\ \E t \in Clients : client[t] \in {"wait", "woken"})
    => []<><<\E t \in Clients : client[t] # "held" /\ client'[t] = "held">>_vars
=============================================================================
