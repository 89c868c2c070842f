----------------------------- MODULE PoolProofs -----------------------------
(***************************************************************************)
(* The two pools.                                                          *)
(*                                                                         *)
(* MysqlConnPool shares no connection, keeps within max_size_, leaves no   *)
(* producer asleep over an empty queue and recycles the oldest first, for  *)
(* every number of clients and all sizes.                                  *)
(*                                                                         *)
(* MemoryPool gives out no byte twice and accounts for its chunks and      *)
(* large areas, for every page size, alignment and number of pages, as     *)
(* long as quote_ of fresh pages holds zero.                               *)
(***************************************************************************)
EXTENDS MysqlConnPool, MemoryPool, SequenceTheorems, FiniteSetTheorems,
        WellFoundedInduction, TLAPS

-----------------------------------------------------------------------------
(* MysqlConnPool.                                                          *)

\* The inductive invariant.
Inv == /\ TypeOK /\ OneHolder /\ CountsTwice
       /\ Cardinality(live) <= MaxSize
       /\ ProducerStocked /\ OldestFirst

-----------------------------------------------------------------------------
(* Sets and sequences.                                                     *)

\* Different entries 1..n of f are n.
LEMMA CountDistinct ==
  ASSUME NEW n \in Nat, NEW f, NEW T,
         T = {f[i] : i \in 1..n},
         \A i, j \in 1..n : f[i] = f[j] => i = j
  PROVE  IsFiniteSet(T) /\ Cardinality(T) = n
<1> DEFINE g == [i \in 1..n |-> f[i]]
<1>1. IsFiniteSet(1..n) /\ Cardinality(1..n) = n
  <2>1. /\ IsFiniteSet(1..n)
        /\ Cardinality(1..n) = IF 1 > n THEN 0 ELSE n - 1 + 1
    BY FS_Interval
  <2> QED
    BY <2>1
<1>2. g \in Bijection(1..n, T)
  BY DEF Bijection, Injection, Surjection, IsInjective
<1>3. ExistsBijection(1..n, T)
  BY <1>2 DEF ExistsBijection
<1> QED
  BY <1>1, <1>3, FS_Bijection

\* Only finitely many connections exist.
LEMMA LiveFinite ==
  ASSUME TypeOK
  PROVE  IsFiniteSet(live) /\ Cardinality(live) \in Nat
<1>1. live \in SUBSET Conns
  BY DEF TypeOK
<1>2. IsFiniteSet(live)
  BY <1>1, ConnsAssumption, FS_Subset
<1> QED
  BY <1>2, FS_CardinalityType

\* What is in a client's hands exists.
LEMMA HeldExists ==
  ASSUME TypeOK, OneHolder, NEW t \in Holders
  PROVE  held[t] \in live /\ held[t] \in Conns /\ t \in Clients
BY DEF TypeOK, OneHolder, Holders

\* The places of the queue.
LEMMA QueuePlaces ==
  ASSUME TypeOK
  PROVE  /\ Len(connection_queue_) \in Nat
         /\ DOMAIN connection_queue_ = 1..Len(connection_queue_)
         /\ Queued = {connection_queue_[i] : i \in 1..Len(connection_queue_)}
         /\ Queued \subseteq Conns
BY DEF TypeOK, Queued

\* Steps that move no connection.
LEMMA NothingMoves ==
  ASSUME Inv, TypeOK', UNCHANGED <<connection_queue_, current_size_, live, held,
                                   created, destroyed>>,
         \A t \in Clients : client'[t] = "held" <=> client[t] = "held"
  PROVE  /\ OneHolder' /\ CountsTwice' /\ Cardinality(live') <= MaxSize
         /\ idle' = idle => OldestFirst'
         /\ producer' = producer => ProducerStocked'
<1>1. Holders' = Holders /\ Queued' = Queued
  BY DEF Holders, Queued
<1>2. OneHolder'
  BY <1>1 DEF Inv, OneHolder
<1> QED
  BY <1>2 DEF Inv, CountsTwice, ProducerStocked, OldestFirst

-----------------------------------------------------------------------------
(* One lemma per action.                                                   *)

LEMMA ProducerWaitsInv == Inv /\ ProducerWaits => Inv'
<1> SUFFICES ASSUME Inv, ProducerWaits PROVE Inv'
  OBVIOUS
<1>1. TypeOK'
  BY DEF Inv, TypeOK, ProducerWaits
<1>2. ProducerStocked'
  BY DEF ProducerStocked, ProducerWaits
<1> QED
  BY <1>1, <1>2, NothingMoves DEF Inv, ProducerWaits

LEMMA ProducerWakesInv == Inv /\ ProducerWakes => Inv'
<1> SUFFICES ASSUME Inv, ProducerWakes PROVE Inv'
  OBVIOUS
<1>1. TypeOK'
  BY DEF Inv, TypeOK, ProducerWakes
<1>2. ProducerStocked'
  BY DEF ProducerStocked, ProducerWakes
<1> QED
  BY <1>1, <1>2, NothingMoves DEF Inv, ProducerWakes

LEMMA WaitTimesOutInv ==
  ASSUME Inv, NEW t \in Clients, WaitTimesOut(t) PROVE Inv'
<1>1. TypeOK' /\ \A u \in Clients : client'[u] = "held" <=> client[u] = "held"
  BY DEF Inv, TypeOK, WaitTimesOut
<1> QED
  BY <1>1, NothingMoves DEF Inv, WaitTimesOut

LEMMA TickInv == Inv /\ Tick => Inv'
<1> SUFFICES ASSUME Inv, Tick PROVE Inv'
  OBVIOUS
<1>1. TypeOK'
  BY IdleAssumption DEF Inv, TypeOK, Tick
<1>2. OldestFirst'
  <2> SUFFICES ASSUME NEW i \in DOMAIN connection_queue_,
                      NEW j \in DOMAIN connection_queue_, i <= j
               PROVE  idle'[connection_queue_[i]] >= idle'[connection_queue_[j]]
    BY DEF OldestFirst, Tick
  <2>1. /\ connection_queue_[i] \in Conns /\ connection_queue_[j] \in Conns
        /\ idle[connection_queue_[i]] \in 0..MaxIdle
        /\ idle[connection_queue_[j]] \in 0..MaxIdle
    BY DEF Inv, TypeOK
  <2>2. idle[connection_queue_[i]] >= idle[connection_queue_[j]]
    BY DEF Inv, OldestFirst
  <2> QED
    BY <2>1, <2>2, IdleAssumption DEF Tick
<1> QED
  BY <1>1, <1>2, NothingMoves DEF Inv, Tick

LEMMA ProducerAddsInv == Inv /\ ProducerAdds => Inv'
<1> SUFFICES ASSUME Inv, ProducerAdds PROVE Inv'
  OBVIOUS
<1>1. PICK c \in Conns \ live : AddConnection(c)
  BY DEF ProducerAdds
<1>2. connection_queue_ = <<>> /\ connection_queue_' = <<c>>
  BY <1>1 DEF ProducerAdds, AddConnection
<1>3. /\ connection_queue_' \in Seq(Conns) /\ DOMAIN connection_queue_' = {1}
      /\ connection_queue_'[1] = c /\ Queued' = {c} /\ Queued = {}
  BY <1>2 DEF Queued
<1>4. client' \in [Clients -> {"idle", "wait", "woken", "held"}]
      /\ \A t \in Clients : client'[t] = "held" <=> client[t] = "held"
  BY DEF Inv, TypeOK, ProducerAdds, NotifyClients
<1>5. idle' \in [Conns -> 0..MaxIdle]
  BY <1>1, IdleAssumption DEF Inv, TypeOK, AddConnection
<1>6. TypeOK'
  BY <1>1, <1>3, <1>4, <1>5 DEF Inv, TypeOK, ProducerAdds, AddConnection
<1>7. Holders' = Holders /\ held' = held
  BY <1>4 DEF Holders, ProducerAdds
<1>8. OneHolder'
  <2>1. live' = live \cup {c} /\ live = {held[t] : t \in Holders}
    BY <1>1, <1>3 DEF Inv, OneHolder, AddConnection
  <2> QED
    BY <1>1, <1>3, <1>7, <2>1 DEF Inv, OneHolder
<1>9. IsFiniteSet(live) /\ Cardinality(live) \in Nat
  BY LiveFinite DEF Inv
<1>10. Cardinality(live') = Cardinality(live) + 1
  BY <1>1, <1>9, FS_AddElement DEF AddConnection
<1>11. /\ current_size_ = created + Cardinality(live) /\ current_size_ < MaxSize
       /\ current_size_' = current_size_ + 2 /\ created' = created + 1
       /\ created \in Nat /\ MaxSize \in Nat
  BY <1>1, SizesAssumption DEF Inv, TypeOK, CountsTwice, ProducerAdds, AddConnection
<1>12. CountsTwice' /\ Cardinality(live') <= MaxSize
  BY <1>9, <1>10, <1>11 DEF CountsTwice
<1>13. ProducerStocked'
  BY <1>2 DEF ProducerAdds, ProducerStocked
<1>14. OldestFirst'
  <2>1. idle'[c] \in 0..MaxIdle
    BY <1>5
  <2> QED
    BY <1>3, <2>1, IdleAssumption DEF OldestFirst
<1> QED
  BY <1>6, <1>8, <1>12, <1>13, <1>14 DEF Inv

LEMMA TakeInv ==
  ASSUME Inv, NEW t \in Clients, GetConnection(t), connection_queue_ # <<>>
  PROVE  Inv'
<1> DEFINE q == connection_queue_
           n == Len(connection_queue_)
<1>1. q \in Seq(Conns) /\ n \in Nat /\ n >= 1 /\ DOMAIN q = 1..n /\ q[1] \in Conns
  BY DEF Inv, TypeOK
<1>2. Take(t) /\ ~destroyed /\ client[t] # "held"
      /\ UNCHANGED <<current_size_, live, idle, created, destroyed>>
  BY DEF GetConnection
<1>3. /\ q' \in Seq(Conns) /\ Len(q') = n - 1 /\ DOMAIN q' = 1..(n - 1)
      /\ \A i \in 1..(n - 1) : q'[i] = q[i + 1]
  <2>1. q' = Tail(q)
    BY <1>2 DEF Take
  <2> QED
    BY <1>1, <2>1
<1>4. /\ held' = [held EXCEPT ![t] = q[1]] /\ q[1] \in Queued
      /\ \A u \in Clients : client'[u] = "held" <=> client[u] = "held" \/ u = t
      /\ client' \in [Clients -> {"idle", "wait", "woken", "held"}]
  BY <1>1, <1>2 DEF Inv, TypeOK, Take, Queued
<1>5. Holders' = Holders \cup {t} /\ t \notin Holders
  BY <1>2, <1>4 DEF Holders
<1>6. Queued' = Queued \ {q[1]}
  <2>1. \A i \in 1..n : i # 1 => q[i] # q[1]
    BY <1>1 DEF Inv, OneHolder
  <2>2. \A i \in 1..n : i # 1 => i - 1 \in 1..(n - 1) /\ q'[i - 1] = q[i]
    BY <1>1, <1>3
  <2>3. \A i \in 1..(n - 1) : i + 1 \in 1..n /\ i + 1 # 1
    BY <1>1
  <2>4. Queued = {q[i] : i \in 1..n} /\ Queued' = {q'[i] : i \in 1..(n - 1)}
    BY <1>1, <1>3 DEF Queued
  <2>5. Queued' \subseteq Queued \ {q[1]}
    BY <1>3, <2>1, <2>3, <2>4
  <2>6. Queued \ {q[1]} \subseteq Queued'
    <3> SUFFICES ASSUME NEW i \in 1..n, q[i] # q[1] PROVE q[i] \in Queued'
      BY <2>4
    <3> QED
      BY <2>2, <2>4
  <2> QED
    BY <2>5, <2>6
<1>7. TypeOK'
  BY <1>1, <1>2, <1>3, <1>4 DEF Inv, TypeOK, Take
<1>8. \A u \in Holders : held'[u] = held[u] /\ u # t
  BY <1>4, <1>5 DEF Inv, TypeOK, Holders
<1>9. held'[t] = q[1]
  BY <1>4 DEF Inv, TypeOK
<1>10. OneHolder'
  <2>1. /\ live = Queued \cup {held[u] : u \in Holders}
        /\ \A u \in Holders : held[u] \notin Queued
        /\ \A u, v \in Holders : held[u] = held[v] => u = v
    BY DEF Inv, OneHolder
  <2>2. {held'[u] : u \in Holders'} = {held[u] : u \in Holders} \cup {q[1]}
    BY <1>5, <1>8, <1>9
  <2>3. live' = Queued' \cup {held'[u] : u \in Holders'}
    BY <2>1, <2>2, <1>2, <1>4, <1>6
  <2>4. \A u \in Holders' : held'[u] \notin Queued'
    BY <2>1, <1>5, <1>6, <1>8, <1>9
  <2>5. \A u, v \in Holders' : held'[u] = held'[v] => u = v
    BY <2>1, <1>4, <1>5, <1>8, <1>9
  <2>6. \A i, j \in 1..(n - 1) : q'[i] = q'[j] => i = j
    <3> SUFFICES ASSUME NEW i \in 1..(n - 1), NEW j \in 1..(n - 1), q'[i] = q'[j]
                 PROVE  i = j
      OBVIOUS
    <3>1. i + 1 \in DOMAIN q /\ j + 1 \in DOMAIN q /\ q[i + 1] = q[j + 1]
      BY <1>1, <1>3
    <3>2. i + 1 = j + 1
      BY <3>1 DEF Inv, OneHolder
    <3> QED
      BY <3>2, <1>1
  <2> QED
    BY <2>3, <2>4, <2>5, <2>6, <1>3 DEF OneHolder
<1>11. CountsTwice' /\ Cardinality(live') <= MaxSize
  BY <1>2 DEF Inv, CountsTwice
<1>12. ProducerStocked'
  BY <1>2 DEF Take, ProducerStocked
<1>13. OldestFirst'
  <2> SUFFICES ASSUME NEW i \in 1..(n - 1), NEW j \in 1..(n - 1), i <= j
               PROVE  idle[q'[i]] >= idle[q'[j]]
    BY <1>2, <1>3 DEF OldestFirst
  <2>1. i + 1 \in DOMAIN q /\ j + 1 \in DOMAIN q /\ i + 1 <= j + 1
    BY <1>1
  <2>2. idle[q[i + 1]] >= idle[q[j + 1]]
    BY <2>1 DEF Inv, OldestFirst
  <2> QED
    BY <2>2, <1>3
<1> QED
  BY <1>7, <1>10, <1>11, <1>12, <1>13 DEF Inv

LEMMA GetConnectionInv ==
  ASSUME Inv, NEW t \in Clients, GetConnection(t) PROVE Inv'
<1>1. CASE connection_queue_ # <<>>
  BY <1>1, TakeInv
<1>2. CASE connection_queue_ = <<>>
  <2>1. TypeOK' /\ \A u \in Clients : client'[u] = "held" <=> client[u] = "held"
    BY <1>2 DEF Inv, TypeOK, GetConnection
  <2> QED
    BY <1>2, <2>1, NothingMoves DEF Inv, GetConnection
<1> QED
  BY <1>1, <1>2

LEMMA ReleaseInv ==
  ASSUME Inv, NEW t \in Clients, Release(t) PROVE Inv'
<1> DEFINE q == connection_queue_
           n == Len(connection_queue_)
           c == held[t]
<1>1. /\ q \in Seq(Conns) /\ n \in Nat /\ DOMAIN q = 1..n /\ t \in Holders
      /\ \A i \in 1..n : q[i] \in Conns
  BY DEF Inv, TypeOK, Release, Holders
<1>2. c \in Conns /\ c \in live
  BY <1>1, HeldExists DEF Inv
<1>3. c \notin Queued /\ \A i \in 1..n : q[i] # c
  BY <1>1 DEF Inv, OneHolder, Queued
<1>4. /\ q' \in Seq(Conns) /\ Len(q') = n + 1 /\ DOMAIN q' = 1..(n + 1)
      /\ q'[n + 1] = c /\ \A i \in 1..n : q'[i] = q[i]
  <2>1. q' = Append(q, c)
    BY DEF Release
  <2> HIDE DEF q, c
  <2> QED
    BY <1>1, <1>2, <2>1 DEF q
<1>5. Queued' = Queued \cup {c}
  <2>1. Queued = {q[i] : i \in 1..n} /\ Queued' = {q'[i] : i \in 1..(n + 1)}
    BY <1>1, <1>4 DEF Queued
  <2>2. \A i \in 1..(n + 1) : i \in 1..n \/ i = n + 1
    BY <1>1
  <2>3. 1..n \subseteq 1..(n + 1) /\ n + 1 \in 1..(n + 1)
    BY <1>1
  <2> HIDE DEF q, n, c
  <2> QED
    BY <1>4, <2>1, <2>2, <2>3
<1>6. /\ held' = [held EXCEPT ![t] = NoConn] /\ client' = [client EXCEPT ![t] = "idle"]
      /\ UNCHANGED <<current_size_, live, producer, created, destroyed>>
      /\ idle' = [idle EXCEPT ![c] = 0]
  BY DEF Release
<1>7. TypeOK'
  BY <1>2, <1>4, <1>6, IdleAssumption DEF Inv, TypeOK
<1>8. Holders' = Holders \ {t} /\ \A u \in Holders \ {t} : held'[u] = held[u]
  BY <1>6 DEF Inv, TypeOK, Holders
<1>9. OneHolder'
  <2>1. /\ live = Queued \cup {held[u] : u \in Holders}
        /\ \A u \in Holders : held[u] \notin Queued
        /\ \A u, v \in Holders : held[u] = held[v] => u = v
    BY DEF Inv, OneHolder
  <2>2. {held[u] : u \in Holders} = {held'[u] : u \in Holders'} \cup {c}
    BY <1>1, <1>8
  <2>3. live' = Queued' \cup {held'[u] : u \in Holders'}
    BY <2>1, <2>2, <1>5, <1>6
  <2>4. \A u \in Holders' : held'[u] \notin Queued'
    BY <2>1, <1>1, <1>5, <1>8
  <2>5. \A u, v \in Holders' : held'[u] = held'[v] => u = v
    BY <2>1, <1>8
  <2>6. \A i, j \in 1..(n + 1) : q'[i] = q'[j] => i = j
    <3>1. \A i, j \in 1..n : q[i] = q[j] => i = j
      BY <1>1 DEF Inv, OneHolder
    <3>2. \A i \in 1..(n + 1) : i \in 1..n \/ i = n + 1
      BY <1>1
    <3> HIDE DEF q, n, c
    <3> QED
      BY <1>3, <1>4, <3>1, <3>2
  <2> QED
    BY <2>3, <2>4, <2>5, <2>6, <1>4 DEF OneHolder
<1>10. CountsTwice' /\ Cardinality(live') <= MaxSize
  BY <1>6 DEF Inv, CountsTwice
<1>11. ProducerStocked'
  <2>1. q' # <<>>
    BY <1>1, <1>4
  <2> QED
    BY <2>1 DEF ProducerStocked
<1>12. OldestFirst'
  <2> SUFFICES ASSUME NEW i \in 1..(n + 1), NEW j \in 1..(n + 1), i <= j
               PROVE  idle'[q'[i]] >= idle'[q'[j]]
    BY <1>4 DEF OldestFirst
  <2>1. \A k \in 1..n : idle'[q[k]] = idle[q[k]] /\ idle[q[k]] \in Nat
    BY <1>1, <1>3, <1>6, IdleAssumption DEF Inv, TypeOK
  <2>2. idle'[c] = 0
    BY <1>2, <1>6 DEF Inv, TypeOK
  <2>3. CASE j = n + 1
    <3>1. i \in 1..n \/ i = n + 1
      BY <1>1
    <3> QED
      BY <2>1, <2>2, <2>3, <3>1, <1>4
  <2>4. CASE j # n + 1
    <3>1. i \in 1..n /\ j \in 1..n
      BY <1>1, <2>4
    <3>2. idle[q[i]] >= idle[q[j]]
      BY <3>1, <1>1 DEF Inv, OldestFirst
    <3> QED
      BY <2>1, <3>1, <3>2, <1>4
  <2> QED
    BY <2>3, <2>4
<1> QED
  BY <1>7, <1>9, <1>10, <1>11, <1>12 DEF Inv

\* Deleting the first k connections of the queue: what stays, and how many go.
LEMMA Deleted ==
  ASSUME Inv, NEW k \in 0..Len(connection_queue_)
  PROVE  LET gone == {connection_queue_[i] : i \in 1..k} IN
           /\ gone \subseteq Queued /\ gone \subseteq live
           /\ Queued \ gone = {connection_queue_[i] : i \in (k + 1)..Len(connection_queue_)}
           /\ IsFiniteSet(live \ gone)
           /\ Cardinality(live \ gone) = Cardinality(live) - k
           /\ k <= Cardinality(live)
<1> DEFINE q == connection_queue_
           n == Len(connection_queue_)
           gone == {q[i] : i \in 1..k}
<1>1. n \in Nat /\ DOMAIN q = 1..n /\ Queued = {q[i] : i \in 1..n}
  BY QueuePlaces DEF Inv
<1>2. /\ k \in Nat /\ k <= n /\ 1..k \subseteq 1..n /\ (k + 1)..n \subseteq 1..n
      /\ \A i \in 1..n : i \in 1..k \/ i \in (k + 1)..n
      /\ \A i \in 1..k, j \in (k + 1)..n : i # j
  BY <1>1
<1>3. \A i, j \in 1..n : q[i] = q[j] => i = j
  BY <1>1 DEF Inv, OneHolder
<1>4. gone \subseteq Queued /\ gone \subseteq live
  BY <1>1, <1>2 DEF Inv, OneHolder
<1>5. Queued \ gone = {q[i] : i \in (k + 1)..n}
  <2> HIDE DEF q, n
  <2> QED
    BY <1>1, <1>2, <1>3
<1>6. \A i, j \in 1..k : q[i] = q[j] => i = j
  BY <1>2, <1>3
<1>7. IsFiniteSet(gone) /\ Cardinality(gone) = k
  <2>1. k \in Nat
    BY <1>2
  <2> HIDE DEF q
  <2>2. gone = {q[i] : i \in 1..k}
    OBVIOUS
  <2> HIDE DEF gone
  <2> QED
    BY <2>1, <2>2, <1>6, CountDistinct
<1>8. IsFiniteSet(live) /\ Cardinality(live) \in Nat
  BY LiveFinite DEF Inv
<1>9. live \cap gone = gone
  BY <1>4
<1>10. /\ IsFiniteSet(live \ gone)
       /\ Cardinality(live \ gone) = Cardinality(live) - Cardinality(live \cap gone)
  <2> HIDE DEF gone
  <2> QED
    BY <1>8, FS_Difference
<1>11. Cardinality(gone) <= Cardinality(live)
  <2> HIDE DEF gone
  <2> QED
    BY <1>4, <1>8, FS_Subset
<1> QED
  BY <1>4, <1>5, <1>7, <1>9, <1>10, <1>11

LEMMA RecycleInv == Inv /\ Recycle => Inv'
<1> SUFFICES ASSUME Inv, Recycle PROVE Inv'
  OBVIOUS
<1> DEFINE q == connection_queue_
           n == Len(connection_queue_)
<1>1. PICK k \in 0..n :
        /\ \A i \in 1..k : MayRecycle(i)
        /\ live' = live \ {q[i] : i \in 1..k}
        /\ q' = SubSeq(q, k + 1, n)
        /\ current_size_' = current_size_ - k
  BY DEF Recycle
<1>2. /\ UNCHANGED <<idle, producer, client, held, created, destroyed>> /\ ~destroyed
  BY DEF Recycle
<1>3. q \in Seq(Conns) /\ n \in Nat /\ DOMAIN q = 1..n /\ k \in Nat /\ k <= n
  BY DEF Inv, TypeOK
<1>4. /\ q' \in Seq(Conns) /\ Len(q') = n - k /\ DOMAIN q' = 1..(n - k)
      /\ \A i \in 1..(n - k) : q'[i] = q[i + k]
  <2> HIDE DEF q, n
  <2>1. k + 1 \in 1..(n + 1) /\ n \in Nat /\ \A i \in (k + 1)..n : q[i] \in Conns
    BY <1>3 DEF n
  <2> QED
    BY <1>1, <1>3, <2>1 DEF n
<1> DEFINE gone == {q[i] : i \in 1..k}
<1>5. /\ gone \subseteq Queued /\ gone \subseteq live /\ live' = live \ gone
      /\ Queued \ gone = {q[i] : i \in (k + 1)..n}
      /\ Cardinality(live') = Cardinality(live) - k /\ k <= Cardinality(live)
  BY <1>1, Deleted
<1>6. Queued' = Queued \ gone
  <2>1. Queued' = {q'[i] : i \in 1..(n - k)}
    BY <1>4 DEF Queued
  <2>2. \A i \in (k + 1)..n : i - k \in 1..(n - k) /\ q'[i - k] = q[i]
    BY <1>3, <1>4
  <2>3. \A i \in 1..(n - k) : i + k \in (k + 1)..n
    BY <1>3
  <2> HIDE DEF q, n, gone
  <2> QED
    BY <1>4, <1>5, <2>1, <2>2, <2>3
<1>7. Cardinality(live) \in Nat /\ current_size_ = created + Cardinality(live)
      /\ created \in Nat /\ current_size_ \in Nat
  BY <1>2, LiveFinite DEF Inv, TypeOK, CountsTwice
<1>8. current_size_' \in Nat
  BY <1>1, <1>3, <1>5, <1>7
<1>9. TypeOK'
  BY <1>2, <1>4, <1>5, <1>8 DEF Inv, TypeOK
<1>10. Holders' = Holders
  BY <1>2 DEF Holders
<1>11. OneHolder'
  <2>1. /\ live = Queued \cup {held[u] : u \in Holders}
        /\ \A u \in Holders : held[u] \notin Queued
        /\ \A u, v \in Holders : held[u] = held[v] => u = v
    BY DEF Inv, OneHolder
  <2>2. live' = Queued' \cup {held[u] : u \in Holders}
    <3> HIDE DEF gone
    <3> QED
      BY <1>5, <1>6, <2>1
  <2>3. \A i, j \in 1..(n - k) : q'[i] = q'[j] => i = j
    <3> SUFFICES ASSUME NEW i \in 1..(n - k), NEW j \in 1..(n - k), q'[i] = q'[j]
                 PROVE  i = j
      OBVIOUS
    <3>1. i + k \in DOMAIN q /\ j + k \in DOMAIN q /\ q[i + k] = q[j + k]
      BY <1>3, <1>4
    <3>2. i + k = j + k
      BY <3>1 DEF Inv, OneHolder
    <3> QED
      BY <3>2, <1>3
  <2>4. \A u \in Holders : held[u] \notin Queued'
    <3> HIDE DEF gone
    <3> QED
      BY <1>6, <2>1
  <2> QED
    BY <1>2, <1>4, <1>10, <2>1, <2>2, <2>3, <2>4 DEF OneHolder
<1>12. CountsTwice' /\ Cardinality(live') <= MaxSize
  <2>1. Cardinality(live) <= MaxSize /\ MaxSize \in Nat
    BY SizesAssumption DEF Inv
  <2> QED
    BY <1>1, <1>2, <1>3, <1>5, <1>7, <2>1 DEF CountsTwice
<1>13. ProducerStocked'
  <2> SUFFICES ASSUME MinSize > 0, producer = "wait" PROVE q' # <<>>
    BY <1>2 DEF ProducerStocked
  <2>1. q # <<>>
    BY <1>2 DEF Inv, ProducerStocked
  <2>2. n > 0
    BY <1>3, <2>1
  <2>3. n - k > 0
    <3>1. CASE k = 0
      BY <3>1, <2>2, <1>3
    <3>2. CASE k # 0
      <4>1. n - (k - 1) > MinSize
        BY <1>1, <1>3, <3>2 DEF MayRecycle
      <4> QED
        BY <4>1, <1>3, SizesAssumption
    <3> QED
      BY <3>1, <3>2
  <2> QED
    BY <1>3, <1>4, <2>3
<1>14. OldestFirst'
  <2> SUFFICES ASSUME NEW i \in 1..(n - k), NEW j \in 1..(n - k), i <= j
               PROVE  idle[q'[i]] >= idle[q'[j]]
    BY <1>2, <1>4 DEF OldestFirst
  <2>1. i + k \in DOMAIN q /\ j + k \in DOMAIN q /\ i + k <= j + k
    BY <1>3
  <2>2. idle[q[i + k]] >= idle[q[j + k]]
    BY <2>1 DEF Inv, OldestFirst
  <2> QED
    BY <2>2, <1>4
<1> QED
  BY <1>9, <1>11, <1>12, <1>13, <1>14 DEF Inv

LEMMA DestroyInv == Inv /\ Destroy => Inv'
<1> SUFFICES ASSUME Inv, Destroy PROVE Inv'
  OBVIOUS
<1> DEFINE n == Len(connection_queue_)
<1>1. n \in Nat /\ n \in 0..n /\ DOMAIN connection_queue_ = 1..n
  BY DEF Inv, TypeOK
<1>2. /\ live' = live \ Queued /\ Queued' = {} /\ DOMAIN connection_queue_' = {}
      /\ Holders' = Holders /\ held' = held /\ destroyed'
  BY EmptySeq DEF Destroy, Queued, Holders
<1>3. /\ Cardinality(live') = Cardinality(live) - n /\ n <= Cardinality(live)
  <2>1. Queued = {connection_queue_[i] : i \in 1..n}
    BY <1>1 DEF Queued
  <2> QED
    BY <1>1, <1>2, <2>1, Deleted
<1>4. /\ Cardinality(live) \in Nat /\ current_size_ = created + Cardinality(live)
      /\ created \in Nat
  BY LiveFinite DEF Inv, TypeOK, CountsTwice, Destroy
<1>5. current_size_' \in Nat
  BY <1>1, <1>3, <1>4 DEF Destroy
<1>6. TypeOK'
  BY <1>2, <1>5, EmptySeq DEF Inv, TypeOK, Destroy
<1>7. OneHolder'
  BY <1>2 DEF Inv, OneHolder
<1>8. Cardinality(live') <= MaxSize
  BY <1>1, <1>3, <1>4, SizesAssumption DEF Inv
<1>9. CountsTwice' /\ ProducerStocked' /\ OldestFirst'
  BY <1>2 DEF CountsTwice, ProducerStocked, OldestFirst
<1> QED
  BY <1>6, <1>7, <1>8, <1>9 DEF Inv

LEMMA InvInit == Init => Inv
<1> SUFFICES ASSUME Init PROVE Inv
  OBVIOUS
<1> DEFINE q == connection_queue_
<1>1. MinSize \in Nat /\ MaxSize \in Nat /\ MinSize <= MaxSize /\ MaxIdle \in Nat
  BY SizesAssumption, IdleAssumption
<1>2. q \in Seq(Conns) /\ DOMAIN q = 1..MinSize /\ Len(q) = MinSize
  BY <1>1 DEF Init
<1>3. Queued = live /\ live = {q[i] : i \in 1..MinSize} /\ live \subseteq Conns
  BY <1>2 DEF Init, Queued
<1>4. Holders = {}
  BY DEF Init, Holders
<1>5. TypeOK
  <2>1. idle \in [Conns -> 0..MaxIdle] /\ current_size_ \in Nat /\ created \in Nat
    BY <1>1 DEF Init
  <2>2. /\ producer \in {"run", "wait"} /\ destroyed \in BOOLEAN
        /\ client \in [Clients -> {"idle", "wait", "woken", "held"}]
        /\ held \in [Clients -> Conns \cup {NoConn}]
    BY DEF Init
  <2> QED
    BY <1>2, <1>3, <2>1, <2>2 DEF TypeOK
<1>6. \A i, j \in 1..MinSize : q[i] = q[j] => i = j
  BY DEF Init
<1>7. OneHolder
  BY <1>2, <1>3, <1>4, <1>6 DEF OneHolder
<1>8. Cardinality(live) = MinSize
  <2> HIDE DEF q
  <2> QED
    BY <1>1, <1>3, <1>6, CountDistinct
<1>9. CountsTwice /\ Cardinality(live) <= MaxSize
  BY <1>1, <1>8 DEF Init, CountsTwice
<1>10. ProducerStocked
  BY DEF Init, ProducerStocked
<1>11. OldestFirst
  BY <1>2 DEF Init, OldestFirst
<1> QED
  BY <1>5, <1>7, <1>9, <1>10, <1>11 DEF Inv

LEMMA InvStep == Inv /\ [Next]_vars => Inv'
<1> SUFFICES ASSUME Inv, [Next]_vars PROVE Inv'
  OBVIOUS
<1>1. CASE ProducerWaits
  BY <1>1, ProducerWaitsInv
<1>2. CASE ProducerAdds
  BY <1>2, ProducerAddsInv
<1>3. CASE ProducerWakes
  BY <1>3, ProducerWakesInv
<1>4. CASE Recycle
  BY <1>4, RecycleInv
<1>5. CASE Tick
  BY <1>5, TickInv
<1>6. ASSUME NEW t \in Clients, GetConnection(t) PROVE Inv'
  BY <1>6, GetConnectionInv
<1>7. ASSUME NEW t \in Clients, WaitTimesOut(t) PROVE Inv'
  BY <1>7, WaitTimesOutInv
<1>8. ASSUME NEW t \in Clients, Release(t) PROVE Inv'
  BY <1>8, ReleaseInv
<1>9. CASE Destroy
  BY <1>9, DestroyInv
<1>10. CASE UNCHANGED vars
  <2>1. TypeOK'
    BY <1>10 DEF vars, Inv, TypeOK
  <2> QED
    BY <1>10, <2>1, NothingMoves DEF vars, Inv
<1> QED
  BY <1>1, <1>2, <1>3, <1>4, <1>5, <1>6, <1>7, <1>8, <1>9, <1>10 DEF Next, Exited

LEMMA InvHolds == Spec => []Inv
BY InvInit, InvStep, PTL DEF Spec

-----------------------------------------------------------------------------
(* The theorems.                                                           *)

\* The state of MysqlConnPool keeps its types.
THEOREM TypeCorrect == Spec => []TypeOK
<1>1. Inv => TypeOK
  BY DEF Inv
<1> QED
  BY <1>1, InvHolds, PTL

\* No connection is shared, lost or used after it was deleted; the counter is
\* the number of connections ever made plus the number there are; and there are
\* never more than max_size_.
THEOREM AccountingHolds == Spec => []Accounting
<1>1. Inv => Accounting
  BY DEF Inv, Accounting
<1> QED
  BY <1>1, InvHolds, PTL

\* The producer never sleeps over an empty queue.
THEOREM ProducerStockedHolds == Spec => []ProducerStocked
<1>1. Inv => ProducerStocked
  BY DEF Inv
<1> QED
  BY <1>1, InvHolds, PTL

\* The queue is in the order of idle times.
THEOREM OldestFirstHolds == Spec => []OldestFirst
<1>1. Inv => OldestFirst
  BY DEF Inv
<1> QED
  BY <1>1, InvHolds, PTL

\* The pool's capacity is used up for good: as long as it is not destroyed, no
\* more than max_size_ connections are made in its whole life (the recycler
\* gives back one of the two counts each was given).
UsedUp == created <= MaxSize
THEOREM UsedUpHolds == Spec => []UsedUp
<1>1. Init => UsedUp
  BY SizesAssumption DEF Init, UsedUp
<1>2. Inv /\ UsedUp /\ [Next]_vars => UsedUp'
  <2> SUFFICES ASSUME Inv, UsedUp, [Next]_vars PROVE UsedUp'
    OBVIOUS
  <2>1. CASE ProducerAdds
    <3>1. /\ Cardinality(live) \in Nat /\ created \in Nat /\ MaxSize \in Nat
          /\ current_size_ = created + Cardinality(live) /\ current_size_ < MaxSize
      BY <2>1, LiveFinite, SizesAssumption DEF Inv, TypeOK, CountsTwice, ProducerAdds
    <3>2. created' = created + 1
      BY <2>1 DEF ProducerAdds, AddConnection
    <3> QED
      BY <3>1, <3>2 DEF UsedUp
  <2>2. CASE UNCHANGED created
    BY <2>2 DEF UsedUp
  <2> QED
    BY <2>1, <2>2 DEF Next, vars, ProducerWaits, ProducerWakes, Recycle, Tick,
       GetConnection, WaitTimesOut, Release, Destroy, Exited
<1> QED
  BY <1>1, <1>2, InvHolds, PTL DEF Spec

-----------------------------------------------------------------------------
(* MemoryPool.                                                               *)

MemBlocks == [last : Nat, quote : 0..QuoteMod - 1, failed : Nat]

\* The chunks of cs in page i.
Of(cs, i) == {c \in cs : c.block = i}

\* Every page is used from its first byte up to last_, and every chunk lies
\* below last_: what malloc gives out next overlaps none.
ShapeOk(bs, cs) ==
  /\ \A i \in DOMAIN bs : FirstByte(i) <= bs[i].last /\ bs[i].last <= PAGE_SIZE
  /\ \A c \in cs : /\ c.block \in DOMAIN bs /\ FirstByte(c.block) <= c.from
                   /\ c.from < c.to /\ c.to <= bs[c.block].last
                   /\ c.from % MP_ALIGNMENT = 0
  /\ \A c, d \in cs : c # d /\ c.block = d.block => c.to <= d.from \/ d.to <= c.from

\* quote_ counts the chunks, so a page that is used again has none.
QuotesOk(bs, cs) == \A i \in DOMAIN bs : bs[i].quote = Cardinality(Of(cs, i))

\* The LargeNodes hold the areas, each in one node.
ListOk(ll, as) ==
  /\ \A a \in as : \E i \in DOMAIN ll : ll[i] = a
  /\ \A i, j \in DOMAIN ll : ll[i] = ll[j] /\ ll[i] # NoArea => i = j
  /\ \A i \in DOMAIN ll : ll[i] \in as \cup {NoArea}

Nodes(cs) == {c \in cs : c.node}

\* What holds of every pool, whatever its pages held before.
PoolInv ==
  /\ MemTypeOK /\ Len(blocks) <= pages
  /\ pool_ = "live" => current_ >= 1 /\ Len(blocks) >= 1
  /\ pool_ = "none" => /\ blocks = <<>> /\ chunks = {}
                       /\ large_list_ = <<>> /\ areas = {}
  /\ \A c \in chunks : c.block \in DOMAIN blocks

\* What holds as long as quote_ of every fresh page held zero.
SaneInv ==
  /\ IsFiniteSet(chunks)
  /\ ShapeOk(blocks, chunks) /\ QuotesOk(blocks, chunks)
  /\ ListOk(large_list_, areas)
  /\ Cardinality(Nodes(chunks)) = Len(large_list_)

MemInv == PoolInv /\ (sane => SaneInv)

-----------------------------------------------------------------------------
(* Arithmetic.                                                               *)

LEMMA PageConstants ==
  /\ PAGE_SIZE \in Nat \ {0} /\ MP_ALIGNMENT \in Nat \ {0}
  /\ SizeofPool \in Nat \ {0} /\ SizeofSmallNode \in Nat \ {0}
  /\ SizeofLargeNode \in Nat \ {0} /\ QuoteMod \in Nat \ {0}
  /\ MaxTries \in Nat \ {0} /\ MaxPages \in Nat
BY PageAssumption

LEMMA TimesLess ==
  ASSUME NEW q \in Nat, NEW k \in Nat, NEW a \in Nat \ {0}, q * a < (k + 1) * a
  PROVE  q <= k
OBVIOUS

LEMMA TimesMonotone ==
  ASSUME NEW q \in Nat, NEW k \in Nat, NEW a \in Nat \ {0}, q <= k
  PROVE  q * a <= k * a
OBVIOUS

LEMMA Multiple ==
  ASSUME NEW x \in Nat, NEW a \in Nat \ {0}, x % a = 0
  PROVE  x \div a \in Nat /\ x = (x \div a) * a
OBVIOUS

LEMMA ModSmall ==
  ASSUME NEW x \in Nat, NEW a \in Nat \ {0}, x < a
  PROVE  x % a = x /\ (x + a) % a = x
<1>1. x % a = x
  OBVIOUS
<1>2. (x + a) % a = x
  OBVIOUS
<1> QED
  BY <1>1, <1>2

LEMMA ModRange ==
  ASSUME NEW x \in Nat, NEW a \in Nat \ {0}
  PROVE  x % a \in 0..a - 1
OBVIOUS

\* An aligned address is not below the one it comes from.
LEMMA AlignUp ==
  ASSUME NEW p \in Nat
  PROVE  Align(p) \in Nat /\ p <= Align(p) /\ Align(p) % MP_ALIGNMENT = 0
<1>1. MP_ALIGNMENT \in Nat \ {0}
  BY PageConstants
<1> QED
  BY <1>1 DEF Align

\* Aligning does not pass an aligned limit: end_ - addr is not negative.
LEMMA AlignBelow ==
  ASSUME NEW p \in Nat, NEW limit \in Nat, limit % MP_ALIGNMENT = 0, p <= limit
  PROVE  Align(p) <= limit
<1> DEFINE a == MP_ALIGNMENT
<1>1. a \in Nat \ {0}
  BY PageConstants
<1> HIDE DEF a
<1>2. PICK k \in Nat : k = limit \div a
  BY <1>1
<1>3. limit = k * a
  BY <1>1, <1>2, Multiple DEF a
<1>4. PICK q \in Nat : q = (p + a - 1) \div a
  BY <1>1
<1>5. q * a <= p + a - 1
  BY <1>1, <1>4
<1>6. (k + 1) * a = k * a + a
  BY <1>1
<1>7. k * a \in Nat /\ q * a \in Nat /\ (k + 1) * a \in Nat
  BY <1>1
<1>8. q * a < (k + 1) * a
  BY <1>1, <1>3, <1>5, <1>6, <1>7
<1>9. q <= k
  BY <1>1, <1>8, TimesLess
<1>10. q * a <= k * a
  BY <1>1, <1>9, TimesMonotone
<1> QED
  BY <1>3, <1>4, <1>10 DEF Align, a

LEMMA FirstByteFits ==
  ASSUME NEW i \in Nat \ {0}
  PROVE  /\ FirstByte(i) \in Nat /\ FirstByte(i) <= PAGE_SIZE
         /\ i # 1 => FirstByte(i) = SizeofSmallNode
<1>1. /\ SizeofPool + SizeofSmallNode <= PAGE_SIZE
      /\ SizeofLargeNode + SizeofSmallNode <= PAGE_SIZE
  BY PageAssumption
<1> QED
  BY <1>1, PageConstants DEF FirstByte

\* A set of numbers has a least one, and a bounded one a greatest.
LEMMA LeastNat ==
  ASSUME NEW T, T \subseteq Nat, T # {}
  PROVE  \E x \in T : \A y \in T : x <= y
<1>1. PICK x \in T : \A y \in T : ~(<<y, x>> \in OpToRel(<, Nat))
  BY NatLessThanWellFounded, WFMin
<1>2. ASSUME NEW y \in T PROVE x <= y
  <2>1. ~(<<y, x>> \in OpToRel(<, Nat)) /\ x \in Nat /\ y \in Nat
    BY <1>1
  <2>2. ~(y < x)
    BY <2>1 DEF OpToRel
  <2>3. x \in Nat /\ y \in Nat
    BY <2>1
  <2> QED
    BY ONLY <2>2, <2>3
<1> QED
  BY <1>2

LEMMA GreatestNat ==
  ASSUME NEW n \in Nat, NEW T, T \subseteq 0..n, T # {}
  PROVE  \E x \in T : \A y \in T : y <= x
<1> DEFINE S == {n - x : x \in T}
<1>1. S \subseteq Nat /\ S # {}
  <2>1. \A x \in T : n - x \in Nat
    OBVIOUS
  <2>2. PICK x : x \in T
    OBVIOUS
  <2>3. n - x \in S
    BY <2>2
  <2> QED
    BY <2>1, <2>3
<1>2. PICK z \in S : \A y \in S : z <= y
  BY <1>1, LeastNat
<1>3. PICK x \in T : z = n - x
  BY <1>2
<1>4. ASSUME NEW y \in T PROVE y <= x
  <2>1. n - x <= n - y
    BY <1>2, <1>3, <1>4
  <2>2. x \in Nat /\ y \in Nat
    BY <1>4
  <2> QED
    BY <2>1, <2>2
<1> QED
  BY <1>4

-----------------------------------------------------------------------------
(* Chunks.                                                                   *)

LEMMA ChunkParts ==
  \A c \in Chunks : /\ c.block \in Nat \ {0} /\ c.from \in Nat /\ c.to \in Nat
                    /\ c.node \in BOOLEAN
BY DEF Chunks

LEMMA BlockParts ==
  ASSUME NEW bs \in Seq(MemBlocks)
  PROVE  /\ Len(bs) \in Nat /\ DOMAIN bs = 1..Len(bs)
         /\ \A i \in DOMAIN bs : /\ bs[i] \in MemBlocks /\ bs[i].last \in Nat
                                 /\ bs[i].quote \in 0..QuoteMod - 1
                                 /\ bs[i].failed \in Nat /\ i \in Nat \ {0}
<1>1. Len(bs) \in Nat /\ DOMAIN bs = 1..Len(bs) /\ \A i \in DOMAIN bs : bs[i] \in MemBlocks
  OBVIOUS
<1>2. \A b \in MemBlocks : b.last \in Nat /\ b.quote \in 0..QuoteMod - 1 /\ b.failed \in Nat
  BY DEF MemBlocks
<1> QED
  BY <1>1, <1>2

\* Fewer chunks than quote_ can count are in a page: they start at different
\* multiples of the alignment.
LEMMA FewChunks ==
  ASSUME NEW bs \in Seq(MemBlocks), NEW cs \in SUBSET Chunks, ShapeOk(bs, cs),
         NEW i \in DOMAIN bs
  PROVE  /\ IsFiniteSet(Of(cs, i)) /\ Cardinality(Of(cs, i)) \in Nat
         /\ Cardinality(Of(cs, i)) < QuoteMod
<1> DEFINE a == MP_ALIGNMENT
           k == PAGE_SIZE \div a
           f == [c \in Of(cs, i) |-> c.from \div a]
<1>1. /\ a \in Nat \ {0} /\ PAGE_SIZE \in Nat \ {0} /\ QuoteMod \in Nat \ {0}
      /\ PAGE_SIZE % a = 0 /\ PAGE_SIZE < QuoteMod * a
  BY PageConstants, PageAssumption
<1> HIDE DEF a
<1>2. k \in Nat /\ PAGE_SIZE = k * a
  BY <1>1, Multiple
<1> HIDE DEF k
<1>3. k < QuoteMod
  <2>1. ~(QuoteMod <= k)
    BY <1>1, <1>2, TimesMonotone
  <2> QED
    BY <1>1, <1>2, <2>1
<1>4. ASSUME NEW c \in Of(cs, i)
      PROVE  /\ c \in cs /\ c.block = i /\ c.from \in Nat /\ c.from < PAGE_SIZE
             /\ c.from % a = 0 /\ c.to \in Nat /\ c.from < c.to
  <2>1. /\ c \in cs /\ c.block = i /\ c.from \in Nat /\ c.to \in Nat
        /\ bs[i].last \in Nat
    BY <1>4, ChunkParts, BlockParts DEF Of
  <2>2. /\ c.from < c.to /\ c.to <= bs[i].last /\ c.from % a = 0
        /\ bs[i].last <= PAGE_SIZE
    BY <2>1 DEF ShapeOk, a
  <2> QED
    BY <1>1, <2>1, <2>2
<1>5. ASSUME NEW c \in Of(cs, i) PROVE c.from \div a \in 0..k - 1
  <2>1. PICK q \in Nat : q = c.from \div a /\ c.from = q * a
    BY <1>1, <1>4, <1>5, Multiple
  <2>2. q * a < k * a
    BY <1>2, <1>4, <1>5, <2>1
  <2>3. ~(k <= q)
    <3> SUFFICES ASSUME k <= q PROVE FALSE
      OBVIOUS
    <3>1. k * a <= q * a
      BY <1>1, <1>2, <2>1, TimesMonotone
    <3>2. k * a \in Nat /\ q * a \in Nat
      BY <1>1, <1>2
    <3> QED
      BY <2>2, <3>1, <3>2
  <2> QED
    BY <1>2, <2>1, <2>3
<1>6. ASSUME NEW c \in Of(cs, i), NEW d \in Of(cs, i), c.from \div a = d.from \div a
      PROVE  c = d
  <2>1. c.from = d.from
    <3>1. c.from \in Nat /\ d.from \in Nat /\ c.from % a = 0 /\ d.from % a = 0
      BY <1>4, <1>6
    <3>2. c.from = (c.from \div a) * a /\ d.from = (d.from \div a) * a
      BY <1>1, <3>1, Multiple
    <3> QED
      BY <1>6, <3>2
  <2>2. c \in cs /\ d \in cs /\ c.block = d.block
    BY <1>4, <1>6
  <2>3. ~(c.to <= d.from) /\ ~(d.to <= c.from)
    BY <1>4, <1>6, <2>1
  <2> QED
    BY <2>2, <2>3 DEF ShapeOk
<1>7. f \in Injection(Of(cs, i), 0..k - 1)
  BY <1>5, <1>6 DEF Injection, IsInjective
<1>8. IsFiniteSet(0..k - 1) /\ Cardinality(0..k - 1) = k
  BY <1>2, FS_Interval
<1> HIDE DEF f
<1>9. IsFiniteSet(Of(cs, i)) /\ Cardinality(Of(cs, i)) <= k
  BY <1>7, <1>8, FS_Injection
<1>10. Cardinality(Of(cs, i)) \in Nat
  BY <1>9, FS_CardinalityType
<1> QED
  BY <1>1, <1>2, <1>3, <1>9, <1>10

\* A chunk is given out of page i, above everything given out of it before: the
\* page is an old one, or a new one at the end.
LEMMA GivenShape ==
  ASSUME NEW bs \in Seq(MemBlocks), NEW cs \in SUBSET Chunks, ShapeOk(bs, cs),
         NEW bt \in Seq(MemBlocks), NEW c \in Chunks, c.block \in DOMAIN bt,
         DOMAIN bs \subseteq DOMAIN bt,
         \A j \in DOMAIN bt : j # c.block =>
           j \in DOMAIN bs /\ bt[j].last = bs[j].last,
         FirstByte(c.block) <= c.from,
         c.block \in DOMAIN bs => bs[c.block].last <= c.from,
         c.from < c.to, c.to = bt[c.block].last, c.to <= PAGE_SIZE,
         c.from % MP_ALIGNMENT = 0
  PROVE  ShapeOk(bt, cs \cup {c}) /\ c \notin cs
<1>1. /\ c.from \in Nat /\ c.to \in Nat /\ c.block \in Nat \ {0}
      /\ FirstByte(c.block) \in Nat /\ PAGE_SIZE \in Nat
  BY ChunkParts, FirstByteFits, PageConstants
<1>2. ASSUME NEW d \in cs
      PROVE  /\ d.block \in DOMAIN bs /\ d.from \in Nat /\ d.to \in Nat
             /\ FirstByte(d.block) <= d.from /\ d.from < d.to
             /\ d.to <= bs[d.block].last /\ bs[d.block].last \in Nat
             /\ d.from % MP_ALIGNMENT = 0
  BY <1>2, ChunkParts, BlockParts DEF ShapeOk
<1>3. ASSUME NEW d \in cs, d.block = c.block PROVE d.to <= c.from
  <2>1. d.to <= bs[c.block].last /\ bs[c.block].last <= c.from
    BY <1>2, <1>3
  <2> QED
    BY <1>1, <1>2, <1>3, <2>1
<1>4. c \notin cs
  <2> SUFFICES ASSUME c \in cs PROVE FALSE
    OBVIOUS
  <2>1. c.to <= c.from
    BY <1>3
  <2> QED
    BY <1>1, <2>1
<1>5. ASSUME NEW j \in DOMAIN bt
      PROVE  FirstByte(j) <= bt[j].last /\ bt[j].last <= PAGE_SIZE
  <2>1. CASE j = c.block
    BY <1>1, <2>1
  <2>2. CASE j # c.block
    BY <1>5, <2>2 DEF ShapeOk
  <2> QED
    BY <2>1, <2>2
<1>6. ASSUME NEW d \in cs
      PROVE  d.block \in DOMAIN bt /\ d.to <= bt[d.block].last
  <2>1. d.block \in DOMAIN bt
    BY <1>2, <1>6
  <2>2. CASE d.block = c.block
    <3>1. d.to <= c.from
      BY <1>3, <1>6, <2>2
    <3> QED
      BY <1>1, <1>2, <1>6, <2>1, <2>2, <3>1
  <2>3. CASE d.block # c.block
    BY <1>2, <1>6, <2>1, <2>3
  <2> QED
    BY <2>2, <2>3
<1>7. ASSUME NEW d \in cs \cup {c}
      PROVE  /\ d.block \in DOMAIN bt /\ FirstByte(d.block) <= d.from
             /\ d.from < d.to /\ d.to <= bt[d.block].last
             /\ d.from % MP_ALIGNMENT = 0
  <2>1. CASE d = c
    BY <1>1, <2>1
  <2>2. CASE d \in cs
    BY <1>2, <1>6, <2>2
  <2> QED
    BY <1>7, <2>1, <2>2
<1>8. ASSUME NEW d \in cs \cup {c}, NEW e \in cs \cup {c}, d # e, d.block = e.block
      PROVE  d.to <= e.from \/ e.to <= d.from
  <2>1. CASE d \in cs /\ e \in cs
    BY <1>8, <2>1 DEF ShapeOk
  <2>2. CASE d = c
    BY <1>3, <1>8, <2>2
  <2>3. CASE e = c
    BY <1>3, <1>8, <2>3
  <2> QED
    BY <1>8, <2>1, <2>2, <2>3
<1> QED
  BY <1>4, <1>5, <1>7, <1>8 DEF ShapeOk

\* Then quote_ still counts the chunks.
LEMMA GivenQuotes ==
  ASSUME NEW bs \in Seq(MemBlocks), NEW cs \in SUBSET Chunks,
         ShapeOk(bs, cs), QuotesOk(bs, cs),
         NEW bt \in Seq(MemBlocks), NEW c \in Chunks, c.block \in DOMAIN bt,
         ShapeOk(bt, cs \cup {c}), c \notin cs,
         \A j \in DOMAIN bt : j # c.block =>
           j \in DOMAIN bs /\ bt[j].quote = bs[j].quote,
         c.block \in DOMAIN bs => bt[c.block].quote = (bs[c.block].quote + 1) % QuoteMod,
         c.block \notin DOMAIN bs => bt[c.block].quote = 1 % QuoteMod
  PROVE  QuotesOk(bt, cs \cup {c})
<1> DEFINE i == c.block
           new == cs \cup {c}
<1>1. new \in SUBSET Chunks /\ QuoteMod \in Nat \ {0}
  BY PageConstants
<1>2. ASSUME NEW j \in DOMAIN bt, j # i
      PROVE  bt[j].quote = Cardinality(Of(new, j))
  <2>1. Of(new, j) = Of(cs, j)
    BY <1>2 DEF Of
  <2>2. j \in DOMAIN bs /\ bt[j].quote = bs[j].quote
    BY <1>2
  <2> QED
    BY <2>1, <2>2 DEF QuotesOk
<1>3. Of(new, i) = Of(cs, i) \cup {c} /\ c \notin Of(cs, i)
  BY DEF Of
<1>4. Cardinality(Of(new, i)) \in Nat /\ Cardinality(Of(new, i)) < QuoteMod
  BY <1>1, FewChunks
<1> HIDE DEF new
<1>5. ASSUME i \in DOMAIN bs PROVE bt[i].quote = Cardinality(Of(new, i))
  <2>1. IsFiniteSet(Of(cs, i)) /\ Cardinality(Of(cs, i)) \in Nat
    BY <1>5, FewChunks
  <2>2. Cardinality(Of(new, i)) = Cardinality(Of(cs, i)) + 1
    BY <1>3, <2>1, FS_AddElement
  <2>3. bt[i].quote = (Cardinality(Of(cs, i)) + 1) % QuoteMod
    BY <1>5 DEF QuotesOk
  <2> QED
    BY <1>1, <1>4, <2>2, <2>3, ModSmall
<1>6. ASSUME i \notin DOMAIN bs PROVE bt[i].quote = Cardinality(Of(new, i))
  <2>1. Of(cs, i) = {}
    BY <1>6 DEF Of, ShapeOk
  <2>2. Of(new, i) = {c}
    BY <1>3, <2>1
  <2>3. Cardinality(Of(new, i)) = 1
    BY <2>2, FS_Singleton
  <2>4. bt[i].quote = 1 % QuoteMod
    BY <1>6
  <2> QED
    BY <1>1, <1>4, <2>3, <2>4, ModSmall
<1>7. bt[i].quote = Cardinality(Of(new, i))
  BY <1>5, <1>6
<1> QED
  BY <1>2, <1>7 DEF QuotesOk, new

\* A chunk is given back: page i is used again from its start when it was the
\* last one, and keeps last_ otherwise.
LEMMA TakenBack ==
  ASSUME NEW bs \in Seq(MemBlocks), NEW cs \in SUBSET Chunks,
         ShapeOk(bs, cs), QuotesOk(bs, cs), NEW c \in cs,
         NEW bt \in Seq(MemBlocks), DOMAIN bt = DOMAIN bs,
         \A j \in DOMAIN bs : j # c.block => bt[j] = bs[j],
         bt[c.block].quote = (bs[c.block].quote + QuoteMod - 1) % QuoteMod,
         bt[c.block].quote = 0 => bt[c.block].last = FirstByte(c.block),
         bt[c.block].quote # 0 => bt[c.block].last = bs[c.block].last
  PROVE  ShapeOk(bt, cs \ {c}) /\ QuotesOk(bt, cs \ {c})
<1> DEFINE new == cs \ {c}
<1>1. PICK i : i = c.block
  OBVIOUS
<1>2. i \in DOMAIN bs /\ i \in Nat \ {0}
  BY <1>1, BlockParts DEF ShapeOk
<1>3. Of(new, i) = Of(cs, i) \ {c} /\ c \in Of(cs, i)
  BY <1>1 DEF Of
<1>4. IsFiniteSet(Of(cs, i)) /\ Cardinality(Of(cs, i)) \in Nat /\ Cardinality(Of(cs, i)) < QuoteMod
  BY <1>2, FewChunks
<1>5. /\ IsFiniteSet(Of(new, i)) /\ Cardinality(Of(new, i)) = Cardinality(Of(cs, i)) - 1
      /\ Cardinality(Of(new, i)) \in Nat
  <2>1. IsFiniteSet(Of(new, i)) /\ Cardinality(Of(new, i)) = Cardinality(Of(cs, i)) - 1
    <3>1. PICK S : S = Of(cs, i)
      OBVIOUS
    <3>2. IsFiniteSet(S \ {c}) /\ Cardinality(S \ {c}) = Cardinality(S) - 1
      BY <1>3, <1>4, <3>1, FS_RemoveElement
    <3> QED
      BY <1>3, <3>1, <3>2
  <2> QED
    BY <2>1, FS_CardinalityType
<1>6. bt[i].quote = Cardinality(Of(new, i))
  <2>1. PICK n \in Nat : n = Cardinality(Of(new, i)) /\ Cardinality(Of(cs, i)) = n + 1
    BY <1>4, <1>5
  <2>2. bs[i].quote = n + 1
    BY <1>2, <2>1 DEF QuotesOk
  <2>3. QuoteMod \in Nat \ {0} /\ n < QuoteMod /\ n + 1 + QuoteMod - 1 = n + QuoteMod
    BY <1>4, <2>1, PageConstants
  <2>4. (n + QuoteMod) % QuoteMod = n
    BY <2>3, ModSmall
  <2> QED
    BY <1>1, <2>1, <2>2, <2>3, <2>4
<1>7. QuotesOk(bt, new)
  <2> SUFFICES ASSUME NEW j \in DOMAIN bt, j # i
               PROVE  bt[j].quote = Cardinality(Of(new, j))
    BY <1>6 DEF QuotesOk
  <2>1. Of(new, j) = Of(cs, j)
    BY <1>1 DEF Of
  <2> QED
    BY <1>1, <2>1 DEF QuotesOk
<1>8. ASSUME NEW d \in new, d.block = i PROVE bt[i].quote # 0
  <2>1. d \in Of(new, i)
    BY <1>8 DEF Of
  <2>2. Cardinality(Of(new, i)) # 0
    BY <1>5, <2>1, FS_EmptySet
  <2> QED
    BY <1>6, <2>2
<1>9. ASSUME NEW j \in DOMAIN bt
      PROVE  FirstByte(j) <= bt[j].last /\ bt[j].last <= PAGE_SIZE
  <2>1. CASE j # i
    BY <1>1, <1>9, <2>1 DEF ShapeOk
  <2>2. CASE j = i /\ bt[i].quote = 0
    BY <1>1, <1>2, <2>2, FirstByteFits
  <2>3. CASE j = i /\ bt[i].quote # 0
    BY <1>1, <1>2, <2>3 DEF ShapeOk
  <2> QED
    BY <2>1, <2>2, <2>3
<1>10. ASSUME NEW d \in new
       PROVE  /\ d.block \in DOMAIN bt /\ FirstByte(d.block) <= d.from
              /\ d.from < d.to /\ d.to <= bt[d.block].last
              /\ d.from % MP_ALIGNMENT = 0
  <2>1. /\ d.block \in DOMAIN bs /\ FirstByte(d.block) <= d.from
        /\ d.from < d.to /\ d.to <= bs[d.block].last
        /\ d.from % MP_ALIGNMENT = 0
    BY <1>10 DEF ShapeOk
  <2>2. bt[d.block].last = bs[d.block].last
    BY <1>1, <1>8, <1>10, <2>1
  <2> QED
    BY <2>1, <2>2
<1>11. \A d, e \in new : d # e /\ d.block = e.block => d.to <= e.from \/ e.to <= d.from
  BY DEF ShapeOk
<1> HIDE DEF new
<1>12. ShapeOk(bt, new)
  BY <1>9, <1>10, <1>11 DEF ShapeOk
<1> QED
  BY <1>7, <1>12 DEF new

\* Nothing is given out: every page may start anew.
LEMMA NothingGiven ==
  ASSUME NEW bs \in Seq(MemBlocks),
         \A i \in DOMAIN bs : bs[i].last = FirstByte(i) /\ bs[i].quote = 0
  PROVE  ShapeOk(bs, {}) /\ QuotesOk(bs, {})
<1>1. \A i \in DOMAIN bs : i \in Nat \ {0}
  BY BlockParts
<1>2. \A i \in DOMAIN bs : FirstByte(i) \in Nat /\ FirstByte(i) <= PAGE_SIZE
  BY <1>1, FirstByteFits
<1>3. ShapeOk(bs, {})
  BY <1>2 DEF ShapeOk
<1>4. \A i : Cardinality(Of({}, i)) = 0
  BY FS_EmptySet DEF Of
<1> QED
  BY <1>3, <1>4 DEF QuotesOk

-----------------------------------------------------------------------------
(* The list of LargeNodes.                                                   *)

\* An area goes into a node that has none.
LEMMA NodeUsedAgain ==
  ASSUME NEW ll \in Seq(Areas \cup {NoArea}), NEW as \in SUBSET Areas, ListOk(ll, as),
         NEW i \in DOMAIN ll, ll[i] = NoArea, NEW a \in Areas \ as
  PROVE  ListOk([ll EXCEPT ![i] = a], as \cup {a})
<1> DEFINE lm == [ll EXCEPT ![i] = a]
<1>1. /\ DOMAIN lm = DOMAIN ll /\ lm[i] = a
      /\ \A j \in DOMAIN ll : j # i => lm[j] = ll[j]
  OBVIOUS
<1> HIDE DEF lm
<1>2. NoArea \notin Areas
  BY PageAssumption
<1>3. \A b \in as \cup {a} : \E j \in DOMAIN lm : lm[j] = b
  <2> SUFFICES ASSUME NEW b \in as PROVE \E j \in DOMAIN lm : lm[j] = b
    BY <1>1
  <2>1. PICK j \in DOMAIN ll : ll[j] = b
    BY DEF ListOk
  <2>2. j # i
    BY <1>2, <2>1
  <2> QED
    BY <1>1, <2>1, <2>2
<1>4. \A j \in DOMAIN ll : ll[j] # a
  <2>1. \A j \in DOMAIN ll : ll[j] \in as \cup {NoArea}
    BY DEF ListOk
  <2>2. a \notin as /\ a # NoArea
    BY <1>2
  <2> QED
    BY ONLY <2>1, <2>2
<1>5. ASSUME NEW j \in DOMAIN lm, NEW k \in DOMAIN lm, lm[j] = lm[k], lm[j] # NoArea
      PROVE  j = k
  <2>1. CASE j # i /\ k # i
    BY <1>1, <1>5, <2>1 DEF ListOk
  <2>2. CASE j = i \/ k = i
    BY <1>1, <1>4, <1>5, <2>2
  <2> QED
    BY <2>1, <2>2
<1>6. \A j \in DOMAIN lm : lm[j] \in (as \cup {a}) \cup {NoArea}
  BY <1>1 DEF ListOk
<1>7. ListOk(lm, as \cup {a})
  BY <1>3, <1>5, <1>6 DEF ListOk
<1> QED
  BY <1>7 DEF lm

\* An area goes into a new node, at the head.
LEMMA NodeAdded ==
  ASSUME NEW ll \in Seq(Areas \cup {NoArea}), NEW as \in SUBSET Areas, ListOk(ll, as),
         NEW a \in Areas \ as
  PROVE  /\ <<a>> \o ll \in Seq(Areas \cup {NoArea}) /\ Len(<<a>> \o ll) = Len(ll) + 1
         /\ ListOk(<<a>> \o ll, as \cup {a})
<1>1. PICK S : S = Areas \cup {NoArea}
  OBVIOUS
<1>2. PICK one : one \in Seq(S) /\ one = <<a>> /\ Len(one) = 1 /\ one[1] = a
  <2>1. a \in S
    BY <1>1
  <2>2. <<a>> \in Seq(S) /\ Len(<<a>>) = 1 /\ <<a>>[1] = a
    BY <2>1
  <2> QED
    BY <2>2
<1>3. PICK lm : /\ lm \in Seq(S) /\ lm = one \o ll /\ Len(lm) = Len(one) + Len(ll)
                /\ \A i \in 1..Len(one) + Len(ll) :
                     lm[i] = IF i <= Len(one) THEN one[i] ELSE ll[i - Len(one)]
  <2>1. ll \in Seq(S)
    BY <1>1
  <2>2. /\ one \o ll \in Seq(S) /\ Len(one \o ll) = Len(one) + Len(ll)
        /\ \A i \in 1..Len(one) + Len(ll) :
             (one \o ll)[i] = IF i <= Len(one) THEN one[i] ELSE ll[i - Len(one)]
    BY <1>2, <2>1, ConcatProperties
  <2> QED
    BY <2>2
<1>4. /\ Len(lm) = Len(ll) + 1 /\ lm[1] = a /\ Len(ll) \in Nat
      /\ DOMAIN ll = 1..Len(ll) /\ DOMAIN lm = 1..Len(lm)
  BY <1>2, <1>3
<1>5. NoArea \notin Areas
  BY PageAssumption
<1>6. \A j \in DOMAIN lm : j # 1 => j - 1 \in DOMAIN ll /\ lm[j] = ll[j - 1]
  BY <1>2, <1>3, <1>4
<1>7. \A j \in DOMAIN ll : ll[j] # a
  BY <1>5 DEF ListOk
<1>8. \A b \in as \cup {a} : \E j \in DOMAIN lm : lm[j] = b
  <2>1. 1 \in DOMAIN lm
    BY <1>4
  <2> SUFFICES ASSUME NEW b \in as PROVE \E j \in DOMAIN lm : lm[j] = b
    BY <1>4, <2>1
  <2>2. PICK j \in DOMAIN ll : ll[j] = b
    BY DEF ListOk
  <2>3. j + 1 \in DOMAIN lm /\ j + 1 # 1 /\ j + 1 - 1 = j
    BY <1>4, <2>2
  <2> QED
    BY <1>6, <2>2, <2>3
<1>9. ASSUME NEW j \in DOMAIN lm, NEW k \in DOMAIN lm, lm[j] = lm[k], lm[j] # NoArea
      PROVE  j = k
  <2>1. CASE j # 1 /\ k # 1
    <3>1. j - 1 \in DOMAIN ll /\ k - 1 \in DOMAIN ll /\ ll[j - 1] = ll[k - 1] /\ ll[j - 1] # NoArea
      BY <1>6, <1>9, <2>1
    <3>2. j - 1 = k - 1
      BY <3>1 DEF ListOk
    <3> QED
      BY <1>4, <3>2
  <2>2. CASE j = 1 \/ k = 1
    BY <1>4, <1>6, <1>7, <1>9, <2>2
  <2> QED
    BY <2>1, <2>2
<1>10. \A j \in DOMAIN lm : lm[j] \in (as \cup {a}) \cup {NoArea}
  BY <1>4, <1>6 DEF ListOk
<1>11. ListOk(lm, as \cup {a})
  BY <1>8, <1>9, <1>10 DEF ListOk
<1> QED
  BY <1>1, <1>2, <1>3, <1>4, <1>11

\* An area is given back; its node stays.
LEMMA NodeEmptied ==
  ASSUME NEW ll \in Seq(Areas \cup {NoArea}), NEW as \in SUBSET Areas, ListOk(ll, as),
         NEW i \in DOMAIN ll, ll[i] \in as
  PROVE  ListOk([ll EXCEPT ![i] = NoArea], as \ {ll[i]})
<1> DEFINE lm == [ll EXCEPT ![i] = NoArea]
<1>1. /\ DOMAIN lm = DOMAIN ll /\ lm[i] = NoArea
      /\ \A j \in DOMAIN ll : j # i => lm[j] = ll[j]
  OBVIOUS
<1> HIDE DEF lm
<1>2. NoArea \notin Areas
  BY PageAssumption
<1>3. \A j \in DOMAIN ll : j # i => ll[j] # ll[i]
  BY <1>2 DEF ListOk
<1>4. \A b \in as \ {ll[i]} : \E j \in DOMAIN lm : lm[j] = b
  <2> SUFFICES ASSUME NEW b \in as, b # ll[i] PROVE \E j \in DOMAIN lm : lm[j] = b
    OBVIOUS
  <2>1. PICK j \in DOMAIN ll : ll[j] = b
    BY DEF ListOk
  <2> QED
    BY <1>1, <2>1
<1>5. \A j, k \in DOMAIN lm : lm[j] = lm[k] /\ lm[j] # NoArea => j = k
  BY <1>1 DEF ListOk
<1>6. \A j \in DOMAIN lm : lm[j] \in (as \ {ll[i]}) \cup {NoArea}
  BY <1>1, <1>3 DEF ListOk
<1>7. ListOk(lm, as \ {ll[i]})
  BY <1>4, <1>5, <1>6 DEF ListOk
<1> QED
  BY <1>7 DEF lm

-----------------------------------------------------------------------------
(* malloc from a page.                                                       *)

\* What the two ways of finding a chunk do: they give out one of the pool's,
\* apart from every other as long as the pool is sane.
Gave(node) ==
  /\ blocks' \in Seq(MemBlocks) /\ Len(blocks') >= 1 /\ Len(blocks') <= pages'
  /\ pages' \in 0..MaxPages /\ current_' \in Nat \ {0} /\ next_' = next_
  /\ sane' \in BOOLEAN /\ (sane' => sane)
  /\ \E c \in Chunks :
       /\ c.node = node /\ chunks' = chunks \cup {c}
       /\ \A d \in chunks \cup {c} : d.block \in DOMAIN blocks'
       /\ sane' => /\ c \notin chunks
                   /\ ShapeOk(blocks', chunks \cup {c})
                   /\ QuotesOk(blocks', chunks \cup {c})

\* A page of the list with i's last_ and quote_ changed.
LEMMA BlockChanged ==
  ASSUME NEW bs \in Seq(MemBlocks), NEW i \in DOMAIN bs, NEW b \in MemBlocks
  PROVE  /\ [bs EXCEPT ![i] = b] \in Seq(MemBlocks)
         /\ DOMAIN [bs EXCEPT ![i] = b] = DOMAIN bs
         /\ Len([bs EXCEPT ![i] = b]) = Len(bs)
         /\ [bs EXCEPT ![i] = b][i] = b
         /\ \A j \in DOMAIN bs : j # i => [bs EXCEPT ![i] = b][j] = bs[j]
OBVIOUS

LEMMA FromBlockGives ==
  ASSUME MemInv, pool_ = "live", NEW size \in Nat \ {0}, NEW node \in BOOLEAN,
         MallocFromBlock(size, node)
  PROVE  Gave(node)
<1> DEFINE T == WithRoom(size)
<1>1. /\ blocks \in Seq(MemBlocks) /\ current_ \in Nat \ {0} /\ pages \in 0..MaxPages
      /\ chunks \in SUBSET Chunks /\ sane \in BOOLEAN /\ Len(blocks) >= 1
      /\ Len(blocks) <= pages /\ \A d \in chunks : d.block \in DOMAIN blocks
  BY DEF MemInv, PoolInv, MemTypeOK, MemBlocks
<1>2. T # {} /\ UNCHANGED <<next_, current_, pages, sane>>
  BY DEF MallocFromBlock
<1>3. Len(blocks) \in Nat /\ DOMAIN blocks = 1..Len(blocks)
  BY <1>1
<1>4. T \subseteq DOMAIN blocks /\ T \subseteq Nat
  BY <1>1, <1>3 DEF WithRoom
<1>5. PICK i \in T : i = CHOOSE j \in T : \A k \in T : j <= k
  <2>1. \E j \in T : \A k \in T : j <= k
    BY <1>2, <1>4, LeastNat
  <2> QED
    BY <2>1
<1>6. PICK addr : addr = Align(blocks[i].last)
  OBVIOUS
<1>7. /\ i \in DOMAIN blocks /\ i \in Nat \ {0} /\ blocks[i] \in MemBlocks
      /\ blocks[i].last \in Nat /\ blocks[i].quote \in 0..QuoteMod - 1
      /\ blocks[i].failed \in Nat
  BY <1>1, <1>4, <1>5, BlockParts
<1>8. addr \in Nat /\ blocks[i].last <= addr /\ addr % MP_ALIGNMENT = 0
  BY <1>6, <1>7, AlignUp
<1>9. PICK c : c = Chunk(i, addr, size, node)
  OBVIOUS
<1>10. /\ c \in Chunks /\ c.block = i /\ c.from = addr /\ c.to = addr + size
       /\ c.node = node
  BY <1>7, <1>8, <1>9 DEF Chunk, Chunks
<1>11. chunks' = chunks \cup {c}
  BY <1>5, <1>6, <1>9 DEF MallocFromBlock
<1>12. PICK q : q = (blocks[i].quote + 1) % QuoteMod
  OBVIOUS
<1>13. q \in 0..QuoteMod - 1
  <2>1. QuoteMod \in Nat \ {0} /\ blocks[i].quote + 1 \in Nat
    BY <1>7, PageConstants
  <2> QED
    BY <1>12, <2>1, ModRange
<1>14. PICK b : b = [last |-> addr + size, quote |-> q, failed |-> blocks[i].failed]
  OBVIOUS
<1>15. b \in MemBlocks /\ b.last = addr + size /\ b.quote = q
  BY <1>7, <1>8, <1>13, <1>14 DEF MemBlocks
<1>16. blocks' = [blocks EXCEPT ![i] = b]
  <2>1. blocks' = [blocks EXCEPT ![i].quote = (@ + 1) % QuoteMod, ![i].last = addr + size]
    BY <1>5, <1>6 DEF MallocFromBlock
  <2>2. \A j \in DOMAIN blocks : blocks[j] \in MemBlocks
    BY <1>1
  <2>3. [[blocks[i] EXCEPT !.quote = q] EXCEPT !.last = addr + size] = b
    <3>1. PICK r : r = [blocks[i] EXCEPT !.quote = q]
      OBVIOUS
    <3>2. r = [last |-> blocks[i].last, quote |-> q, failed |-> blocks[i].failed]
      BY <1>7, <3>1 DEF MemBlocks
    <3>3. [r EXCEPT !.last = addr + size] = b
      BY <1>14, <3>2
    <3> QED
      BY <3>1, <3>3
  <2>4. blocks' = [[blocks EXCEPT ![i].quote = q] EXCEPT ![i].last = addr + size]
    BY <1>12, <2>1
  <2> QED
    BY <1>1, <1>7, <2>3, <2>4
<1>17. PICK bt : bt = blocks'
  OBVIOUS
<1>18. /\ bt \in Seq(MemBlocks) /\ DOMAIN bt = DOMAIN blocks /\ Len(bt) = Len(blocks)
       /\ bt[i] = b /\ \A j \in DOMAIN blocks : j # i => bt[j] = blocks[j]
  BY <1>1, <1>7, <1>15, <1>16, <1>17, BlockChanged
<1>19. ASSUME sane
       PROVE  /\ c \notin chunks
              /\ ShapeOk(bt, chunks \cup {c}) /\ QuotesOk(bt, chunks \cup {c})
  <2>1. ShapeOk(blocks, chunks) /\ QuotesOk(blocks, chunks)
    BY <1>19 DEF MemInv, SaneInv
  <2>2. FirstByte(i) <= blocks[i].last /\ blocks[i].last <= PAGE_SIZE
    BY <1>7, <2>1 DEF ShapeOk
  <2>3. PAGE_SIZE \in Nat /\ PAGE_SIZE % MP_ALIGNMENT = 0 /\ FirstByte(i) \in Nat
    BY <1>7, PageAssumption, PageConstants, FirstByteFits
  <2>4. addr <= PAGE_SIZE
    BY <1>6, <1>7, <2>2, <2>3, AlignBelow
  <2>5. HasRoom(i, size)
    BY <1>5 DEF WithRoom
  <2>6. c.to <= PAGE_SIZE /\ FirstByte(c.block) <= c.from /\ c.from < c.to
    BY <1>6, <1>7, <1>8, <1>10, <2>2, <2>3, <2>4, <2>5 DEF HasRoom
  <2>7. /\ c.block \in DOMAIN bt /\ DOMAIN blocks \subseteq DOMAIN bt
        /\ \A j \in DOMAIN bt : j # c.block =>
             /\ j \in DOMAIN blocks /\ bt[j].last = blocks[j].last
             /\ bt[j].quote = blocks[j].quote
        /\ blocks[c.block].last <= c.from /\ c.to = bt[c.block].last
        /\ c.from % MP_ALIGNMENT = 0
        /\ bt[c.block].quote = (blocks[c.block].quote + 1) % QuoteMod
        /\ c.block \in DOMAIN blocks
    BY <1>7, <1>8, <1>10, <1>12, <1>15, <1>18
  <2>8. ShapeOk(bt, chunks \cup {c}) /\ c \notin chunks
    BY <1>1, <1>10, <1>18, <2>1, <2>6, <2>7, GivenShape
  <2>9. QuotesOk(bt, chunks \cup {c})
    BY <1>1, <1>10, <1>18, <2>1, <2>7, <2>8, GivenQuotes
  <2> QED
    BY <1>18, <2>1, <2>8, <2>9
<1>20. \A d \in chunks \cup {c} : d.block \in DOMAIN bt
  BY <1>1, <1>7, <1>10, <1>18
<1> QED
  BY <1>1, <1>2, <1>10, <1>11, <1>17, <1>18, <1>19, <1>20 DEF Gave

LEMMA SmallNodeGives ==
  ASSUME MemInv, pool_ = "live", NEW size \in Nat \ {0},
         size <= PAGE_SIZE - SizeofSmallNode, NEW node \in BOOLEAN,
         MallocSmallNode(size, node)
  PROVE  Gave(node)
<1> DEFINE W == {i \in Passed : blocks[i].failed >= MaxFailed}
           n == Len(blocks) + 1
<1>1. /\ blocks \in Seq(MemBlocks) /\ current_ \in Nat \ {0} /\ pages \in 0..MaxPages
      /\ chunks \in SUBSET Chunks /\ sane \in BOOLEAN /\ Len(blocks) >= 1
      /\ Len(blocks) <= pages /\ \A d \in chunks : d.block \in DOMAIN blocks
  BY DEF MemInv, PoolInv, MemTypeOK, MemBlocks
<1>2. Len(blocks) \in Nat /\ DOMAIN blocks = 1..Len(blocks)
  BY <1>1
<1>3. /\ PAGE_SIZE \in Nat /\ SizeofSmallNode \in Nat \ {0} /\ QuoteMod \in Nat \ {0}
      /\ MaxPages \in Nat /\ SizeofSmallNode % MP_ALIGNMENT = 0
  BY PageConstants, PageAssumption
<1>4. pages < MaxPages /\ pages' = pages + 1 /\ UNCHANGED next_
  BY DEF MallocSmallNode
<1>5. PICK addr : addr = Align(SizeofSmallNode)
  OBVIOUS
<1>6. addr \in Nat /\ addr % MP_ALIGNMENT = 0 /\ addr = SizeofSmallNode
  <2>1. addr \in Nat /\ SizeofSmallNode <= addr /\ addr % MP_ALIGNMENT = 0
    BY <1>3, <1>5, AlignUp
  <2>2. addr <= SizeofSmallNode
    BY <1>3, <1>5, AlignBelow
  <2> QED
    BY <1>3, <2>1, <2>2
<1>7. current_' \in Nat \ {0}
  <2>1. current_' = IF W = {} THEN current_
                    ELSE 1 + CHOOSE i \in W : \A j \in W : j <= i
    BY DEF MallocSmallNode
  <2>2. ASSUME W # {} PROVE (CHOOSE i \in W : \A j \in W : j <= i) \in Nat
    <3>1. W \subseteq 0..Len(blocks)
      BY <1>1, <1>2 DEF Passed
    <3>2. \E i \in W : \A j \in W : j <= i
      BY <1>2, <2>2, <3>1, GreatestNat
    <3>3. (CHOOSE i \in W : \A j \in W : j <= i) \in W
      BY <3>2
    <3> QED
      BY <3>1, <3>3
  <2> HIDE DEF W
  <2>3. PICK m : m = CHOOSE i \in W : \A j \in W : j <= i
    OBVIOUS
  <2> QED
    BY <1>1, <2>1, <2>2, <2>3
<1>8. PICK old : old = [i \in DOMAIN blocks |->
                          IF i \in Passed THEN [blocks[i] EXCEPT !.failed = @ + 1]
                                          ELSE blocks[i]]
  OBVIOUS
<1>9. PICK quote \in Garbage, failed \in Garbage :
        /\ blocks' = Append(old, [last |-> addr + size,
                                  quote |-> (quote + 1) % QuoteMod, failed |-> failed])
        /\ sane' = (sane /\ quote = 0)
  BY <1>5, <1>8 DEF MallocSmallNode
<1>10. quote \in 0..QuoteMod - 1 /\ quote \in Nat /\ failed \in Nat
  <2>1. Garbage \subseteq 0..QuoteMod - 1
    BY PageAssumption
  <2> QED
    BY <1>3, <1>9, <2>1
<1>11. PICK b : b = [last |-> addr + size, quote |-> (quote + 1) % QuoteMod,
                     failed |-> failed]
  OBVIOUS
<1>12. b \in MemBlocks /\ b.last = addr + size /\ b.quote = (quote + 1) % QuoteMod
  <2>1. (quote + 1) % QuoteMod \in 0..QuoteMod - 1
    BY <1>3, <1>10, ModRange
  <2> QED
    BY <1>6, <1>10, <1>11, <2>1 DEF MemBlocks
<1>13. ASSUME NEW i \in DOMAIN blocks
       PROVE  /\ old[i] \in MemBlocks /\ old[i].last = blocks[i].last
              /\ old[i].quote = blocks[i].quote
  <2>1. blocks[i] \in MemBlocks
    BY <1>1, <1>13
  <2> QED
    BY <1>8, <1>13, <2>1 DEF MemBlocks
<1>14. old \in Seq(MemBlocks) /\ DOMAIN old = DOMAIN blocks /\ Len(old) = Len(blocks)
  <2>1. DOMAIN old = 1..Len(blocks) /\ old = [i \in 1..Len(blocks) |-> old[i]]
    BY <1>2, <1>8
  <2>2. old \in Seq(MemBlocks)
    BY <1>2, <1>13, <2>1
  <2> QED
    BY <1>2, <2>1, <2>2
<1>15. PICK bt : bt = Append(old, b)
  OBVIOUS
<1>16. /\ bt \in Seq(MemBlocks) /\ Len(bt) = n /\ DOMAIN bt = 1..n /\ bt[n] = b
       /\ \A i \in DOMAIN blocks : bt[i] = old[i]
  <2>1. bt \in Seq(MemBlocks) /\ Len(bt) = n /\ bt[n] = b
    BY <1>12, <1>14, <1>15
  <2>2. \A i \in 1..Len(old) : bt[i] = old[i]
    BY <1>12, <1>14, <1>15
  <2> QED
    BY <1>2, <1>14, <2>1, <2>2
<1>17. blocks' = bt
  BY <1>9, <1>11, <1>15
<1>18. PICK c : c = Chunk(n, addr, size, node)
  OBVIOUS
<1>19. /\ c \in Chunks /\ c.block = n /\ c.from = addr /\ c.to = addr + size
       /\ c.node = node
  BY <1>2, <1>6, <1>18 DEF Chunk, Chunks
<1>20. chunks' = chunks \cup {c}
  BY <1>5, <1>18 DEF MallocSmallNode
<1>21. n \in Nat \ {0} /\ n # 1 /\ n \notin DOMAIN blocks /\ n \in DOMAIN bt
  BY <1>1, <1>2, <1>16
<1>22. DOMAIN blocks \subseteq DOMAIN bt /\ \A j \in DOMAIN bt : j # n => j \in DOMAIN blocks
  BY <1>2, <1>16
<1> HIDE DEF n
<1>23. ASSUME sane'
       PROVE  /\ c \notin chunks
              /\ ShapeOk(bt, chunks \cup {c}) /\ QuotesOk(bt, chunks \cup {c})
  <2>1. sane /\ quote = 0
    BY <1>9, <1>23
  <2>2. ShapeOk(blocks, chunks) /\ QuotesOk(blocks, chunks)
    BY <2>1 DEF MemInv, SaneInv
  <2>3. FirstByte(n) = SizeofSmallNode
    BY <1>21, FirstByteFits
  <2>4. c.to <= PAGE_SIZE /\ FirstByte(c.block) <= c.from /\ c.from < c.to
    BY <1>3, <1>6, <1>19, <2>3
  <2>5. /\ c.block \in DOMAIN bt /\ c.block \notin DOMAIN blocks
        /\ \A j \in DOMAIN bt : j # c.block =>
             /\ j \in DOMAIN blocks /\ bt[j].last = blocks[j].last
             /\ bt[j].quote = blocks[j].quote
        /\ c.to = bt[c.block].last /\ c.from % MP_ALIGNMENT = 0
        /\ bt[c.block].quote = 1 % QuoteMod
    BY <1>6, <1>12, <1>13, <1>16, <1>19, <1>21, <1>22, <2>1
  <2>6. ShapeOk(bt, chunks \cup {c}) /\ c \notin chunks
    BY <1>1, <1>16, <1>19, <1>22, <2>2, <2>4, <2>5, GivenShape
  <2>7. QuotesOk(bt, chunks \cup {c})
    BY <1>1, <1>16, <1>19, <2>2, <2>5, <2>6, GivenQuotes
  <2> QED
    BY <1>4, <1>16, <2>2, <2>6, <2>7 DEF n
<1>24. \A d \in chunks \cup {c} : d.block \in DOMAIN bt
  BY <1>1, <1>19, <1>21, <1>22
<1>25. Len(bt) >= 1 /\ Len(bt) <= pages' /\ pages' \in 0..MaxPages
  BY <1>1, <1>2, <1>3, <1>4, <1>16 DEF n
<1>26. sane' \in BOOLEAN /\ (sane' => sane)
  BY <1>1, <1>9
<1> QED
  BY <1>4, <1>7, <1>16, <1>17, <1>19, <1>20, <1>23, <1>24, <1>25, <1>26 DEF Gave

-----------------------------------------------------------------------------
(* The steps.                                                                *)

LEMMA MemInvParts ==
  ASSUME MemInv
  PROVE  /\ blocks \in Seq(MemBlocks) /\ current_ \in Nat /\ pages \in 0..MaxPages
         /\ chunks \in SUBSET Chunks /\ sane \in BOOLEAN
         /\ areas \in SUBSET Areas /\ large_list_ \in Seq(Areas \cup {NoArea})
         /\ pool_ \in {"none", "live", "fault"} /\ next_ \in {"null", "wild"}
         /\ Len(blocks) \in Nat /\ DOMAIN blocks = 1..Len(blocks) /\ Len(blocks) <= pages
         /\ Len(large_list_) \in Nat /\ DOMAIN large_list_ = 1..Len(large_list_)
<1>1. /\ blocks \in Seq(MemBlocks) /\ current_ \in Nat /\ pages \in 0..MaxPages
      /\ chunks \in SUBSET Chunks /\ sane \in BOOLEAN
      /\ areas \in SUBSET Areas /\ large_list_ \in Seq(Areas \cup {NoArea})
      /\ pool_ \in {"none", "live", "fault"} /\ next_ \in {"null", "wild"}
      /\ Len(blocks) <= pages
  BY DEF MemInv, PoolInv, MemTypeOK, MemBlocks
<1> QED
  BY <1>1

\* Given out with its node kept in step with the list, a chunk keeps the invariant.
LEMMA GaveKeeps ==
  ASSUME MemInv, pool_ = "live", UNCHANGED pool_, NEW node \in BOOLEAN, Gave(node),
         large_list_' \in Seq(Areas \cup {NoArea}), areas' \in SUBSET Areas,
         sane' => /\ ListOk(large_list_', areas')
                  /\ Len(large_list_') = Len(large_list_) + (IF node THEN 1 ELSE 0)
  PROVE  MemInv'
<1>1. PICK c \in Chunks :
       /\ c.node = node /\ chunks' = chunks \cup {c}
       /\ \A d \in chunks \cup {c} : d.block \in DOMAIN blocks'
       /\ sane' => /\ c \notin chunks
                   /\ ShapeOk(blocks', chunks \cup {c})
                   /\ QuotesOk(blocks', chunks \cup {c})
  BY DEF Gave
<1>2. /\ blocks' \in Seq(MemBlocks) /\ Len(blocks') >= 1 /\ Len(blocks') <= pages'
      /\ pages' \in 0..MaxPages /\ current_' \in Nat \ {0} /\ next_' = next_
      /\ sane' \in BOOLEAN /\ (sane' => sane)
  BY DEF Gave
<1>3. chunks' \subseteq Chunks
  BY <1>1, MemInvParts
<1>4. next_ \in {"null", "wild"} /\ pool_' = "live"
  BY MemInvParts
<1>5. MemTypeOK'
  BY <1>2, <1>3, <1>4 DEF MemTypeOK, MemBlocks
<1>6. PoolInv'
  BY <1>1, <1>2, <1>4, <1>5 DEF PoolInv
<1>7. ASSUME sane' PROVE SaneInv'
  <2>1. IsFiniteSet(chunks) /\ Cardinality(Nodes(chunks)) = Len(large_list_)
    BY <1>2, <1>7 DEF MemInv, SaneInv
  <2>2. IsFiniteSet(chunks')
    BY <1>1, <2>1, FS_AddElement
  <2>3. IsFiniteSet(Nodes(chunks))
    <3>1. Nodes(chunks) \subseteq chunks
      BY DEF Nodes
    <3> QED
      BY <2>1, <3>1, FS_Subset
  <2>4. Cardinality(Nodes(chunks')) = Len(large_list_')
    <3>1. CASE node
      <4>1. Nodes(chunks') = Nodes(chunks) \cup {c} /\ c \notin Nodes(chunks)
        BY <1>1, <1>7, <3>1 DEF Nodes
      <4>2. Cardinality(Nodes(chunks')) = Cardinality(Nodes(chunks)) + 1
        BY <2>3, <4>1, FS_AddElement
      <4> QED
        BY <1>7, <2>1, <3>1, <4>2
    <3>2. CASE ~node
      <4>1. Nodes(chunks') = Nodes(chunks)
        BY <1>1, <3>2 DEF Nodes
      <4>2. Len(large_list_') = Len(large_list_)
        BY <1>7, <3>2, MemInvParts
      <4> QED
        BY <2>1, <4>1, <4>2
    <3> QED
      BY <3>1, <3>2
  <2>5. ShapeOk(blocks', chunks') /\ QuotesOk(blocks', chunks') /\ ListOk(large_list_', areas')
    BY <1>1, <1>7
  <2> QED
    BY <1>1, <1>2, <1>4, <1>7, <2>1, <2>2, <2>4, <2>5 DEF SaneInv, ListOk, ShapeOk, QuotesOk, Nodes, Of, FirstByte
<1> QED
  BY <1>6, <1>7 DEF MemInv

LEMMA CreatePoolKeeps ==
  ASSUME MemInv, CreatePool
  PROVE  MemInv'
<1>1. pool_ = "none" /\ pages < MaxPages /\ pages' = pages + 1 /\ pool_' = "live" /\ current_' = 1
  BY DEF CreatePool
<1>2. blocks = <<>> /\ chunks = {} /\ large_list_ = <<>> /\ areas = {}
  BY <1>1 DEF MemInv, PoolInv
<1>3. PICK quote \in Garbage, next \in {"null", "wild"} :
       /\ blocks' = <<[last |-> FirstByte(1), quote |-> quote, failed |-> 0]>>
       /\ next_' = next
       /\ sane' = (sane /\ quote = 0)
  BY DEF CreatePool
<1>4. UNCHANGED <<large_list_, chunks, areas>>
  BY DEF CreatePool
<1>5. PICK b : b = [last |-> FirstByte(1), quote |-> quote, failed |-> 0]
  OBVIOUS
<1>6. b \in MemBlocks /\ b.last = FirstByte(1) /\ b.quote = quote
  <2>1. FirstByte(1) \in Nat
    BY FirstByteFits
  <2>2. quote \in 0..QuoteMod - 1
    BY <1>3, PageAssumption
  <2> QED
    BY <1>5, <2>1, <2>2 DEF MemBlocks
<1>7. /\ blocks' \in Seq(MemBlocks) /\ Len(blocks') = 1 /\ DOMAIN blocks' = {1}
      /\ blocks'[1] = b
  <2>1. blocks' = <<b>>
    BY <1>3, <1>5
  <2> QED
    BY <1>6, <2>1
<1>8. pages' \in 0..MaxPages /\ 1 <= pages'
  BY <1>1, MemInvParts, PageConstants
<1>9. MemTypeOK'
  BY <1>1, <1>2, <1>3, <1>4, <1>7, <1>8, MemInvParts DEF MemTypeOK, MemBlocks
<1>10. PoolInv'
  BY <1>1, <1>2, <1>4, <1>7, <1>8, <1>9 DEF PoolInv
<1>11. ASSUME sane' PROVE SaneInv'
  <2>1. sane /\ quote = 0
    BY <1>3, <1>11
  <2>3. ShapeOk(blocks', {}) /\ QuotesOk(blocks', {})
    BY <1>6, <1>7, <2>1, NothingGiven
  <2>4. IsFiniteSet({}) /\ Cardinality(Nodes({})) = 0
    BY FS_EmptySet DEF Nodes
  <2>5. ListOk(<<>>, {})
    BY DEF ListOk
  <2>6. chunks' = {} /\ large_list_' = <<>> /\ areas' = {} /\ Len(large_list_') = 0
    BY <1>2, <1>4
  <2> QED
    BY <2>3, <2>4, <2>5, <2>6 DEF SaneInv, ListOk, ShapeOk, QuotesOk, Nodes, Of, FirstByte
<1> QED
  BY <1>10, <1>11 DEF MemInv

LEMMA FaultKeeps ==
  ASSUME MemInv, pool_ = "live", Fault
  PROVE  MemInv'
<1>1. UNCHANGED <<blocks, next_, current_, large_list_, chunks, areas, pages, sane>> /\ pool_' = "fault"
  BY DEF Fault
<1>2. sane' => SaneInv'
  BY <1>1 DEF MemInv, SaneInv, ShapeOk, QuotesOk, ListOk, Nodes, Of, FirstByte
<1>3. PoolInv'
  BY <1>1 DEF MemInv, PoolInv, MemTypeOK
<1> QED
  BY <1>2, <1>3 DEF MemInv

LEMMA MallocSmallKeeps ==
  ASSUME MemInv, NEW size \in Sizes, MallocSmall(size)
  PROVE  MemInv'
<1>1. pool_ = "live" /\ size <= PAGE_SIZE - SizeofSmallNode
  BY DEF MallocSmall
<1>2. size \in Nat \ {0}
  BY PageAssumption
<1>3. CASE FollowsWild(size) /\ Fault
  BY <1>1, <1>3, FaultKeeps
<1>4. CASE /\ MallocFromBlock(size, FALSE) \/ MallocSmallNode(size, FALSE)
           /\ UNCHANGED <<pool_, large_list_, areas>>
  <2>1. Gave(FALSE)
    BY <1>1, <1>2, <1>4, FromBlockGives, SmallNodeGives
  <2>2. sane' => ListOk(large_list_, areas)
    BY <2>1 DEF MemInv, SaneInv, Gave
  <2>3. large_list_' \in Seq(Areas \cup {NoArea}) /\ areas' \in SUBSET Areas
    BY <1>4, MemInvParts
  <2>4. /\ sane' => ListOk(large_list_', areas')
        /\ Len(large_list_') = Len(large_list_) + (IF FALSE THEN 1 ELSE 0)
    BY <1>4, <2>2, MemInvParts
  <2>5. FALSE \in BOOLEAN /\ UNCHANGED pool_
    BY <1>4
  <2> QED
    BY <1>1, <2>1, <2>3, <2>4, <2>5, GaveKeeps
<1> QED
  BY <1>3, <1>4 DEF MallocSmall

LEMMA MallocLargeKeeps ==
  ASSUME MemInv, NEW size \in Sizes, MallocLarge(size)
  PROVE  MemInv'
<1>1. pool_ = "live"
  BY DEF MallocLarge
<1>2. PICK area \in Areas \ areas :
       \/ /\ FreeNodes # {}
          /\ large_list_' = [large_list_ EXCEPT
                ![CHOOSE i \in FreeNodes : \A j \in FreeNodes : i <= j] = area]
          /\ areas' = areas \cup {area}
          /\ UNCHANGED <<pool_, blocks, next_, current_, chunks, pages, sane>>
       \/ /\ FreeNodes = {}
          /\ \/ MallocFromBlock(SizeofLargeNode, TRUE)
             \/ MallocSmallNode(SizeofLargeNode, TRUE)
          /\ large_list_' = <<area>> \o large_list_
          /\ areas' = areas \cup {area}
          /\ UNCHANGED pool_
       \/ FreeNodes = {} /\ NoMemory(SizeofLargeNode) /\ UNCHANGED memVars
       \/ FreeNodes = {} /\ FollowsWild(SizeofLargeNode) /\ Fault
  BY DEF MallocLarge
<1>3. CASE FreeNodes = {} /\ FollowsWild(SizeofLargeNode) /\ Fault
  BY <1>1, <1>3, FaultKeeps
<1>4. CASE UNCHANGED memVars
  BY <1>4 DEF MemInv, PoolInv, MemTypeOK, SaneInv, memVars, ShapeOk, QuotesOk, ListOk, Nodes, Of, FirstByte
<1>5. areas \cup {area} \in SUBSET Areas
  BY <1>2, MemInvParts
<1>6. CASE /\ FreeNodes # {}
           /\ large_list_' = [large_list_ EXCEPT
                 ![CHOOSE i \in FreeNodes : \A j \in FreeNodes : i <= j] = area]
           /\ areas' = areas \cup {area}
           /\ UNCHANGED <<pool_, blocks, next_, current_, chunks, pages, sane>>
  <2>1. FreeNodes \subseteq Nat /\ FreeNodes \subseteq DOMAIN large_list_
    BY MemInvParts DEF FreeNodes
  <2>2. PICK i \in FreeNodes : i = CHOOSE k \in FreeNodes : \A j \in FreeNodes : k <= j
    <3>1. \E k \in FreeNodes : \A j \in FreeNodes : k <= j
      BY <1>6, <2>1, LeastNat
    <3> QED
      BY <3>1
  <2>3. i \in DOMAIN large_list_ /\ large_list_[i] = NoArea
    BY <2>1, <2>2 DEF FreeNodes
  <2>4. large_list_' = [large_list_ EXCEPT ![i] = area]
    BY <1>6, <2>2
  <2>5. large_list_' \in Seq(Areas \cup {NoArea}) /\ Len(large_list_') = Len(large_list_)
    <3>1. area \in Areas \cup {NoArea} /\ large_list_ \in Seq(Areas \cup {NoArea})
      BY <1>2, MemInvParts
    <3> QED
      BY <2>3, <2>4, <3>1
  <2>6. PoolInv'
    BY <1>1, <1>5, <1>6, <2>5 DEF MemInv, PoolInv, MemTypeOK
  <2>7. ASSUME sane' PROVE SaneInv'
    <3>1. SaneInv
      BY <1>6, <2>7 DEF MemInv
    <3>2. ListOk(large_list_, areas)
      BY <3>1 DEF SaneInv
    <3>3. ListOk([large_list_ EXCEPT ![i] = area], areas \cup {area})
      BY <1>2, <2>3, <3>2, MemInvParts, NodeUsedAgain
    <3>4. ListOk(large_list_', areas')
      BY <1>6, <2>4, <3>3
    <3> QED
      BY <1>6, <2>5, <3>1, <3>4 DEF SaneInv, ListOk, ShapeOk, QuotesOk, Nodes, Of, FirstByte
  <2> QED
    BY <2>6, <2>7 DEF MemInv
<1>7. CASE /\ MallocFromBlock(SizeofLargeNode, TRUE) \/ MallocSmallNode(SizeofLargeNode, TRUE)
           /\ large_list_' = <<area>> \o large_list_
           /\ areas' = areas \cup {area}
           /\ UNCHANGED pool_
  <2>1. SizeofLargeNode \in Nat \ {0} /\ SizeofLargeNode <= PAGE_SIZE - SizeofSmallNode
    <3>1. SizeofLargeNode + SizeofSmallNode <= PAGE_SIZE
      BY PageAssumption
    <3> QED
      BY <3>1, PageConstants
  <2>2. Gave(TRUE)
    BY <1>1, <1>7, <2>1, FromBlockGives, SmallNodeGives
  <2>3. large_list_' \in Seq(Areas \cup {NoArea}) /\ areas' \in SUBSET Areas
    <3>1. area \in Areas \cup {NoArea}
      BY <1>2
    <3>2. <<area>> \in Seq(Areas \cup {NoArea})
      BY <3>1
    <3>3. <<area>> \o large_list_ \in Seq(Areas \cup {NoArea})
      BY <3>2, MemInvParts, ConcatProperties
    <3> QED
      BY <1>5, <1>7, <3>3
  <2>4. ASSUME sane'
        PROVE  /\ ListOk(large_list_', areas')
               /\ Len(large_list_') = Len(large_list_) + (IF TRUE THEN 1 ELSE 0)
    <3>1. ListOk(large_list_, areas)
      BY <2>2, <2>4 DEF MemInv, SaneInv, Gave
    <3>2. /\ Len(<<area>> \o large_list_) = Len(large_list_) + 1
          /\ ListOk(<<area>> \o large_list_, areas \cup {area})
      BY <1>2, <3>1, MemInvParts, NodeAdded
    <3> QED
      BY <1>7, <3>2
  <2>5. TRUE \in BOOLEAN /\ UNCHANGED pool_
    BY <1>7
  <2> QED
    BY <1>1, <2>2, <2>3, <2>4, <2>5, GaveKeeps
<1> QED
  BY <1>2, <1>3, <1>4, <1>6, <1>7

LEMMA FreeLargeKeeps ==
  ASSUME MemInv, NEW area \in areas, FreeLarge(area)
  PROVE  MemInv'
<1>1. PICK i \in DOMAIN large_list_ : /\ large_list_[i] = area
                                      /\ large_list_' = [large_list_ EXCEPT ![i] = NoArea]
  BY DEF FreeLarge
<1>2. /\ pool_ = "live" /\ areas' = areas \ {area}
      /\ UNCHANGED <<pool_, blocks, next_, current_, chunks, pages, sane>>
  BY DEF FreeLarge
<1>3. large_list_' \in Seq(Areas \cup {NoArea}) /\ Len(large_list_') = Len(large_list_)
  <2>1. NoArea \in Areas \cup {NoArea}
    OBVIOUS
  <2> QED
    BY <1>1, <2>1, MemInvParts
<1>4. PoolInv'
  BY <1>2, <1>3 DEF MemInv, PoolInv, MemTypeOK
<1>5. ASSUME sane' PROVE SaneInv'
  <2>1. SaneInv
    BY <1>2, <1>5 DEF MemInv
  <2>2. ListOk(large_list_, areas)
    BY <2>1 DEF SaneInv
  <2>3. ListOk([large_list_ EXCEPT ![i] = NoArea], areas \ {large_list_[i]})
    BY <1>1, <2>2, MemInvParts, NodeEmptied
  <2>4. ListOk(large_list_', areas')
    BY <1>1, <1>2, <2>3
  <2> QED
    BY <1>2, <1>3, <2>1, <2>4 DEF SaneInv, ListOk, ShapeOk, QuotesOk, Nodes, Of, FirstByte
<1> QED
  BY <1>4, <1>5 DEF MemInv

LEMMA FreeSmallKeeps ==
  ASSUME MemInv, NEW c \in chunks, FreeSmall(c)
  PROVE  MemInv'
<1>1. PICK q : q = (blocks[c.block].quote + QuoteMod - 1) % QuoteMod
  OBVIOUS
<1>2. /\ pool_ = "live" /\ ~c.node /\ chunks' = chunks \ {c}
      /\ UNCHANGED <<pool_, next_, large_list_, areas, pages, sane>>
  BY DEF FreeSmall
<1>3. /\ c.block \in DOMAIN blocks /\ blocks[c.block] \in MemBlocks
      /\ blocks[c.block].last \in Nat /\ blocks[c.block].quote \in 0..QuoteMod - 1
      /\ blocks[c.block].failed \in Nat /\ c.block \in Nat \ {0}
      /\ \A d \in chunks : d.block \in DOMAIN blocks
  <2>1. \A d \in chunks : d.block \in DOMAIN blocks
    BY DEF MemInv, PoolInv
  <2> QED
    BY <2>1, MemInvParts, BlockParts
<1>4. q \in 0..QuoteMod - 1
  <2>1. QuoteMod \in Nat \ {0} /\ blocks[c.block].quote + QuoteMod - 1 \in Nat
    BY <1>3, PageConstants
  <2> QED
    BY <1>1, <2>1, ModRange
<1>5. PICK b : b = IF q = 0 THEN [last |-> FirstByte(c.block), quote |-> q, failed |-> 0]
                            ELSE [blocks[c.block] EXCEPT !.quote = q]
  OBVIOUS
<1>6. /\ b \in MemBlocks /\ b.quote = q /\ (q = 0 => b.last = FirstByte(c.block))
      /\ (q # 0 => b.last = blocks[c.block].last)
  <2>1. FirstByte(c.block) \in Nat
    BY <1>3, FirstByteFits
  <2>2. CASE q = 0
    BY <1>4, <1>5, <2>1, <2>2 DEF MemBlocks
  <2>3. CASE q # 0
    BY <1>3, <1>4, <1>5, <2>3 DEF MemBlocks
  <2> QED
    BY <2>2, <2>3
<1>7. PICK bt : bt = [blocks EXCEPT ![c.block] = b]
  OBVIOUS
<1>8. /\ bt \in Seq(MemBlocks) /\ DOMAIN bt = DOMAIN blocks /\ Len(bt) = Len(blocks)
      /\ bt[c.block] = b /\ \A j \in DOMAIN blocks : j # c.block => bt[j] = blocks[j]
  BY <1>3, <1>6, <1>7, BlockChanged, MemInvParts
<1>9. blocks' = bt /\ current_' \in {1, current_}
  <2>1. CASE q = 0
    BY <1>1, <1>5, <1>7, <2>1 DEF FreeSmall, Reusable
  <2>2. CASE q # 0
    BY <1>1, <1>5, <1>7, <2>2 DEF FreeSmall, Reusable
  <2> QED
    BY <2>1, <2>2
<1>10. PoolInv'
  <2>1. current_ \in Nat /\ current_ >= 1 /\ Len(blocks) >= 1 /\ Len(blocks) <= pages
    BY <1>2 DEF MemInv, PoolInv, MemTypeOK
  <2>2. current_' \in Nat /\ current_' >= 1
    BY <1>9, <2>1
  <2>3. chunks' \subseteq Chunks /\ \A d \in chunks' : d.block \in DOMAIN blocks'
    BY <1>2, <1>3, <1>8, <1>9, MemInvParts
  <2>4. MemTypeOK'
    BY <1>2, <1>8, <1>9, <2>2, <2>3, MemInvParts DEF MemTypeOK, MemBlocks
  <2> QED
    BY <1>2, <1>8, <1>9, <2>1, <2>2, <2>3, <2>4 DEF PoolInv
<1>11. ASSUME sane' PROVE SaneInv'
  <2>1. SaneInv
    BY <1>2, <1>11 DEF MemInv
  <2>2. ShapeOk(blocks, chunks) /\ QuotesOk(blocks, chunks) /\ IsFiniteSet(chunks)
    BY <2>1 DEF SaneInv
  <2>3. ShapeOk(bt, chunks \ {c}) /\ QuotesOk(bt, chunks \ {c})
    BY <1>1, <1>6, <1>8, <2>2, MemInvParts, TakenBack
  <2>4. IsFiniteSet(chunks \ {c})
    BY <2>2, FS_RemoveElement
  <2>5. Nodes(chunks \ {c}) = Nodes(chunks)
    BY <1>2 DEF Nodes
  <2> QED
    BY <1>2, <1>8, <1>9, <2>1, <2>3, <2>4, <2>5 DEF SaneInv, ListOk, ShapeOk, QuotesOk, Nodes, Of, FirstByte
<1> QED
  BY <1>10, <1>11 DEF MemInv

LEMMA ResetPoolKeeps ==
  ASSUME MemInv, ResetPool
  PROVE  MemInv'
<1>1. /\ pool_ = "live" /\ areas' = {} /\ large_list_' = <<>> /\ current_' = 1
      /\ chunks' = {} /\ UNCHANGED <<next_, pages, sane>>
      /\ pool_' = IF next_ = "wild" THEN "fault" ELSE "live"
      /\ blocks' = [i \in DOMAIN blocks |->
                      [last |-> FirstByte(i), quote |-> 0, failed |-> 0]]
  BY DEF ResetPool, ResetLargeList
<1>2. PICK bt : bt = blocks'
  OBVIOUS
<1>3. /\ DOMAIN bt = 1..Len(blocks) /\ bt = [i \in 1..Len(blocks) |-> bt[i]]
      /\ \A i \in 1..Len(blocks) :
           bt[i] = [last |-> FirstByte(i), quote |-> 0, failed |-> 0]
  BY <1>1, <1>2, MemInvParts
<1>4. ASSUME NEW i \in 1..Len(blocks)
      PROVE  bt[i] \in MemBlocks /\ bt[i].last = FirstByte(i) /\ bt[i].quote = 0
  <2>1. FirstByte(i) \in Nat
    BY <1>4, FirstByteFits
  <2>2. 0 \in 0..QuoteMod - 1
    BY PageConstants
  <2> QED
    BY <1>3, <1>4, <2>1, <2>2 DEF MemBlocks
<1>5. bt \in Seq(MemBlocks) /\ Len(bt) = Len(blocks)
  <2>1. bt \in Seq(MemBlocks)
    BY <1>3, <1>4, MemInvParts
  <2> QED
    BY <1>3, <2>1, MemInvParts
<1>6. PoolInv'
  <2>1. Len(blocks) >= 1 /\ Len(blocks) <= pages
    BY <1>1 DEF MemInv, PoolInv
  <2>2. MemTypeOK'
    BY <1>1, <1>2, <1>5, MemInvParts DEF MemTypeOK, MemBlocks
  <2> QED
    BY <1>1, <1>2, <1>5, <2>1, <2>2 DEF PoolInv
<1>7. ASSUME sane' PROVE SaneInv'
  <2>2. ShapeOk(bt, {}) /\ QuotesOk(bt, {})
    BY <1>3, <1>4, <1>5, NothingGiven
  <2>3. IsFiniteSet({}) /\ Cardinality(Nodes({})) = 0
    BY FS_EmptySet DEF Nodes
  <2>4. ListOk(<<>>, {}) /\ Len(<<>>) = 0
    BY DEF ListOk
  <2> QED
    BY <1>1, <1>2, <2>2, <2>3, <2>4
       DEF SaneInv, ListOk, ShapeOk, QuotesOk, Nodes, Of, FirstByte
<1> QED
  BY <1>6, <1>7 DEF MemInv

LEMMA DestroyPoolKeeps ==
  ASSUME MemInv, DestroyPool
  PROVE  MemInv'
<1>1. /\ pool_ = "live" /\ areas' = {} /\ large_list_' = <<>> /\ chunks' = {}
      /\ blocks' = <<>> /\ next_' = "null" /\ current_' = 0
  BY DEF DestroyPool
<1>2. Len(blocks) \in Nat /\ Len(blocks) <= pages /\ pages \in 0..MaxPages /\ MaxPages \in Nat
  BY MemInvParts, PageConstants
<1>3. /\ pages' \in 0..MaxPages /\ pool_' \in {"none", "fault"} /\ sane' \in BOOLEAN
  <2>0. sane' \in BOOLEAN
    BY MemInvParts DEF DestroyPool
  <2>1. CASE pages' = pages - Len(blocks) /\ pool_' = "none"
    BY <1>2, <2>0, <2>1
  <2>2. CASE \E n \in 1..Len(blocks) - 2 : pages' = pages - n - 1 /\ pool_' = "none"
    <3>1. PICK n \in 1..Len(blocks) - 2 : pages' = pages - n - 1 /\ pool_' = "none"
      BY <2>2
    <3>2. n \in Int /\ 1 <= n /\ n <= Len(blocks) - 2
      BY <1>2, <3>1
    <3>3. pages' \in 0..MaxPages
      BY <1>2, <3>1, <3>2
    <3> QED
      BY <2>0, <3>1, <3>3
  <2>3. CASE pool_' = "fault" /\ UNCHANGED pages
    BY <1>2, <2>0, <2>3
  <2> QED
    BY <2>1, <2>2, <2>3 DEF DestroyPool
<1>4. Len(<<>>) = 0 /\ DOMAIN <<>> = {} /\ <<>> \in Seq(MemBlocks)
      /\ <<>> \in Seq(Areas \cup {NoArea})
  OBVIOUS
<1>5. PoolInv'
  <2>1. MemTypeOK'
    BY <1>1, <1>3, <1>4 DEF MemTypeOK, MemBlocks
  <2> QED
    BY <1>1, <1>3, <1>4, <2>1 DEF PoolInv
<1>6. ASSUME sane' PROVE SaneInv'
  <2>3. ShapeOk(<<>>, {}) /\ QuotesOk(<<>>, {})
    BY <1>4 DEF ShapeOk, QuotesOk
  <2>4. IsFiniteSet({}) /\ Cardinality(Nodes({})) = 0
    BY FS_EmptySet DEF Nodes
  <2>5. ListOk(<<>>, {})
    BY DEF ListOk
  <2> QED
    BY <1>1, <1>4, <2>3, <2>4, <2>5
       DEF SaneInv, ListOk, ShapeOk, QuotesOk, Nodes, Of, FirstByte
<1> QED
  BY <1>5, <1>6 DEF MemInv

-----------------------------------------------------------------------------
(* The theorems.                                                             *)

LEMMA MemInvInit == MemInit => MemInv
<1> SUFFICES ASSUME MemInit PROVE MemInv
  OBVIOUS
<1>1. Len(<<>>) = 0 /\ DOMAIN <<>> = {} /\ <<>> \in Seq(MemBlocks)
      /\ <<>> \in Seq(Areas \cup {NoArea})
  OBVIOUS
<1>2. MaxPages \in Nat
  BY PageConstants
<1>3. PoolInv
  BY <1>1, <1>2 DEF MemInit, PoolInv, MemTypeOK, MemBlocks
<1>4. IsFiniteSet({}) /\ Cardinality(Nodes({})) = 0
  BY FS_EmptySet DEF Nodes
<1>5. SaneInv
  BY <1>1, <1>4 DEF MemInit, SaneInv, ShapeOk, QuotesOk, ListOk
<1> QED
  BY <1>3, <1>5 DEF MemInv

LEMMA MemInvNext == MemInv /\ [MemNext]_memVars => MemInv'
<1> SUFFICES ASSUME MemInv, [MemNext]_memVars PROVE MemInv'
  OBVIOUS
<1>1. CASE CreatePool
  BY <1>1, CreatePoolKeeps
<1>2. CASE ResetPool
  BY <1>2, ResetPoolKeeps
<1>3. CASE DestroyPool
  BY <1>3, DestroyPoolKeeps
<1>4. CASE \E size \in Sizes : MallocSmall(size) \/ MallocLarge(size)
  BY <1>4, MallocSmallKeeps, MallocLargeKeeps
<1>5. CASE \E area \in areas : FreeLarge(area)
  BY <1>5, FreeLargeKeeps
<1>6. CASE \E c \in chunks : FreeSmall(c)
  BY <1>6, FreeSmallKeeps
<1>7. CASE UNCHANGED memVars
  BY <1>7 DEF MemInv, PoolInv, MemTypeOK, SaneInv, memVars, ShapeOk, QuotesOk, ListOk, Nodes, Of, FirstByte
<1> QED
  BY <1>1, <1>2, <1>3, <1>4, <1>5, <1>6, <1>7 DEF MemNext

LEMMA MemInvHolds == MemSpec => []MemInv
BY MemInvInit, MemInvNext, PTL DEF MemSpec

\* If quote_ of every fresh page held zero, which the code does not see to: what
\* malloc gave out and FreeMemory or ResetPool did not take back does not overlap,
\* neither with another chunk nor with the records at the start of the page, and
\* ends with its page.  For every page size, alignment and record sizes, and
\* whatever next_ and failed_ of fresh pages held.
THEOREM ChunksApartHolds == MemSpec => []ChunksApart
<1>1. MemInv => ChunksApart
  <2> SUFFICES ASSUME MemInv, sane PROVE ChunksApart
    BY DEF ChunksApart
  <2>1. ShapeOk(blocks, chunks)
    BY DEF MemInv, SaneInv
  <2>2. ASSUME NEW c \in chunks
        PROVE  /\ c.block \in DOMAIN blocks
               /\ FirstByte(c.block) <= c.from /\ c.to <= PAGE_SIZE
               /\ c.from % MP_ALIGNMENT = 0
    <3>1. /\ c.block \in DOMAIN blocks /\ FirstByte(c.block) <= c.from
          /\ c.to <= blocks[c.block].last /\ c.from % MP_ALIGNMENT = 0
          /\ blocks[c.block].last <= PAGE_SIZE
      BY <2>1, <2>2 DEF ShapeOk
    <3>2. c.to \in Nat /\ blocks[c.block].last \in Nat /\ PAGE_SIZE \in Nat
      BY <2>2, <3>1, MemInvParts, ChunkParts, BlockParts, PageConstants
    <3> QED
      BY <3>1, <3>2
  <2> QED
    BY <2>1, <2>2 DEF ChunksApart, ShapeOk
<1> QED
  BY <1>1, MemInvHolds, PTL

\* If quote_ of every fresh page held zero, which the code does not see to: quote_
\* counts the chunks of its page (so no page is used again too early), the
\* LargeNodes hold each area once, and each LargeNode has a chunk of its own.
\* Nothing is said of the wild pointers that next_ of the head and DestroyPool's
\* walk lead to, nor of pages DestroyPool leaves behind.
THEOREM AccountedHolds == MemSpec => []Accounted
<1>1. MemInv => Accounted
  <2> SUFFICES ASSUME MemInv, sane PROVE Accounted
    BY DEF Accounted
  <2>1. SaneInv
    BY DEF MemInv
  <2>2. ASSUME NEW i \in DOMAIN blocks
        PROVE  blocks[i].quote = Cardinality(ChunksOf(i)) % QuoteMod
    <3>1. ChunksOf(i) = Of(chunks, i)
      BY DEF ChunksOf, Of
    <3>2. Cardinality(Of(chunks, i)) \in Nat /\ Cardinality(Of(chunks, i)) < QuoteMod
      BY <2>1, <2>2, MemInvParts, FewChunks DEF SaneInv
    <3>3. blocks[i].quote = Cardinality(Of(chunks, i))
      BY <2>1, <2>2 DEF SaneInv, QuotesOk
    <3>4. Cardinality(Of(chunks, i)) % QuoteMod = Cardinality(Of(chunks, i))
      BY <3>2, ModSmall, PageConstants
    <3> QED
      BY <3>1, <3>3, <3>4
  <2>3. ListOk(large_list_, areas) /\ NoArea \notin Areas /\ areas \subseteq Areas
    BY <2>1, PageAssumption, MemInvParts DEF SaneInv
  <2>4. ASSUME NEW a \in areas
        PROVE  Cardinality({i \in DOMAIN large_list_ : large_list_[i] = a}) = 1
    <3>1. PICK i \in DOMAIN large_list_ : large_list_[i] = a
      BY <2>3, <2>4 DEF ListOk
    <3>2. a # NoArea
      BY <2>3, <2>4
    <3>3. \A j \in DOMAIN large_list_ : large_list_[j] = a => j = i
      BY <2>3, <3>1, <3>2 DEF ListOk
    <3>4. {j \in DOMAIN large_list_ : large_list_[j] = a} = {i}
      BY <3>1, <3>3
    <3> QED
      BY <3>4, FS_Singleton
  <2>5. \A i \in DOMAIN large_list_ : large_list_[i] \in areas \cup {NoArea}
    BY <2>3 DEF ListOk
  <2>6. Cardinality({c \in chunks : c.node}) = Len(large_list_)
    BY <2>1 DEF SaneInv, Nodes
  <2> QED
    BY <2>1, <2>2, <2>4, <2>5, <2>6 DEF Accounted, SaneInv
<1> QED
  BY <1>1, MemInvHolds, PTL

\* Whatever fresh pages hold, the pool's records keep their types.
THEOREM MemTypeCorrect == MemSpec => []MemTypeOK
<1>1. MemInv => MemTypeOK
  BY DEF MemInv, PoolInv
<1> QED
  BY <1>1, MemInvHolds, PTL
=============================================================================
