------------------------------ MODULE NetProofs ------------------------------
(***************************************************************************)
(* The network layer around a connection.                                  *)
(*                                                                         *)
(* PollPoller keeps its array, its map and the channels' indices together, *)
(* and implements Poller, for every set of channels, descriptors and       *)
(* events.  TcpServer tears each connection down once, on its own loop,    *)
(* for every number of loops, callers and connections.                     *)
(***************************************************************************)
EXTENDS PollPoller, TcpServer, FiniteSetTheorems, SequenceTheorems, TLAPS

\* The inductive invariant.
Inv == TypeOK /\ FdsDiffer /\ MapInv /\ PlacesInv /\ ArrayInv /\ AssertsHold

PollFds == [fd : Int, events : SUBSET Events]

\* A pollfd is one.
LEMMA PollFdRecord ==
  ASSUME NEW f \in Int, NEW ev \in SUBSET Events
  PROVE  [fd |-> f, events |-> ev] \in PollFds
BY DEF PollFds

-----------------------------------------------------------------------------
(* Descriptors and places.                                                 *)

\* An ignored descriptor is negative, and decoding gives it back.
LEMMA IgnoredFacts ==
  ASSUME NEW f \in Fds
  PROVE  f \in Nat /\ Ignored(f) \in Int /\ Ignored(f) < 0 /\ Ignored(Ignored(f)) = f
BY FdsAssumption DEF Ignored

LEMMA FdFacts ==
  ASSUME TypeOK, NEW c \in Channels
  PROVE  fd_[c] \in Fds /\ fd_[c] \in Int /\ Ignored(fd_[c]) \in Int
<1>1. fd_[c] \in Fds
  BY DEF TypeOK
<1>2. fd_[c] \in Nat /\ Ignored(fd_[c]) \in Int
  BY <1>1, IgnoredFacts
<1> QED
  BY <1>1, <1>2

\* What the pollfd of a registered channel is.
LEMMA PlaceOf ==
  ASSUME TypeOK, PlacesInv, NEW c \in Channels, life[c] \in Registered
  PROVE  /\ index_[c] \in Int /\ index_[c] + 1 \in DOMAIN poll_fds_
         /\ index_[c] \in 0..(Len(poll_fds_) - 1)
         /\ poll_fds_[index_[c] + 1].events = events_[c]
         /\ poll_fds_[index_[c] + 1].fd = IF events_[c] = {} /\ life[c] = "added"
                                            THEN Ignored(fd_[c]) ELSE fd_[c]
         /\ channels_[fd_[c]] = c
<1>1. index_[c] \in Int /\ Len(poll_fds_) \in Nat
  BY DEF TypeOK
<1>2. 0 <= index_[c] /\ index_[c] < Len(poll_fds_)
  BY DEF PlacesInv, Found
<1>3. DOMAIN poll_fds_ = 1..Len(poll_fds_)
  BY DEF TypeOK
<1> QED
  BY <1>1, <1>2, <1>3 DEF PlacesInv, Found, At

\* Registered channels have different places.
LEMMA PlacesDiffer ==
  ASSUME TypeOK, PlacesInv, FdsDiffer,
         NEW c \in Channels, NEW d \in Channels,
         life[c] \in Registered, life[d] \in Registered, index_[c] = index_[d]
  PROVE  c = d
<1>1. fd_[c] \in Fds /\ fd_[d] \in Fds
  BY DEF TypeOK
<1>2. fd_[c] = fd_[d]
  <2>1. CASE events_[c] = {} /\ life[c] = "added"
    BY <2>1, <1>1, PlaceOf, IgnoredFacts
  <2>2. CASE ~(events_[c] = {} /\ life[c] = "added")
    BY <2>2, <1>1, PlaceOf, IgnoredFacts
  <2> QED
    BY <2>1, <2>2
<1> QED
  BY <1>2 DEF FdsDiffer, Registered

\* The last pollfd belongs to a registered channel, which FdAtEnd and channels_
\* find.
LEMMA AtEnd ==
  ASSUME Inv, poll_fds_ # <<>>
  PROVE  \E e \in Channels :
           /\ life[e] \in Registered /\ index_[e] = Len(poll_fds_) - 1
           /\ FdAtEnd = fd_[e] /\ FdAtEnd \in Fds /\ channels_[FdAtEnd] = e
<1>1. Len(poll_fds_) \in DOMAIN poll_fds_ /\ Len(poll_fds_) \in Nat
  BY DEF Inv, TypeOK
<1>2. PICK e \in Channels : life[e] \in Registered /\ index_[e] = Len(poll_fds_) - 1
  BY <1>1 DEF Inv, ArrayInv
<1>3. index_[e] + 1 = Len(poll_fds_)
  BY <1>1, <1>2
<1>4. fd_[e] \in Fds
  BY DEF Inv, TypeOK
<1>5. FdAtEnd = fd_[e]
  <2>1. CASE events_[e] = {} /\ life[e] = "added"
    BY <2>1, <1>2, <1>3, <1>4, PlaceOf, IgnoredFacts DEF Inv, FdAtEnd
  <2>2. CASE ~(events_[e] = {} /\ life[e] = "added")
    BY <2>2, <1>2, <1>3, <1>4, PlaceOf, IgnoredFacts DEF Inv, FdAtEnd
  <2> QED
    BY <2>1, <2>2
<1> QED
  BY <1>2, <1>4, <1>5, PlaceOf DEF Inv

-----------------------------------------------------------------------------
(* What the calls do when no assert of theirs fails, and that none does but *)
(* the ones of RemoveChannel.                                              *)

Added(c, ev) ==
  /\ life[c] = "new" /\ index_[c] < 0 /\ channels_[fd_[c]] = NoChannel
  /\ events_' = [events_ EXCEPT ![c] = ev]
  /\ poll_fds_' = Append(poll_fds_, [fd |-> fd_[c], events |-> ev])
  /\ index_' = [index_ EXCEPT ![c] = Len(poll_fds_)]
  /\ channels_' = [channels_ EXCEPT ![fd_[c]] = c]
  /\ life' = [life EXCEPT ![c] = IF ev = {} THEN "silent" ELSE "added"]
  /\ UNCHANGED <<fd_, active_channels_, failed>>

Updated(c, ev) ==
  /\ life[c] \in Registered
  /\ events_' = [events_ EXCEPT ![c] = ev]
  /\ poll_fds_' = [poll_fds_ EXCEPT ![index_[c] + 1] = PollFd(c, ev)]
  /\ life' = [life EXCEPT ![c] = "added"]
  /\ UNCHANGED <<channels_, fd_, index_, active_channels_, failed>>

Removed(c) ==
  /\ life[c] \in Registered /\ MayRemove(c)
  /\ LET last == Len(poll_fds_) IN
       poll_fds_' = SubSeq([poll_fds_ EXCEPT ![index_[c] + 1] = poll_fds_[last]],
                           1, last - 1)
  /\ MoveIndex(c)
  /\ channels_' = [channels_ EXCEPT ![fd_[c]] = NoChannel]
  /\ life' = [life EXCEPT ![c] = "removed"]
  /\ UNCHANGED <<events_, fd_, active_channels_, failed>>

Refused(c) ==
  /\ life[c] = "silent" \/ events_[c] # {}
  /\ failed' = [call |-> "RemoveChannel", channel |-> c]
  /\ UNCHANGED <<poll_fds_, channels_, fd_, events_, index_, life,
                 active_channels_>>

Reported(ready) ==
  /\ ready \subseteq {i \in DOMAIN poll_fds_ : poll_fds_[i].fd >= 0}
  /\ \A c \in Channels : life[c] # "silent"
  /\ active_channels_' = {channels_[poll_fds_[i].fd] : i \in ready}
  /\ UNCHANGED <<poll_fds_, channels_, fd_, events_, index_, life, failed>>

LEMMA AddSucceeds ==
  ASSUME Inv, NEW c \in Channels, NEW ev, AddChannel(c, ev)
  PROVE  Added(c, ev)
<1>1. life[c] = "new" /\ index_[c] < 0 /\ channels_[fd_[c]] = NoChannel
  BY DEF AddChannel, Inv, PlacesInv
<1> QED
  BY <1>1 DEF AddChannel, Added

LEMMA UpdateSucceeds ==
  ASSUME Inv, NEW c \in Channels, NEW ev, UpdateChannel(c, ev)
  PROVE  Updated(c, ev)
<1>1. Found(c) /\ At(index_[c]).fd \in {fd_[c], Ignored(fd_[c])}
  BY DEF UpdateChannel, Inv, PlacesInv
<1> QED
  BY <1>1 DEF UpdateChannel, Updated

LEMMA RemoveOutcomes ==
  ASSUME Inv, NEW c \in Channels, RemoveChannel(c)
  PROVE  Removed(c) \/ Refused(c)
<1>1. CASE MayRemove(c)
  BY <1>1 DEF RemoveChannel, Removed
<1>2. CASE ~MayRemove(c)
  <2>1. life[c] \in Registered
    BY DEF RemoveChannel
  <2>2. life[c] = "silent" \/ events_[c] # {}
    <3> SUFFICES ASSUME life[c] = "added", events_[c] = {} PROVE FALSE
      BY <2>1 DEF Registered
    <3>1. /\ Found(c) /\ At(index_[c]).events = {}
          /\ At(index_[c]).fd = Ignored(fd_[c])
      BY <2>1 DEF Inv, PlacesInv
    <3>2. At(index_[c]) \in PollFds
      <4>1. index_[c] + 1 \in DOMAIN poll_fds_ /\ poll_fds_ \in Seq(PollFds)
        BY <2>1, PlaceOf DEF Inv, TypeOK, PollFds
      <4> HIDE DEF PollFds
      <4> QED
        BY <4>1 DEF At
    <3>3. At(index_[c]) = [fd |-> Ignored(fd_[c]), events |-> {}]
      BY <3>1, <3>2 DEF PollFds
    <3> QED
      BY <3>1, <3>3, <1>2 DEF MayRemove
  <2> QED
    BY <2>2, <1>2 DEF RemoveChannel, Refused, Fails
<1> QED
  BY <1>1, <1>2

\* A pollfd that is not ignored is that of the channel channels_ names.
LEMMA ReadyKnown ==
  ASSUME Inv, NEW i \in DOMAIN poll_fds_, poll_fds_[i].fd >= 0
  PROVE  \E d \in Channels :
           /\ life[d] \in Registered /\ index_[d] + 1 = i
           /\ poll_fds_[i].fd = fd_[d] /\ channels_[fd_[d]] = d
           /\ ~(events_[d] = {} /\ life[d] = "added")
<1>1. PICK d \in Channels : life[d] \in Registered /\ index_[d] = i - 1
  BY DEF Inv, ArrayInv
<1>2. i \in Nat
  BY DEF Inv, TypeOK
<1>3. index_[d] + 1 = i
  BY <1>1, <1>2
<1>4. fd_[d] \in Fds /\ Ignored(fd_[d]) < 0 /\ Ignored(fd_[d]) \in Int
  BY FdFacts, IgnoredFacts DEF Inv
<1> QED
  BY <1>1, <1>3, <1>4, PlaceOf DEF Inv

LEMMA PollSucceeds ==
  ASSUME Inv, NEW ready \in SUBSET DOMAIN poll_fds_, Poll(ready)
  PROVE  Reported(ready)
<1>1. ASSUME NEW i \in ready PROVE Known(i)
  <2>1. i \in DOMAIN poll_fds_ /\ poll_fds_[i].fd >= 0
    BY DEF Poll
  <2> QED
    BY <2>1, ReadyKnown, ChannelsAssumption DEF Known
<1> QED
  BY <1>1 DEF Poll, Reported

-----------------------------------------------------------------------------
(* One lemma per action.                                                   *)

LEMMA ConstructInv ==
  ASSUME Inv, failed = Nothing, NEW c \in Channels, NEW f \in Fds, Construct(c, f)
  PROVE  Inv'
<1> USE DEF Construct, Inv
<1>1. TypeOK'
  BY DEF TypeOK, Lives
<1>2. FdsDiffer'
  BY DEF TypeOK, FdsDiffer
<1>3. MapInv'
  BY ChannelsAssumption DEF TypeOK, MapInv, Registered
<1>4. channels_[f] = NoChannel
  <2> SUFFICES ASSUME channels_[f] # NoChannel PROVE FALSE
    OBVIOUS
  <2>1. channels_[f] \in Channels
    BY DEF TypeOK
  <2>2. life[channels_[f]] \in Registered /\ fd_[channels_[f]] = f
    BY DEF MapInv
  <2> QED
    BY <2>1, <2>2 DEF Registered
<1>5. PlacesInv'
  BY <1>4 DEF TypeOK, PlacesInv, Found, At, Registered
<1>6. ArrayInv'
  BY DEF TypeOK, ArrayInv, Registered
<1>7. AssertsHold'
  BY DEF AssertsHold
<1> QED
  BY <1>1, <1>2, <1>3, <1>5, <1>6, <1>7

LEMMA DestructInv ==
  ASSUME Inv, failed = Nothing, NEW c \in Channels, Destruct(c)
  PROVE  Inv'
<1> USE DEF Destruct, Inv
<1>1. TypeOK'
  BY DEF TypeOK, Lives
<1>2. FdsDiffer'
  BY DEF TypeOK, FdsDiffer
<1>3. MapInv'
  BY DEF TypeOK, MapInv, Registered
<1>4. PlacesInv'
  BY DEF TypeOK, PlacesInv, Found, At, Registered
<1>5. ArrayInv'
  BY DEF TypeOK, ArrayInv, Registered
<1>6. AssertsHold'
  BY DEF AssertsHold
<1> QED
  BY <1>1, <1>2, <1>3, <1>4, <1>5, <1>6

LEMMA AddInv ==
  ASSUME Inv, NEW c \in Channels, NEW ev \in SUBSET Events, failed = Nothing,
         Added(c, ev)
  PROVE  Inv'
<1> DEFINE pfd == [fd |-> fd_[c], events |-> ev]
<1>1. fd_[c] \in Fds /\ fd_[c] \in Int /\ pfd \in PollFds
  <2>1. fd_[c] \in Fds /\ fd_[c] \in Int
    BY FdFacts DEF Inv
  <2>2. pfd \in PollFds
    BY <2>1, PollFdRecord, Zenon
  <2> QED
    BY <2>1, <2>2
<1>2. poll_fds_ \in Seq(PollFds) /\ Len(poll_fds_) \in Nat
  BY DEF Inv, TypeOK, PollFds
<1>3. /\ poll_fds_' \in Seq(PollFds) /\ Len(poll_fds_') = Len(poll_fds_) + 1
      /\ poll_fds_'[Len(poll_fds_) + 1] = pfd
      /\ \A i \in 1..Len(poll_fds_) : poll_fds_'[i] = poll_fds_[i]
      /\ DOMAIN poll_fds_' = 1..(Len(poll_fds_) + 1)
  <2> HIDE DEF pfd, PollFds
  <2>1. poll_fds_' = Append(poll_fds_, pfd)
    BY DEF Added, pfd
  <2> QED
    BY <1>1, <1>2, <2>1
<1>4. TypeOK'
  BY <1>1, <1>2, <1>3 DEF Inv, TypeOK, Added, PollFds, Lives
<1>5. FdsDiffer'
  BY DEF Inv, TypeOK, FdsDiffer, Added
<1>6. MapInv'
  BY ChannelsAssumption DEF Inv, TypeOK, MapInv, Added, Registered
<1>7. PlacesInv'
  <2> SUFFICES ASSUME NEW d \in Channels
               PROVE  /\ life'[d] = "new" => index_'[d] < 0 /\ channels_'[fd_'[d]] = NoChannel
                      /\ life'[d] = "silent" => events_'[d] = {}
                      /\ life'[d] \in Registered =>
                           /\ channels_'[fd_'[d]] = d
                           /\ 0 <= index_'[d] /\ index_'[d] < Len(poll_fds_')
                           /\ poll_fds_'[index_'[d] + 1].events = events_'[d]
                           /\ poll_fds_'[index_'[d] + 1].fd =
                                IF events_'[d] = {} /\ life'[d] = "added"
                                  THEN Ignored(fd_'[d]) ELSE fd_'[d]
    BY DEF PlacesInv, Found, At, Ignored
  <2>1. CASE d = c
    BY <2>1, <1>1, <1>2, <1>3 DEF Inv, TypeOK, Added, Registered
  <2>2. CASE d # c
    <3>1. /\ life'[d] = life[d] /\ index_'[d] = index_[d] /\ fd_'[d] = fd_[d]
          /\ events_'[d] = events_[d]
      BY <2>2 DEF Inv, TypeOK, Added
    <3>2. life[d] # "none" => channels_'[fd_[d]] = channels_[fd_[d]]
      BY <2>2 DEF Inv, TypeOK, FdsDiffer, Added
    <3>3. CASE life[d] \in Registered
      <4>1. index_[d] + 1 \in 1..Len(poll_fds_) /\ index_[d] \in Int
        BY <3>3, <1>2, PlaceOf DEF Inv
      <4> QED
        BY <3>1, <3>2, <3>3, <4>1, <1>2, <1>3 DEF Inv, PlacesInv, Found, At, Registered
    <3>4. CASE life[d] \notin Registered
      BY <3>1, <3>2, <3>4 DEF Inv, PlacesInv
    <3> QED
      BY <3>3, <3>4
  <2> QED
    BY <2>1, <2>2
<1>8. ArrayInv'
  <2> SUFFICES ASSUME NEW i \in 1..(Len(poll_fds_) + 1)
               PROVE  \E d \in Channels : life'[d] \in Registered /\ index_'[d] = i - 1
    BY <1>3 DEF ArrayInv
  <2>1. CASE i = Len(poll_fds_) + 1
    <3>1. life'[c] \in Registered /\ index_'[c] = Len(poll_fds_)
      BY DEF Inv, TypeOK, Added, Registered
    <3> QED
      BY <3>1, <2>1, <1>2
  <2>2. CASE i \in 1..Len(poll_fds_)
    <3>0. i \in DOMAIN poll_fds_
      BY <2>2, <1>2
    <3>1. PICK d \in Channels : life[d] \in Registered /\ index_[d] = i - 1
      BY <3>0 DEF Inv, ArrayInv
    <3>2. d # c
      BY <3>1 DEF Added, Registered
    <3>3. life'[d] \in Registered /\ index_'[d] = i - 1
      BY <3>1, <3>2 DEF Inv, TypeOK, Added
    <3> QED
      BY <3>3
  <2> QED
    BY <2>1, <2>2, <1>2
<1>9. AssertsHold'
  BY DEF Added, AssertsHold
<1> QED
  BY <1>4, <1>5, <1>6, <1>7, <1>8, <1>9 DEF Inv

LEMMA UpdateInv ==
  ASSUME Inv, NEW c \in Channels, NEW ev \in SUBSET Events, failed = Nothing,
         Updated(c, ev)
  PROVE  Inv'
<1> DEFINE pfd == PollFd(c, ev)
           i   == index_[c] + 1
<1>1. fd_[c] \in Fds /\ fd_[c] \in Int /\ Ignored(fd_[c]) \in Int
  BY FdFacts DEF Inv
<1>2. /\ pfd \in PollFds /\ pfd.events = ev
      /\ pfd.fd = IF ev = {} THEN Ignored(fd_[c]) ELSE fd_[c]
  <2> DEFINE f == IF ev = {} THEN Ignored(fd_[c]) ELSE fd_[c]
  <2>1. f \in Int
    BY <1>1
  <2>2. pfd = [fd |-> f, events |-> ev]
    BY DEF PollFd
  <2> HIDE DEF f, pfd
  <2>3. pfd \in PollFds
    BY <2>1, <2>2, PollFdRecord, Zenon
  <2> QED
    BY <2>2, <2>3 DEF f
<1>3. i \in DOMAIN poll_fds_ /\ poll_fds_ \in Seq(PollFds)
  BY PlaceOf DEF Inv, TypeOK, Updated, PollFds
<1>4. /\ poll_fds_' \in Seq(PollFds) /\ Len(poll_fds_') = Len(poll_fds_)
      /\ DOMAIN poll_fds_' = DOMAIN poll_fds_ /\ poll_fds_'[i] = pfd
      /\ \A j \in DOMAIN poll_fds_ : j # i => poll_fds_'[j] = poll_fds_[j]
  <2>1. poll_fds_' = [poll_fds_ EXCEPT ![i] = pfd]
    BY DEF Updated
  <2> HIDE DEF pfd, i, PollFds
  <2> QED
    BY <1>2, <1>3, <2>1
<1>5. TypeOK'
  BY <1>4 DEF Inv, TypeOK, Updated, PollFds, Lives
<1>6. FdsDiffer' /\ MapInv'
  BY DEF Inv, TypeOK, FdsDiffer, MapInv, Updated, Registered
<1>7. PlacesInv'
  <2> SUFFICES ASSUME NEW d \in Channels
               PROVE  /\ life'[d] = "new" => index_[d] < 0 /\ channels_[fd_[d]] = NoChannel
                      /\ life'[d] = "silent" => events_'[d] = {}
                      /\ life'[d] \in Registered =>
                           /\ channels_[fd_[d]] = d
                           /\ 0 <= index_[d] /\ index_[d] < Len(poll_fds_)
                           /\ poll_fds_'[index_[d] + 1].events = events_'[d]
                           /\ poll_fds_'[index_[d] + 1].fd =
                                IF events_'[d] = {} /\ life'[d] = "added"
                                  THEN Ignored(fd_[d]) ELSE fd_[d]
    BY <1>4 DEF PlacesInv, Found, At, Ignored, Updated
  <2>1. CASE d = c
    <3>1. events_'[c] = ev /\ life'[c] = "added"
      BY DEF Inv, TypeOK, Updated
    <3> HIDE DEF pfd
    <3> QED
      BY <2>1, <3>1, <1>2, <1>4 DEF Inv, PlacesInv, Found, Updated
  <2>2. CASE d # c
    <3>1. events_'[d] = events_[d] /\ life'[d] = life[d]
      BY <2>2 DEF Inv, TypeOK, Updated
    <3>2. CASE life[d] \in Registered
      <4>1. index_[d] # index_[c] /\ index_[d] \in Int /\ index_[c] \in Int
            /\ index_[d] + 1 \in DOMAIN poll_fds_
        BY <2>2, <3>2, PlacesDiffer, PlaceOf DEF Inv, Updated
      <4>2. poll_fds_'[index_[d] + 1] = poll_fds_[index_[d] + 1]
        BY <4>1, <1>4
      <4> QED
        BY <3>1, <3>2, <4>2 DEF Inv, PlacesInv, Found, At
    <3>3. CASE life[d] \notin Registered
      BY <3>1, <3>3 DEF Inv, PlacesInv
    <3> QED
      BY <3>2, <3>3
  <2> QED
    BY <2>1, <2>2
<1>8. ArrayInv'
  BY <1>4 DEF Inv, TypeOK, ArrayInv, Updated, Registered
<1>9. AssertsHold'
  BY DEF Updated, AssertsHold
<1> QED
  BY <1>5, <1>6, <1>7, <1>8, <1>9 DEF Inv

\* What the swap of RemoveChannel does to the array.
LEMMA Swapped ==
  ASSUME NEW S, NEW s \in Seq(S), NEW k \in 1..Len(s)
  PROVE  LET t == SubSeq([s EXCEPT ![k] = s[Len(s)]], 1, Len(s) - 1) IN
           /\ t \in Seq(S) /\ Len(t) = Len(s) - 1
           /\ DOMAIN t = 1..(Len(s) - 1)
           /\ \A j \in 1..(Len(s) - 1) : t[j] = IF j = k THEN s[Len(s)] ELSE s[j]
<1> DEFINE u == [s EXCEPT ![k] = s[Len(s)]]
<1>1. Len(s) \in Nat /\ s[Len(s)] \in S /\ Len(s) >= 1
  OBVIOUS
<1>2. u \in Seq(S) /\ Len(u) = Len(s)
      /\ \A j \in 1..Len(s) : u[j] = IF j = k THEN s[Len(s)] ELSE s[j]
  BY <1>1
<1> HIDE DEF u
<1>3. /\ SubSeq(u, 1, Len(s) - 1) \in Seq(S)
      /\ Len(SubSeq(u, 1, Len(s) - 1)) = Len(s) - 1
      /\ \A j \in 1..(Len(s) - 1) : SubSeq(u, 1, Len(s) - 1)[j] = u[j]
  BY <1>1, <1>2
<1>4. \A j \in 1..(Len(s) - 1) :
        SubSeq(u, 1, Len(s) - 1)[j] = IF j = k THEN s[Len(s)] ELSE s[j]
  BY <1>1, <1>2, <1>3
<1>5. DOMAIN SubSeq(u, 1, Len(s) - 1) = 1..(Len(s) - 1)
  BY <1>1, <1>3
<1> QED
  BY <1>3, <1>4, <1>5 DEF u

\* A registered channel other than the removed one keeps its pollfd, and its
\* index follows it.
LEMMA RemoveMoves ==
  ASSUME Inv, NEW c \in Channels, Removed(c)
  PROVE  /\ poll_fds_' \in Seq(PollFds) /\ Len(poll_fds_') = Len(poll_fds_) - 1
         /\ DOMAIN poll_fds_' = 1..(Len(poll_fds_) - 1) /\ Len(poll_fds_) \in Nat
         /\ index_' \in [Channels -> Int]
         /\ \A d \in Channels : life[d] \notin Registered => index_'[d] = index_[d]
         /\ \A d \in Channels \ {c} : life[d] \in Registered =>
              /\ index_'[d] \in 0..(Len(poll_fds_) - 2)
              /\ poll_fds_'[index_'[d] + 1] = poll_fds_[index_[d] + 1]
              /\ index_'[d] = IF index_[d] = Len(poll_fds_) - 1 THEN index_[c]
                              ELSE index_[d]
<1> DEFINE n == Len(poll_fds_)
           k == index_[c] + 1
<1>1. /\ poll_fds_ \in Seq(PollFds) /\ k \in 1..n /\ n \in Nat
      /\ index_[c] \in 0..(n - 1) /\ life[c] \in Registered
  BY PlaceOf DEF Inv, TypeOK, Removed, PollFds
<1>2. /\ poll_fds_' \in Seq(PollFds) /\ Len(poll_fds_') = n - 1
      /\ DOMAIN poll_fds_' = 1..(n - 1)
      /\ \A j \in 1..(n - 1) :
           poll_fds_'[j] = IF j = k THEN poll_fds_[n] ELSE poll_fds_[j]
  <2>1. poll_fds_' = SubSeq([poll_fds_ EXCEPT ![k] = poll_fds_[n]], 1, n - 1)
    BY DEF Removed
  <2> HIDE DEF PollFds
  <2> QED
    BY <1>1, <2>1, Swapped
<1>3. PICK e \in Channels :
        /\ life[e] \in Registered /\ index_[e] = n - 1
        /\ FdAtEnd \in Fds /\ channels_[FdAtEnd] = e
  BY <1>1, AtEnd
<1>4. \A d \in Channels : life[d] \in Registered =>
        /\ index_[d] \in 0..(n - 1)
        /\ index_[d] = n - 1 => d = e
        /\ d # c => index_[d] # index_[c]
  BY <1>1, <1>3, PlaceOf, PlacesDiffer DEF Inv
<1>5. index_ \in [Channels -> Int] /\ index_[c] \in Int
  BY DEF Inv, TypeOK
<1>6. CASE index_[c] = n - 1
  <2>1. index_' = index_
    BY <1>6 DEF Removed, MoveIndex
  <2>2. ASSUME NEW d \in Channels \ {c}, life[d] \in Registered
        PROVE  /\ index_'[d] \in 0..(n - 2) /\ index_[d] # n - 1
               /\ poll_fds_'[index_'[d] + 1] = poll_fds_[index_[d] + 1]
    <3>1. index_[d] \in 0..(n - 1) /\ index_[d] # n - 1
      BY <1>4, <1>6, <2>2
    <3>2. index_[d] + 1 \in 1..(n - 1) /\ index_[d] + 1 # k
      BY <3>1, <1>1, <1>6
    <3> QED
      BY <2>1, <3>1, <3>2, <1>1, <1>2
  <2> QED
    BY <1>1, <1>2, <1>5, <2>1, <2>2
<1>7. CASE index_[c] # n - 1
  <2>1. index_' = [d \in Channels |-> IF e = d THEN index_[c] ELSE index_[d]]
    BY <1>3, <1>7 DEF Removed, MoveIndex
  <2>2. index_' \in [Channels -> Int]
    BY <2>1, <1>5
  <2>3. ASSUME NEW d \in Channels \ {c}, life[d] \in Registered
        PROVE  /\ index_'[d] \in 0..(n - 2)
               /\ poll_fds_'[index_'[d] + 1] = poll_fds_[index_[d] + 1]
               /\ index_'[d] = IF index_[d] = n - 1 THEN index_[c] ELSE index_[d]
    <3>1. CASE d = e
      <4>1. index_'[d] = index_[c] /\ index_[d] = n - 1
        BY <2>1, <3>1, <1>3
      <4>2. k \in 1..(n - 1) /\ index_[c] \in 0..(n - 2) /\ index_[d] + 1 = n
        BY <4>1, <1>1, <1>7
      <4> QED
        BY <4>1, <4>2, <1>2
    <3>2. CASE d # e
      <4>1. index_'[d] = index_[d] /\ index_[d] # n - 1 /\ index_[d] \in 0..(n - 1)
            /\ index_[d] # index_[c]
        BY <2>1, <2>3, <3>2, <1>4
      <4>2. index_[d] + 1 \in 1..(n - 1) /\ index_[d] + 1 # k /\ index_[d] \in 0..(n - 2)
        BY <4>1, <1>1
      <4> QED
        BY <4>1, <4>2, <1>2
    <3> QED
      BY <3>1, <3>2
  <2>4. \A d \in Channels : life[d] \notin Registered => index_'[d] = index_[d]
    BY <2>1, <1>3
  <2> QED
    BY <1>1, <1>2, <2>2, <2>3, <2>4
<1> QED
  BY <1>6, <1>7

LEMMA RemoveInv ==
  ASSUME Inv, failed = Nothing, NEW c \in Channels, Removed(c)
  PROVE  Inv'
<1> DEFINE n == Len(poll_fds_)
<1>1. life[c] \in Registered /\ fd_[c] \in Fds /\ channels_[fd_[c]] = c
  BY FdFacts, PlaceOf DEF Inv, Removed
<1>2. /\ life' \in [Channels -> Lives]
      /\ life'[c] = "removed" /\ \A d \in Channels \ {c} : life'[d] = life[d]
  BY DEF Inv, TypeOK, Removed, Lives
<1>3. /\ channels_' \in [Fds -> Channels \cup {NoChannel}]
      /\ channels_'[fd_[c]] = NoChannel
      /\ \A f \in Fds \ {fd_[c]} : channels_'[f] = channels_[f]
  BY <1>1 DEF Inv, TypeOK, Removed
<1>4. fd_' = fd_ /\ events_' = events_ /\ active_channels_' = active_channels_
      /\ failed' = failed
  BY DEF Removed
<1>5. \A d \in Channels \ {c} : life[d] # "none" => fd_[d] \in Fds \ {fd_[c]}
  BY <1>1, FdFacts DEF Inv, FdsDiffer, Registered
<1>6. TypeOK'
  BY <1>2, <1>3, <1>4, RemoveMoves DEF Inv, TypeOK, PollFds
<1>7. FdsDiffer'
  BY <1>1, <1>2, <1>4 DEF Inv, FdsDiffer, Registered
<1>8. MapInv'
  <2> SUFFICES ASSUME NEW f \in Fds, channels_'[f] # NoChannel
               PROVE  life'[channels_'[f]] \in Registered /\ fd_[channels_'[f]] = f
    BY <1>4 DEF MapInv
  <2>1. f # fd_[c] /\ channels_'[f] = channels_[f]
    BY <1>3
  <2>2. life[channels_[f]] \in Registered /\ fd_[channels_[f]] = f
    BY <2>1 DEF Inv, MapInv
  <2>3. channels_[f] \in Channels \ {c}
    BY <2>1, <2>2 DEF Inv, TypeOK
  <2> QED
    BY <2>1, <2>2, <2>3, <1>2
<1>9. PlacesInv'
  <2> SUFFICES ASSUME NEW d \in Channels
               PROVE  /\ life'[d] = "new" => index_'[d] < 0 /\ channels_'[fd_[d]] = NoChannel
                      /\ life'[d] = "silent" => events_[d] = {}
                      /\ life'[d] \in Registered =>
                           /\ channels_'[fd_[d]] = d
                           /\ 0 <= index_'[d] /\ index_'[d] < Len(poll_fds_')
                           /\ poll_fds_'[index_'[d] + 1].events = events_[d]
                           /\ poll_fds_'[index_'[d] + 1].fd =
                                IF events_[d] = {} /\ life'[d] = "added"
                                  THEN Ignored(fd_[d]) ELSE fd_[d]
    BY <1>4 DEF PlacesInv, Found, At, Ignored
  <2>1. CASE d = c
    BY <2>1, <1>2 DEF Registered
  <2>2. CASE d # c /\ life[d] = "new"
    BY <2>2, <1>2, <1>3, <1>5, RemoveMoves DEF Inv, PlacesInv, Registered
  <2>3. CASE d # c /\ life[d] \in Registered
    <3>1. /\ index_'[d] \in 0..(n - 2) /\ n \in Nat /\ Len(poll_fds_') = n - 1
          /\ poll_fds_'[index_'[d] + 1] = poll_fds_[index_[d] + 1]
      BY <2>3, RemoveMoves
    <3>2. channels_'[fd_[d]] = d
      BY <2>3, <1>3, <1>5, PlaceOf DEF Inv, Registered
    <3>3. 0 <= index_'[d] /\ index_'[d] < Len(poll_fds_')
      BY <3>1
    <3>4. /\ poll_fds_[index_[d] + 1].events = events_[d]
          /\ poll_fds_[index_[d] + 1].fd =
               IF events_[d] = {} /\ life[d] = "added"
                 THEN Ignored(fd_[d]) ELSE fd_[d]
      BY <2>3, PlaceOf DEF Inv
    <3>5. /\ life'[d] = life[d] /\ life[d] # "new"
          /\ life[d] = "silent" => events_[d] = {}
      BY <2>3, <1>2 DEF Inv, PlacesInv, Registered
    <3> QED
      BY <2>3, <3>1, <3>2, <3>3, <3>4, <3>5
  <2>4. CASE d # c /\ life[d] # "new" /\ life[d] \notin Registered
    BY <2>4, <1>2 DEF Registered
  <2> QED
    BY <2>1, <2>2, <2>3, <2>4
<1>10. ArrayInv'
  <2> SUFFICES ASSUME NEW i \in 1..(n - 1)
               PROVE  \E d \in Channels : life'[d] \in Registered /\ index_'[d] = i - 1
    BY RemoveMoves DEF ArrayInv
  <2>1. n \in Nat /\ DOMAIN poll_fds_ = 1..n /\ index_[c] \in 0..(n - 1)
    BY <1>1, PlaceOf DEF Inv, TypeOK
  <2>2. CASE i - 1 # index_[c]
    <3> i \in DOMAIN poll_fds_
      <4> HIDE DEF n
      <4> QED
        BY <2>1
    <3>1. PICK d \in Channels : life[d] \in Registered /\ index_[d] = i - 1
      BY DEF Inv, ArrayInv
    <3>2. d # c
      BY <2>2, <3>1
    <3>3. i - 1 # n - 1
      <4> HIDE DEF n
      <4> QED
        BY <2>1
    <3>4. index_'[d] = i - 1
      <4>1. index_'[d] = IF index_[d] = n - 1 THEN index_[c] ELSE index_[d]
        BY <3>1, <3>2, RemoveMoves
      <4> QED
        BY <4>1, <3>1, <3>3
    <3>5. life'[d] \in Registered
      BY <3>1, <3>2, <1>2
    <3> QED
      BY <3>4, <3>5
  <2>3. CASE i - 1 = index_[c]
    <3>1. n \in DOMAIN poll_fds_
      BY <2>1
    <3>2. PICK d \in Channels : life[d] \in Registered /\ index_[d] = n - 1
      BY <3>1 DEF Inv, ArrayInv
    <3>3. i - 1 # n - 1
      <4> HIDE DEF n
      <4> QED
        BY <2>1
    <3>4. d # c
      BY <2>3, <3>2, <3>3
    <3>5. index_'[d] = i - 1
      <4>1. index_'[d] = IF index_[d] = n - 1 THEN index_[c] ELSE index_[d]
        BY <3>2, <3>4, RemoveMoves
      <4> QED
        BY <4>1, <3>2, <2>3
    <3>6. life'[d] \in Registered
      BY <3>2, <3>4, <1>2
    <3> QED
      BY <3>5, <3>6
  <2> QED
    BY <2>2, <2>3
<1>11. AssertsHold'
  BY <1>4 DEF AssertsHold
<1> QED
  BY <1>6, <1>7, <1>8, <1>9, <1>10, <1>11 DEF Inv

LEMMA RefusedInv ==
  ASSUME Inv, NEW c \in Channels, Refused(c)
  PROVE  Inv'
<1>1. TypeOK'
  BY DEF Inv, TypeOK, Refused
<1>2. AssertsHold'
  BY DEF Refused, AssertsHold
<1> QED
  BY <1>1, <1>2 DEF Inv, Refused, FdsDiffer, MapInv, PlacesInv, ArrayInv, Found, At

LEMMA PollInv ==
  ASSUME Inv, failed = Nothing, NEW ready \in SUBSET DOMAIN poll_fds_, Reported(ready)
  PROVE  Inv'
<1>1. active_channels_' \subseteq Channels \cup {NoChannel}
  BY ReadyKnown DEF Reported
<1>2. TypeOK'
  BY <1>1 DEF Inv, TypeOK, Reported
<1>3. AssertsHold'
  BY DEF Reported, AssertsHold
<1> QED
  BY <1>2, <1>3 DEF Inv, Reported, FdsDiffer, MapInv, PlacesInv, ArrayInv, Found, At

-----------------------------------------------------------------------------
(* The theorems.                                                           *)

LEMMA InvInit == Init => Inv
<1> SUFFICES ASSUME Init PROVE Inv
  OBVIOUS
<1>1. TypeOK
  BY EmptySeq DEF Init, TypeOK, Lives
<1>2. FdsDiffer /\ MapInv /\ PlacesInv /\ AssertsHold
  BY DEF Init, FdsDiffer, MapInv, PlacesInv, Registered, AssertsHold
<1>3. ArrayInv
  BY EmptySeq DEF Init, ArrayInv
<1> QED
  BY <1>1, <1>2, <1>3 DEF Inv

LEMMA InvStep == Inv /\ [Next]_vars => Inv'
<1> SUFFICES ASSUME Inv, [Next]_vars PROVE Inv'
  OBVIOUS
<1>1. CASE UNCHANGED vars
  BY <1>1 DEF vars, Inv, TypeOK, FdsDiffer, MapInv, PlacesInv, ArrayInv, AssertsHold,
              Found, At
<1>2. CASE failed = Nothing /\ Next
  <2>1. ASSUME NEW c \in Channels, NEW f \in Fds, Construct(c, f) PROVE Inv'
    BY <1>2, <2>1, ConstructInv
  <2>2. ASSUME NEW c \in Channels, NEW ev \in SUBSET Events, AddChannel(c, ev)
        PROVE  Inv'
    BY <1>2, <2>2, AddSucceeds, AddInv
  <2>3. ASSUME NEW c \in Channels, NEW ev \in SUBSET Events, UpdateChannel(c, ev)
        PROVE  Inv'
    BY <1>2, <2>3, UpdateSucceeds, UpdateInv
  <2>4. ASSUME NEW c \in Channels, RemoveChannel(c) PROVE Inv'
    BY <1>2, <2>4, RemoveOutcomes, RemoveInv, RefusedInv
  <2>5. ASSUME NEW c \in Channels, Destruct(c) PROVE Inv'
    BY <1>2, <2>5, DestructInv
  <2>6. ASSUME NEW ready \in SUBSET DOMAIN poll_fds_, Poll(ready) PROVE Inv'
    BY <1>2, <2>6, PollSucceeds, PollInv
  <2> QED
    BY <1>2, <2>1, <2>2, <2>3, <2>4, <2>5, <2>6 DEF Next
<1> QED
  BY <1>1, <1>2 DEF Next

\* The state of PollPoller keeps its types.
THEOREM TypeCorrect == Spec => []TypeOK
<1>1. Inv => TypeOK
  BY DEF Inv
<1> QED
  BY <1>1, InvInit, InvStep, PTL DEF Spec

\* No assert of UpdateChannel or FillActiveChannels fails; one of RemoveChannel
\* does only for a channel that still asks for events, or that never asked for
\* any (~Acceptor before Listen(), poll_poller.cc:94).  The array, the map and the
\* channels' indices agree, whatever is removed, ignored or registered anew.
THEOREM IndexInvHolds == Spec => []IndexInv
<1>1. Inv => IndexInv
  BY DEF Inv, IndexInv
<1> QED
  BY <1>1, InvInit, InvStep, PTL DEF Spec

-----------------------------------------------------------------------------
(* Refinement of Poller.                                                   *)

\* What the kernel is asked for on behalf of a registered channel is what the
\* channel asked for last.
LEMMA AskedIs ==
  ASSUME Inv, NEW c \in Channels
  PROVE  Asked(c) = IF life[c] \in Registered THEN events_[c] ELSE {"unregistered"}
<1>1. CASE life[c] \notin Registered
  BY <1>1 DEF Asked
<1>2. CASE life[c] \in Registered
  <2> DEFINE places == {j \in DOMAIN poll_fds_ : poll_fds_[j].fd = fd_[c]}
             i      == index_[c] + 1
  <2>1. /\ i \in DOMAIN poll_fds_ /\ poll_fds_[i].events = events_[c]
        /\ events_[c] # {} => poll_fds_[i].fd = fd_[c]
    BY <1>2, PlaceOf DEF Inv
  <2>2. \A j \in places : j = i
    <3> SUFFICES ASSUME NEW j \in places PROVE j = i
      OBVIOUS
    <3>1. j \in DOMAIN poll_fds_ /\ poll_fds_[j].fd = fd_[c] /\ fd_[c] >= 0
      BY FdFacts, FdsAssumption DEF Inv
    <3>2. PICK d \in Channels : /\ life[d] \in Registered /\ index_[d] + 1 = j
                               /\ poll_fds_[j].fd = fd_[d]
      BY <3>1, ReadyKnown
    <3>3. d = c
      BY <1>2, <3>1, <3>2 DEF Inv, FdsDiffer, Registered
    <3> QED
      BY <3>2, <3>3
  <2>3. Asked(c) = UNION {poll_fds_[j].events : j \in places}
    BY <1>2 DEF Asked
  <2>4. CASE events_[c] = {}
    <3>1. \A j \in places : poll_fds_[j].events = {}
      BY <2>1, <2>2, <2>4
    <3>2. UNION {poll_fds_[j].events : j \in places} = {}
      <4> HIDE DEF places
      <4> QED
        BY <3>1
    <3> QED
      BY <1>2, <2>3, <2>4, <3>2
  <2>5. CASE events_[c] # {}
    <3>1. i \in places
      BY <2>1, <2>5
    <3>2. UNION {poll_fds_[j].events : j \in places} = events_[c]
      <4> HIDE DEF places, i
      <4> QED
        BY <2>1, <2>2, <3>1
    <3> QED
      BY <1>2, <2>3, <3>2
  <2> QED
    BY <2>4, <2>5
<1> QED
  BY <1>1, <1>2

AskedInv ==
  \A c \in Channels :
    Asked(c) = IF life[c] \in Registered THEN events_[c] ELSE {"unregistered"}

LEMMA AskedAll == Inv => AskedInv
BY AskedIs DEF AskedInv

LEMMA WatchStep ==
  ASSUME Inv, AskedInv, AskedInv', [Next]_vars
  PROVE  P!PNext \/ UNCHANGED P!pvars
<1>1. \A c \in Channels :
        Watch[c] = IF life[c] \in Registered THEN events_[c] ELSE {"unregistered"}
  BY DEF AskedInv, Watch
<1>2. \A c \in Channels :
        Watch'[c] = IF life'[c] \in Registered THEN events_'[c] ELSE {"unregistered"}
  BY DEF AskedInv, Watch
<1>3. Watch = [c \in Channels |-> Watch[c]] /\ Watch' = [c \in Channels |-> Watch'[c]]
  BY DEF Watch
<1>0. Wanted = Watch /\ Wanted' = Watch'
  BY DEF AskedInv, Wanted, Watch
<1> HIDE DEF Watch, Wanted
<1>4. ASSUME NEW c \in Channels, NEW f \in Fds, Construct(c, f)
      PROVE  Watch' = Watch /\ active_channels_' = active_channels_
  <2>1. \A d \in Channels :
          /\ life'[d] \in Registered <=> life[d] \in Registered
          /\ life[d] \in Registered => events_'[d] = events_[d]
    BY <1>4 DEF Inv, TypeOK, Construct, Registered
  <2>2. \A d \in Channels : Watch'[d] = Watch[d]
    BY <1>1, <1>2, <2>1
  <2> QED
    BY <1>3, <1>4, <2>2 DEF Construct
<1>5. ASSUME NEW c \in Channels, Destruct(c)
      PROVE  Watch' = Watch /\ active_channels_' = active_channels_
  <2>1. \A d \in Channels :
          (life'[d] \in Registered <=> life[d] \in Registered) /\ events_'[d] = events_[d]
    BY <1>5 DEF Inv, TypeOK, Destruct, Registered
  <2>2. \A d \in Channels : Watch'[d] = Watch[d]
    BY <1>1, <1>2, <2>1
  <2> QED
    BY <1>3, <1>5, <2>2 DEF Destruct
<1>6. ASSUME NEW c \in Channels, NEW ev \in SUBSET Events,
             Added(c, ev) \/ Updated(c, ev)
      PROVE  P!PNext
  <2>1. /\ life'[c] \in Registered /\ events_'[c] = ev
        /\ \A d \in Channels \ {c} : life'[d] = life[d] /\ events_'[d] = events_[d]
    BY <1>6 DEF Inv, TypeOK, Added, Updated, Registered
  <2>2. Watch'[c] = ev /\ \A d \in Channels \ {c} : Watch'[d] = Watch[d]
    BY <1>1, <1>2, <2>1
  <2>3. Watch' = [Watch EXCEPT ![c] = ev]
    BY <1>3, <2>2
  <2>4. active_channels_' = active_channels_
    BY <1>6 DEF Added, Updated
  <2> QED
    BY <1>0, <2>3, <2>4 DEF P!PNext, P!PUpdate
<1>7. ASSUME NEW c \in Channels, Removed(c) PROVE P!PNext
  <2>1. /\ life[c] \in Registered /\ events_[c] = {} /\ life'[c] = "removed"
        /\ \A d \in Channels \ {c} : life'[d] = life[d] /\ events_'[d] = events_[d]
    BY <1>7 DEF Inv, TypeOK, Removed, MayRemove
  <2>2. /\ Watch[c] = {} /\ Watch'[c] = {"unregistered"}
        /\ \A d \in Channels \ {c} : Watch'[d] = Watch[d]
    BY <1>1, <1>2, <2>1 DEF Registered
  <2>3. Watch' = [Watch EXCEPT ![c] = {"unregistered"}]
    BY <1>3, <2>2
  <2>4. active_channels_' = active_channels_
    BY <1>7 DEF Removed
  <2> QED
    BY <1>0, <2>2, <2>3, <2>4 DEF P!PNext, P!PRemove, P!Unregistered
<1>8. ASSUME NEW ready \in SUBSET DOMAIN poll_fds_, Reported(ready) PROVE P!PNext
  <2>1. \A d \in Channels : Watch'[d] = Watch[d]
    BY <1>1, <1>2, <1>8 DEF Reported
  <2>2. Watch' = Watch
    BY <1>3, <2>1
  <2>3. ASSUME NEW i \in ready
        PROVE  /\ channels_[poll_fds_[i].fd] \in Channels
               /\ Watch[channels_[poll_fds_[i].fd]] \notin {{}, {"unregistered"}}
    <3>1. i \in DOMAIN poll_fds_ /\ poll_fds_[i].fd >= 0
      BY <1>8 DEF Reported
    <3>2. PICK d \in Channels :
            /\ life[d] \in Registered /\ channels_[poll_fds_[i].fd] = d
            /\ ~(events_[d] = {} /\ life[d] = "added")
      BY <3>1, ReadyKnown
    <3>3. life[d] = "added"
      BY <3>2, <1>8 DEF Reported, Registered
    <3>4. events_[d] # {"unregistered"}
      BY EventsAssumption DEF Inv, TypeOK
    <3> QED
      BY <3>2, <3>3, <3>4, <1>1
  <2>4. active_channels_' \in SUBSET {d \in Channels : Watch[d] \notin {{}, {"unregistered"}}}
    BY <1>8, <2>3 DEF Reported
  <2> QED
    BY <1>0, <2>2, <2>4 DEF P!PNext, P!PPoll, P!Unregistered
<1>9. ASSUME UNCHANGED <<life, events_, active_channels_>>
      PROVE  Watch' = Watch /\ active_channels_' = active_channels_
  <2>1. \A d \in Channels : Watch'[d] = Watch[d]
    BY <1>1, <1>2, <1>9
  <2> QED
    BY <1>3, <1>9, <2>1
<1>10. ASSUME NEW c \in Channels, RemoveChannel(c)
       PROVE  P!PNext \/ (Watch' = Watch /\ active_channels_' = active_channels_)
  <2>1. CASE Removed(c)
    BY <2>1, <1>7
  <2>2. CASE Refused(c)
    BY <2>2, <1>9 DEF Refused
  <2> QED
    BY <1>10, <2>1, <2>2, RemoveOutcomes
<1>11. P!PNext \/ (Watch' = Watch /\ active_channels_' = active_channels_)
  BY <1>4, <1>5, <1>6, <1>8, <1>9, <1>10, AddSucceeds, UpdateSucceeds, PollSucceeds
     DEF Next, vars
<1> QED
  BY <1>0, <1>11 DEF P!pvars

\* PollPoller implements Poller: through every addition, update and removal the
\* kernel is asked for what each channel asked for last, and Poll() reports
\* channels that asked for something.
THEOREM Refinement == Spec => ImplementsPoller
<1>1. Init => P!PInit
  <2> SUFFICES ASSUME Init
               PROVE  /\ Wanted = [c \in Channels |-> {"unregistered"}]
                      /\ Watch = [c \in Channels |-> {"unregistered"}]
    BY DEF Init, P!PInit, P!Unregistered
  <2> QED
    BY DEF Init, Wanted, Watch, Asked, Registered
<1>2. Inv /\ AskedInv /\ AskedInv' /\ [Next]_vars => [P!PNext]_(P!pvars)
  BY WatchStep
<1> QED
  BY <1>1, <1>2, AskedAll, InvInit, InvStep, PTL
     DEF Spec, ImplementsPoller, P!PSpec

-----------------------------------------------------------------------------
(* TcpServer: the functors of several loops.                                 *)

\* Is t in the queue of loop l?
In(q, l, t) == \E i \in DOMAIN q[l] : q[l][i] = t

\* No functor of a connection is in a queue twice.
Once(q) ==
  \A l \in Loops : \A i, j \in DOMAIN q[l] :
    q[l][i] = q[l][j] /\ q[l][i].conn # 0 => i = j

\* A connection is established before it is destroyed.
Ordered(q) ==
  \A l \in Loops : \A c \in ConnIds : \A i, j \in DOMAIN q[l] :
    /\ q[l][i] = Task("ConnectDestroyed", c)
    /\ q[l][j] = Task("ConnectEstablished", c)
    => j < i

\* Functors are about connections there are, and in the loop they belong to.
RightPlace(l, t) ==
  /\ t.conn # 0 => t.conn \in Made
  /\ t.do \in {"ConnectEstablished", "ConnectDestroyed"} => l = io_loop[t.conn]
  /\ t.do = "RemoveConnectionInLoop" => l = Base
  /\ t.do = "Listen" => l = Base

Routed(q) ==
  \A l \in Loops : \A t \in Tasks : In(q, l, t) => RightPlace(l, t)

\* Where connection c is: which functors wait for it, by its state and whether
\* the server has it.
ConnOk(c) ==
  /\ In(queue, io_loop[c], Task("ConnectEstablished", c)) <=> state_[c] = "connecting"
  /\ state_[c] = "connecting" => io_loop[c] # Base
  /\ c \in connections_ => state_[c] # "gone"
  /\ c \in connections_ \/ state_[c] = "gone" =>
       ~In(queue, io_loop[c], Task("ConnectDestroyed", c))
  /\ In(queue, Base, Task("RemoveConnectionInLoop", c)) =>
       state_[c] \in {"disconnected", "gone"}
  /\ dtor = "no" =>
       /\ state_[c] \in {"connecting", "connected"} => c \in connections_
       /\ In(queue, Base, Task("RemoveConnectionInLoop", c)) <=>
            c \in connections_ /\ state_[c] = "disconnected"
       /\ state_[c] = "disconnected" =>
            \/ c \in connections_
            \/ In(queue, io_loop[c], Task("ConnectDestroyed", c))

\* The counters agree; the destructor runs on a thread outside Loop(), and
\* quits the threads when it has let go of the connections.
Phases ==
  /\ arrivals = backlog + (next_conn_id_ - 1)
  /\ Len(io_loop) = next_conn_id_ - 1 /\ io_loop \in Seq(Loops)
  /\ next_ = 0 \/ next_ < loops_
  /\ dtor # "no" => base_pc # "loop"
  /\ dtor \in {"threads", "done"} => connections_ = {}
  /\ \A l \in Pool : quit_[l] \/ thread[l] = "exit" => dtor \in {"threads", "done"}

ServerInv ==
  /\ ServerTypeOK /\ Phases
  /\ Once(queue) /\ Ordered(queue) /\ Routed(queue)
  /\ \A c \in Made : ConnOk(c)

-----------------------------------------------------------------------------
(* What appending, taking the head and dropping all do to the queues.        *)

Queues == [Loops -> Seq(Tasks)]

LEMMA TaskParts ==
  /\ \A t \in Tasks : /\ t = Task(t.do, t.conn)
                      /\ t.do = "Listen" <=> t.conn = 0
                      /\ t.conn \in ConnIds \cup {0}
                      /\ t.do \in {"ConnectEstablished", "RemoveConnectionInLoop",
                                   "ConnectDestroyed", "Listen"}
  /\ \A c \in ConnIds : /\ Task("ConnectEstablished", c) \in Tasks
                        /\ Task("RemoveConnectionInLoop", c) \in Tasks
                        /\ Task("ConnectDestroyed", c) \in Tasks
                        /\ c # 0
  /\ Task("Listen", 0) \in Tasks
<1>1. \A c \in ConnIds : c # 0
  BY BoundsAssumption DEF ConnIds
<1>2. \A t \in Tasks : /\ t = Task(t.do, t.conn)
                       /\ t.conn \in ConnIds \cup {0}
                       /\ t.do \in {"ConnectEstablished", "RemoveConnectionInLoop",
                                    "ConnectDestroyed", "Listen"}
  BY DEF Tasks, Task
<1>3. \A t \in Tasks : t.do = "Listen" <=> t.conn = 0
  BY <1>1 DEF Tasks
<1>4. /\ \A c \in ConnIds : /\ Task("ConnectEstablished", c) \in Tasks
                            /\ Task("RemoveConnectionInLoop", c) \in Tasks
                            /\ Task("ConnectDestroyed", c) \in Tasks
      /\ Task("Listen", 0) \in Tasks
  BY DEF Tasks, Task
<1> QED
  BY <1>1, <1>2, <1>3, <1>4

\* The fields of a task.
LEMMA TaskFields ==
  \A do, c : Task(do, c).do = do /\ Task(do, c).conn = c
BY DEF Task

LEMMA QueueParts ==
  ASSUME NEW q \in Queues, NEW l \in Loops
  PROVE  /\ q[l] \in Seq(Tasks) /\ Len(q[l]) \in Nat
         /\ DOMAIN q[l] = 1..Len(q[l])
         /\ \A i \in DOMAIN q[l] : q[l][i] \in Tasks
BY DEF Queues

\* The changes of the queues.
Push(q, l, t) == [q EXCEPT ![l] = Append(@, t)]
Pop(q, l) == [q EXCEPT ![l] = Tail(@)]
Clear(q, l) == [q EXCEPT ![l] = <<>>]

\* Append of a functor that is not there yet.
LEMMA Pushed ==
  ASSUME NEW q \in Queues, NEW l \in Loops, NEW t \in Tasks,
         NEW p, p = Push(q, l, t)
  PROVE  /\ p \in Queues
         /\ \A m \in Loops : \A x : In(p, m, x) <=> In(q, m, x) \/ (m = l /\ x = t)
         /\ Once(q) /\ (t.conn = 0 \/ ~In(q, l, t)) => Once(p)
         /\ Ordered(q) /\ (\A c \in ConnIds :
                             t = Task("ConnectEstablished", c) =>
                               ~In(q, l, Task("ConnectDestroyed", c)))
              => Ordered(p)
<1>1. /\ q[l] \in Seq(Tasks) /\ Len(q[l]) \in Nat /\ DOMAIN q[l] = 1..Len(q[l])
  BY QueueParts
<1>2. /\ p \in Queues /\ p[l] = Append(q[l], t)
      /\ \A m \in Loops : m # l => p[m] = q[m]
  BY <1>1 DEF Queues, Push
<1>3. /\ DOMAIN p[l] = 1..(Len(q[l]) + 1)
      /\ \A i \in 1..Len(q[l]) : p[l][i] = q[l][i]
      /\ p[l][Len(q[l]) + 1] = t
  BY <1>1, <1>2
<1>4. \A m \in Loops : \A x : In(p, m, x) <=> In(q, m, x) \/ (m = l /\ x = t)
  <2> SUFFICES ASSUME NEW m \in Loops, NEW x
               PROVE  In(p, m, x) <=> In(q, m, x) \/ (m = l /\ x = t)
    OBVIOUS
  <2>1. CASE m # l
    BY <1>2, <2>1 DEF In
  <2>2. CASE m = l
    <3>1. In(p, l, x) <=> \E i \in 1..(Len(q[l]) + 1) : p[l][i] = x
      BY <1>3 DEF In
    <3>2. In(q, l, x) <=> \E i \in 1..Len(q[l]) : q[l][i] = x
      BY <1>1 DEF In
    <3>3. \A i : i \in 1..(Len(q[l]) + 1) <=> i \in 1..Len(q[l]) \/ i = Len(q[l]) + 1
      BY <1>1
    <3> QED
      BY <1>3, <2>2, <3>1, <3>2, <3>3
  <2> QED
    BY <2>1, <2>2
<1>5. ASSUME Once(q), t.conn = 0 \/ ~In(q, l, t) PROVE Once(p)
  <2> SUFFICES ASSUME NEW m \in Loops, NEW i \in DOMAIN p[m], NEW j \in DOMAIN p[m],
                      p[m][i] = p[m][j], p[m][i].conn # 0
               PROVE  i = j
    BY DEF Once
  <2>1. CASE m # l
    BY <1>2, <1>5, <2>1 DEF Once
  <2>2. CASE m = l
    <3>1. /\ i \in 1..Len(q[l]) \/ i = Len(q[l]) + 1
          /\ j \in 1..Len(q[l]) \/ j = Len(q[l]) + 1
      BY <1>1, <1>3, <2>2
    <3>2. \A k \in 1..Len(q[l]) : q[l][k] = t => In(q, l, t)
      BY <1>1 DEF In
    <3>3. CASE i \in 1..Len(q[l]) /\ j \in 1..Len(q[l])
      BY <1>1, <1>3, <1>5, <2>2, <3>3 DEF Once
    <3> QED
      BY <1>3, <1>5, <2>2, <3>1, <3>2, <3>3
  <2> QED
    BY <2>1, <2>2
<1>6. ASSUME Ordered(q),
             \A c \in ConnIds : t = Task("ConnectEstablished", c) =>
                                  ~In(q, l, Task("ConnectDestroyed", c))
      PROVE  Ordered(p)
  <2> SUFFICES ASSUME NEW m \in Loops, NEW c \in ConnIds,
                      NEW i \in DOMAIN p[m], NEW j \in DOMAIN p[m],
                      p[m][i] = Task("ConnectDestroyed", c),
                      p[m][j] = Task("ConnectEstablished", c)
               PROVE  j < i
    BY DEF Ordered
  <2>1. CASE m # l
    BY <1>2, <1>6, <2>1 DEF Ordered
  <2>2. CASE m = l
    <3>1. /\ i \in 1..Len(q[l]) \/ i = Len(q[l]) + 1
          /\ j \in 1..Len(q[l]) \/ j = Len(q[l]) + 1
      BY <1>1, <1>3, <2>2
    <3>2. Task("ConnectDestroyed", c) # Task("ConnectEstablished", c)
      BY TaskFields
    <3>3. i # j
      BY <3>2
    <3>4. CASE i \in 1..Len(q[l]) /\ j \in 1..Len(q[l])
      BY <1>1, <1>3, <1>6, <2>2, <3>4 DEF Ordered
    <3>5. CASE i = Len(q[l]) + 1
      BY <1>1, <3>1, <3>3, <3>5
    <3>6. CASE j = Len(q[l]) + 1 /\ i \in 1..Len(q[l])
      BY <1>1, <1>3, <1>6, <2>2, <3>6 DEF In
    <3> QED
      BY <3>1, <3>4, <3>5, <3>6
  <2> QED
    BY <2>1, <2>2
<1> QED
  BY <1>2, <1>4, <1>5, <1>6

\* The head is taken: nothing else leaves, no second one of it is behind, and
\* with a ConnectDestroyed no ConnectEstablished is.
LEMMA Popped ==
  ASSUME NEW q \in Queues, NEW l \in Loops, q[l] # <<>>, Once(q), Ordered(q),
         NEW p, p = Pop(q, l)
  PROVE  /\ p \in Queues /\ Once(p) /\ Ordered(p)
         /\ Head(q[l]) \in Tasks /\ In(q, l, Head(q[l]))
         /\ \A m \in Loops : \A x :
              In(q, m, x) <=> In(p, m, x) \/ (m = l /\ x = Head(q[l]))
         /\ Head(q[l]).conn # 0 => ~In(p, l, Head(q[l]))
         /\ \A c \in ConnIds : Head(q[l]) = Task("ConnectDestroyed", c) =>
              ~In(q, l, Task("ConnectEstablished", c))
<1>1. /\ q[l] \in Seq(Tasks) /\ Len(q[l]) \in Nat /\ DOMAIN q[l] = 1..Len(q[l])
      /\ \A i \in DOMAIN q[l] : q[l][i] \in Tasks
  BY QueueParts
<1>2. /\ Len(q[l]) >= 1 /\ Head(q[l]) = q[l][1] /\ 1 \in DOMAIN q[l]
      /\ Tail(q[l]) \in Seq(Tasks) /\ Len(Tail(q[l])) = Len(q[l]) - 1
      /\ \A i \in 1..(Len(q[l]) - 1) : Tail(q[l])[i] = q[l][i + 1]
  BY <1>1
<1>3. /\ p \in Queues /\ p[l] = Tail(q[l])
      /\ \A m \in Loops : m # l => p[m] = q[m]
  BY <1>1, <1>2 DEF Queues, Pop
<1>4. /\ DOMAIN p[l] = 1..(Len(q[l]) - 1)
      /\ \A i \in DOMAIN p[l] : p[l][i] = q[l][i + 1] /\ i + 1 \in DOMAIN q[l]
      /\ \A i \in DOMAIN q[l] : i = 1 \/ (i - 1 \in DOMAIN p[l] /\ p[l][i - 1] = q[l][i])
  <2>1. DOMAIN p[l] = 1..(Len(q[l]) - 1)
    <3>1. DOMAIN Tail(q[l]) = 1..Len(Tail(q[l]))
      BY ONLY <1>2, LenProperties
    <3> QED
      BY ONLY <1>2, <1>3, <3>1
  <2>2. ASSUME NEW i \in DOMAIN p[l]
        PROVE  p[l][i] = q[l][i + 1] /\ i + 1 \in DOMAIN q[l]
    BY <1>1, <1>2, <1>3, <2>1
  <2>3. ASSUME NEW i \in DOMAIN q[l], i # 1
        PROVE  i - 1 \in DOMAIN p[l] /\ p[l][i - 1] = q[l][i]
    <3>1. i - 1 \in 1..(Len(q[l]) - 1) /\ (i - 1) + 1 = i
      BY <1>1, <2>3
    <3> QED
      BY <1>2, <1>3, <2>1, <3>1
  <2> QED
    BY <2>1, <2>2, <2>3
<1>5. Head(q[l]) \in Tasks /\ In(q, l, Head(q[l]))
  BY <1>1, <1>2 DEF In
<1>6. \A m \in Loops : \A x :
        In(q, m, x) <=> In(p, m, x) \/ (m = l /\ x = Head(q[l]))
  <2> SUFFICES ASSUME NEW m \in Loops, NEW x
               PROVE  In(q, m, x) <=> In(p, m, x) \/ (m = l /\ x = Head(q[l]))
    OBVIOUS
  <2>1. CASE m # l
    BY <1>3, <2>1 DEF In
  <2>2. CASE m = l
    <3>1. ASSUME In(q, l, x), x # Head(q[l]) PROVE In(p, l, x)
      <4>1. PICK i \in DOMAIN q[l] : q[l][i] = x
        BY <3>1 DEF In
      <4>2. i - 1 \in DOMAIN p[l] /\ p[l][i - 1] = x
        BY <1>2, <1>4, <3>1, <4>1
      <4> QED
        BY <4>2 DEF In
    <3>2. In(p, l, x) => In(q, l, x)
      BY <1>4 DEF In
    <3> QED
      BY <1>5, <2>2, <3>1, <3>2
  <2> QED
    BY <2>1, <2>2
<1>7. Once(p)
  <2> SUFFICES ASSUME NEW m \in Loops, NEW i \in DOMAIN p[m], NEW j \in DOMAIN p[m],
                      p[m][i] = p[m][j], p[m][i].conn # 0
               PROVE  i = j
    BY DEF Once
  <2>1. CASE m # l
    BY <1>3, <2>1 DEF Once
  <2>2. CASE m = l
    <3>1. i + 1 = j + 1
      BY <1>4, <2>2 DEF Once
    <3> QED
      BY <1>1, <1>4, <2>2, <3>1
  <2> QED
    BY <2>1, <2>2
<1>8. Ordered(p)
  <2> SUFFICES ASSUME NEW m \in Loops, NEW c \in ConnIds,
                      NEW i \in DOMAIN p[m], NEW j \in DOMAIN p[m],
                      p[m][i] = Task("ConnectDestroyed", c),
                      p[m][j] = Task("ConnectEstablished", c)
               PROVE  j < i
    BY DEF Ordered
  <2>1. CASE m # l
    BY <1>3, <2>1 DEF Ordered
  <2>2. CASE m = l
    <3>1. j + 1 < i + 1
      BY <1>4, <2>2 DEF Ordered
    <3> QED
      BY <1>1, <1>4, <2>2, <3>1
  <2> QED
    BY <2>1, <2>2
<1>9. ASSUME Head(q[l]).conn # 0, In(p, l, Head(q[l])) PROVE FALSE
  <2>1. PICK i \in DOMAIN p[l] : p[l][i] = q[l][1]
    BY <1>2, <1>9 DEF In
  <2>2. i + 1 = 1
    BY <1>2, <1>4, <1>9, <2>1 DEF Once
  <2> QED
    BY <1>1, <1>4, <2>1, <2>2
<1>10. ASSUME NEW c \in ConnIds, Head(q[l]) = Task("ConnectDestroyed", c),
              In(q, l, Task("ConnectEstablished", c))
       PROVE  FALSE
  <2>1. PICK j \in DOMAIN q[l] : q[l][j] = Task("ConnectEstablished", c)
    BY <1>10 DEF In
  <2>2. j < 1
    BY <1>2, <1>10, <2>1 DEF Ordered
  <2> QED
    BY <1>1, <2>1, <2>2
<1> QED
  BY <1>3, <1>5, <1>6, <1>7, <1>8, <1>9, <1>10

\* A loop goes with its functors.
LEMMA Cleared ==
  ASSUME NEW q \in Queues, NEW l \in Loops, Once(q), Ordered(q),
         NEW p, p = Clear(q, l)
  PROVE  /\ p \in Queues /\ Once(p) /\ Ordered(p)
         /\ \A m \in Loops : \A x : In(p, m, x) <=> In(q, m, x) /\ m # l
<1>1. /\ p \in Queues /\ p[l] = <<>> /\ DOMAIN p[l] = {}
      /\ \A m \in Loops : m # l => p[m] = q[m]
  BY DEF Queues, Clear
<1>2. Once(p)
  BY <1>1 DEF Once
<1>3. Ordered(p)
  BY <1>1 DEF Ordered
<1>4. \A m \in Loops : \A x : In(p, m, x) <=> In(q, m, x) /\ m # l
  BY <1>1 DEF In
<1> QED
  BY <1>1, <1>2, <1>3, <1>4

-----------------------------------------------------------------------------
(* The steps that leave the queues and the connections alone.                *)

States == {"connecting", "connected", "disconnected", "gone"}

\* Facts about the types that most steps need.
LEMMA ServerParts ==
  ASSUME ServerInv
  PROVE  /\ queue \in Queues /\ Base \in Loops /\ Pool \subseteq Loops
         /\ Base \notin Pool /\ next_conn_id_ \in Nat /\ next_conn_id_ >= 1
         /\ Made = 1..(next_conn_id_ - 1) /\ Made \subseteq ConnIds
         /\ io_loop \in Seq(Loops) /\ Len(io_loop) = next_conn_id_ - 1
         /\ io_loop \in [Made -> Loops] /\ state_ \in [Made -> States]
         /\ \A c \in Made : io_loop[c] \in Loops /\ c # 0
         /\ \A l \in Loops : l = Base \/ l \in Pool
         /\ connections_ \subseteq Made
<1>1. MaxThreads \in Nat /\ MaxConns \in Nat
  BY ThreadNumsAssumption, BoundsAssumption
<1>2. ServerTypeOK /\ Phases
  BY DEF ServerInv
<1>3. Base \in Loops /\ Pool \subseteq Loops /\ Base \notin Pool
  BY <1>1 DEF Loops, Pool, Base
<1>4. next_conn_id_ \in Nat /\ next_conn_id_ >= 1 /\ next_conn_id_ <= MaxConns + 1
  BY <1>1, <1>2 DEF ServerTypeOK
<1>5. Made = 1..(next_conn_id_ - 1) /\ Made \subseteq ConnIds /\ \A c \in Made : c # 0
  BY <1>1, <1>4 DEF Made, ConnIds
<1>6. /\ io_loop \in Seq(Loops) /\ Len(io_loop) = next_conn_id_ - 1
      /\ io_loop \in [Made -> Loops] /\ state_ \in [Made -> States]
      /\ queue \in Queues /\ connections_ \subseteq Made
  BY <1>2 DEF ServerTypeOK, Phases, Queues, States
<1>7. \A l \in Loops : l = Base \/ l \in Pool
  BY DEF Loops
<1> QED
  BY <1>3, <1>4, <1>5, <1>6, <1>7

\* The parts of ServerInv about the queues and the connections.
ConnsInv ==
  /\ Once(queue) /\ Ordered(queue) /\ Routed(queue)
  /\ \A c \in Made : ConnOk(c)

\* A connection that a step does not touch.
LEMMA Untouched ==
  ASSUME NEW d, io_loop[d] \in Loops, Base \in Loops, ConnOk(d),
         io_loop'[d] = io_loop[d], state_'[d] = state_[d],
         d \in connections_' <=> d \in connections_,
         dtor' = "no" => dtor = "no",
         \A l \in Loops : \A do : In(queue', l, Task(do, d)) <=> In(queue, l, Task(do, d))
  PROVE  ConnOk(d)'
BY DEF ConnOk, Task

LEMMA ConnsFrame ==
  ASSUME ConnsInv, UNCHANGED <<queue, connections_, state_, io_loop, next_conn_id_>>,
         dtor' = "no" => dtor = "no"
  PROVE  ConnsInv'
<1>1. Made' = Made
  BY DEF Made
<1>2. Once(queue)' /\ Ordered(queue)'
  BY DEF ConnsInv, Once, Ordered
<1>3. Routed(queue)'
  BY <1>1 DEF ConnsInv, Routed, RightPlace
<1>4. \A c \in Made' : ConnOk(c)'
  BY <1>1 DEF ConnsInv, ConnOk
<1> QED
  BY <1>2, <1>3, <1>4 DEF ConnsInv

LEMMA StartSame ==
  UNCHANGED startv => /\ num_threads_' = num_threads_ /\ started_' = started_
                      /\ start_pc' = start_pc /\ loops_' = loops_
BY DEF startv

LEMMA AcceptSame ==
  UNCHANGED acceptv => /\ next_' = next_ /\ listenning_' = listenning_
                       /\ backlog' = backlog /\ arrivals' = arrivals
                       /\ next_conn_id_' = next_conn_id_ /\ io_loop' = io_loop
BY DEF acceptv

\* The steps of Start(), of Base's thread, of clients and of the destructor
\* that only move a phase or a counter.
PhaseStep ==
  \/ \E t \in Callers : StartTests(t) \/ PoolStartsLoop(t) \/ PoolStarted(t)
  \/ \E t \in Callers : StartListens(t) /\ t = Base
  \/ \E l \in Pool : ThreadEntersLoop(l)
  \/ EnterLoop \/ LeaveLoop \/ ClientConnects \/ BeginDtor
  \/ DtorConnectionsDone \/ DtorReturns \/ (\E l \in Pool : DtorQuits(l))

LEMMA PhaseStepKeeps ==
  ASSUME ServerInv, PhaseStep
  PROVE  ServerInv'
<1>1. /\ UNCHANGED <<queue, connections_, state_, io_loop, next_conn_id_>>
      /\ dtor' = "no" => dtor = "no"
  BY DEF PhaseStep, StartTests, PoolStartsLoop, PoolStarted, StartListens,
         EnterLoop, LeaveLoop, ClientConnects, BeginDtor, DtorConnectionsDone,
         DtorReturns, DtorQuits, ThreadEntersLoop, startv, acceptv
<1>2. ConnsInv'
  BY <1>1, ConnsFrame DEF ServerInv, ConnsInv
<1>3. /\ ServerTypeOK /\ Phases /\ MaxThreads \in Nat /\ MaxConns \in Nat
      /\ ThreadNums \subseteq 0..MaxThreads /\ num_threads_ \in Nat
      /\ num_threads_ <= MaxThreads /\ loops_ \in Nat /\ loops_ <= num_threads_
  BY ThreadNumsAssumption, BoundsAssumption DEF ServerInv, ServerTypeOK
<1>4. /\ connections_' \subseteq Made' /\ io_loop' \in [Made' -> Loops]
      /\ state_' \in [Made' -> States] /\ queue' \in [Loops -> Seq(Tasks)]
      /\ next_conn_id_' \in 1..(MaxConns + 1)
      /\ Len(io_loop)' = next_conn_id_' - 1 /\ io_loop' \in Seq(Loops)
  BY <1>1, <1>3 DEF ServerTypeOK, Phases, Made, States
<1> DEFINE Small ==
  /\ num_threads_ \in ThreadNums /\ loops_ \in 0..num_threads_
  /\ started_ \in Nat /\ next_ \in Nat
  /\ start_pc \in [Callers -> {"none", "pool", "listen", "done"}]
  /\ listenning_ \in BOOLEAN
  /\ backlog \in 0..MaxConns /\ arrivals \in 0..MaxConns
  /\ base_pc \in {"setup", "loop", "after"}
  /\ dtor \in {"no", "conns", "threads", "done"}
  /\ thread \in [Pool -> {"none", "starting", "loop", "exit"}]
  /\ quit_ \in [Pool -> BOOLEAN] /\ told \in 0..MaxThreads
<1> DEFINE Steady ==
  /\ arrivals = backlog + (next_conn_id_ - 1)
  /\ next_ = 0 \/ next_ < loops_
  /\ dtor # "no" => base_pc # "loop"
  /\ dtor \in {"threads", "done"} => connections_ = {}
  /\ \A l \in Pool : quit_[l] \/ thread[l] = "exit" => dtor \in {"threads", "done"}
<1>5. Small /\ Steady /\ next_conn_id_ \in 1..(MaxConns + 1)
  BY <1>3 DEF ServerTypeOK, Phases
<1>6. ASSUME NEW t \in Callers, StartTests(t) PROVE Small' /\ Steady'
  BY <1>5, <1>6 DEF StartTests, acceptv, threadv
<1>7. ASSUME NEW t \in Callers, PoolStartsLoop(t) PROVE Small' /\ Steady'
  <2>1. loops_ + 1 \in Pool
    BY <1>3, <1>7 DEF PoolStartsLoop, Pool
  <2>2. Small'
    BY <1>3, <1>5, <1>7, <2>1 DEF PoolStartsLoop, acceptv
  <2>3. Steady'
    BY <1>3, <1>5, <1>7, <2>1 DEF PoolStartsLoop, acceptv
  <2> QED
    BY <2>2, <2>3
<1>8. ASSUME NEW t \in Callers, PoolStarted(t) \/ (StartListens(t) /\ t = Base)
      PROVE  Small' /\ Steady'
  BY <1>5, <1>8 DEF PoolStarted, StartListens, acceptv, threadv
<1>9. ASSUME EnterLoop \/ LeaveLoop PROVE Small' /\ Steady'
  <2>1. UNCHANGED <<startv, acceptv, connections_, dtor, thread, quit_, told>>
    BY <1>9 DEF EnterLoop, LeaveLoop, threadv
  <2>2. base_pc' \in {"setup", "loop", "after"} /\ (base_pc' = "loop" => dtor = "no")
    BY <1>9 DEF EnterLoop, LeaveLoop
  <2> QED
    BY <1>5, <2>1, <2>2, StartSame, AcceptSame
<1>10. ASSUME ClientConnects PROVE Small' /\ Steady'
  <2>1. /\ backlog \in Nat /\ arrivals \in Nat /\ next_conn_id_ \in Nat
        /\ next_conn_id_ >= 1 /\ arrivals' = arrivals + 1 /\ backlog' = backlog + 1
        /\ arrivals < MaxConns
    BY <1>3, <1>5, <1>10 DEF ClientConnects
  <2>2. /\ backlog' \in 0..MaxConns /\ arrivals' \in 0..MaxConns
        /\ arrivals' = backlog' + (next_conn_id_ - 1)
    BY <1>3, <1>5, <2>1
  <2> QED
    <3>1. /\ UNCHANGED <<startv, next_, listenning_, next_conn_id_, connections_>>
          /\ UNCHANGED <<base_pc, dtor, thread, quit_, told>>
      BY <1>10 DEF ClientConnects, threadv
    <3> QED
      BY <1>5, <2>2, <3>1, StartSame
<1>11. ASSUME BeginDtor \/ DtorConnectionsDone PROVE Small' /\ Steady'
  <2>1. /\ UNCHANGED <<startv, acceptv, connections_, base_pc, thread, quit_, told>>
        /\ \/ dtor = "no" /\ dtor' = "conns" /\ base_pc \in {"setup", "after"}
           \/ dtor = "conns" /\ dtor' = "threads" /\ connections_ = {}
    BY <1>11 DEF BeginDtor, DtorConnectionsDone, threadv
  <2> QED
    BY <1>5, <2>1, StartSame, AcceptSame
<1>12. ASSUME DtorReturns PROVE Small' /\ Steady'
  <2>1. /\ UNCHANGED <<startv, connections_, base_pc, thread, quit_, told>>
        /\ UNCHANGED <<next_, backlog, arrivals, next_conn_id_>>
        /\ dtor = "threads" /\ dtor' = "done" /\ listenning_' = FALSE
    BY <1>12 DEF DtorReturns, threadv
  <2> QED
    BY <1>5, <2>1, StartSame
<1>13. ASSUME NEW l \in Pool, DtorQuits(l) PROVE Small' /\ Steady'
  <2>1. /\ UNCHANGED <<startv, acceptv, connections_, base_pc, dtor>>
        /\ dtor = "threads" /\ quit_' = [quit_ EXCEPT ![l] = TRUE]
        /\ thread' = thread /\ told' = l
    BY <1>13 DEF DtorQuits
  <2>2. told' \in 0..MaxThreads
    BY <1>3, <2>1 DEF Pool
  <2> QED
    BY <1>5, <2>1, <2>2, StartSame, AcceptSame
<1>14. ASSUME NEW l \in Pool, ThreadEntersLoop(l) PROVE Small' /\ Steady'
  <2>1. /\ UNCHANGED <<startv, acceptv, connections_, base_pc, dtor, told>>
        /\ thread' = [thread EXCEPT ![l] = "loop"]
        /\ quit_' = [quit_ EXCEPT ![l] = FALSE]
    BY <1>14 DEF ThreadEntersLoop
  <2> QED
    BY <1>5, <2>1, StartSame, AcceptSame
<1>15. Small' /\ Steady'
  BY <1>6, <1>7, <1>8, <1>9, <1>10, <1>11, <1>12, <1>13, <1>14 DEF PhaseStep
<1>16. ServerTypeOK'
  BY <1>4, <1>15 DEF ServerTypeOK, States
<1>17. Phases'
  BY <1>4, <1>15 DEF Phases
<1> QED
  BY <1>2, <1>16, <1>17 DEF ServerInv, ConnsInv

-----------------------------------------------------------------------------
(* The steps of connections.                                                 *)

\* Two tasks are the same when they do the same with the same connection.
LEMMA TaskEq ==
  \A a, b, c, d : Task(a, c) = Task(b, d) <=> a = b /\ c = d
BY DEF Task

\* What is new in a queue is in the right place.
LEMMA RoutedStep ==
  ASSUME Routed(queue), UNCHANGED <<io_loop, next_conn_id_>>,
         \A m \in Loops : \A x \in Tasks :
           In(queue', m, x) => In(queue, m, x) \/ RightPlace(m, x)
  PROVE  Routed(queue)'
<1>1. Made' = Made
  BY DEF Made
<1> QED
  BY <1>1 DEF Routed, RightPlace

\* What a step of a connection leaves alone.
LEMMA ServerConcludes ==
  ASSUME ServerInv, ConnsInv', queue' \in Queues, state_' \in [Made -> States],
         connections_' \subseteq connections_, listenning_' \in BOOLEAN,
         UNCHANGED startv,
         UNCHANGED <<next_, backlog, arrivals, next_conn_id_, io_loop, base_pc, dtor>>,
         thread' \in [Pool -> {"none", "starting", "loop", "exit"}],
         quit_' \in [Pool -> BOOLEAN], told' \in 0..MaxThreads,
         \A l \in Pool : quit_'[l] \/ thread'[l] = "exit" => quit_[l] \/ thread[l] = "exit"
  PROVE  ServerInv'
<1>1. ServerTypeOK /\ Phases
  BY DEF ServerInv
<1>2. Made' = Made
  BY DEF Made
<1>3. ServerTypeOK'
  BY <1>1, <1>2, StartSame DEF ServerTypeOK, Queues, States
<1>4. Phases'
  BY <1>1, StartSame DEF Phases
<1> QED
  BY <1>3, <1>4 DEF ServerInv, ConnsInv

\* A functor of Start() for the base loop.
LEMMA ListenQueued ==
  ASSUME ServerInv, NEW t \in Callers, StartListens(t), t # Base
  PROVE  ServerInv'
<1>1. /\ queue' = [queue EXCEPT ![Base] = Append(@, Task("Listen", 0))]
      /\ UNCHANGED <<num_threads_, started_, loops_, next_, backlog, arrivals>>
      /\ UNCHANGED <<next_conn_id_, io_loop, connections_, state_, base_pc, dtor>>
      /\ UNCHANGED <<thread, quit_, told, listenning_>>
      /\ start_pc' = [start_pc EXCEPT ![t] = "done"]
  BY DEF StartListens, threadv
<1>2. /\ queue \in Queues /\ Base \in Loops /\ Task("Listen", 0) \in Tasks
      /\ Task("Listen", 0).conn = 0 /\ Task("Listen", 0).do = "Listen"
      /\ \A c \in Made : c # 0 /\ io_loop[c] \in Loops
      /\ Once(queue) /\ Ordered(queue) /\ Routed(queue)
  BY ServerParts, TaskParts, TaskFields DEF ServerInv
<1>3. /\ queue' \in Queues
      /\ \A m \in Loops : \A x : In(queue', m, x) <=>
           In(queue, m, x) \/ (m = Base /\ x = Task("Listen", 0))
      /\ Once(queue') /\ Ordered(queue')
  <2>1. queue' = Push(queue, Base, Task("Listen", 0))
    BY <1>1 DEF Push
  <2>2. \A c \in ConnIds : Task("Listen", 0) # Task("ConnectEstablished", c)
    BY TaskEq
  <2> QED
    BY <1>2, <2>1, <2>2, Pushed
<1>4. Routed(queue)'
  <2>1. RightPlace(Base, Task("Listen", 0))
    BY <1>2 DEF RightPlace
  <2> QED
    BY <1>1, <1>2, <1>3, <2>1, RoutedStep
<1>5. ASSUME NEW d \in Made PROVE ConnOk(d)'
  <2>1. \A l \in Loops : \A do :
          In(queue', l, Task(do, d)) <=> In(queue, l, Task(do, d))
    BY <1>2, <1>3, <1>5, TaskEq
  <2>2. ConnOk(d) /\ io_loop[d] \in Loops
    BY <1>2, <1>5 DEF ServerInv
  <2> QED
    BY <1>1, <1>2, <2>1, <2>2, Untouched
<1>6. Made' = Made
  BY <1>1 DEF Made
<1>7. ConnsInv'
  BY <1>3, <1>4, <1>5, <1>6 DEF ConnsInv
<1>8. ServerTypeOK'
  BY <1>1, <1>3, <1>6 DEF ServerInv, ServerTypeOK, Queues
<1>9. Phases'
  BY <1>1 DEF ServerInv, Phases
<1> QED
  BY <1>7, <1>8, <1>9 DEF ServerInv, ConnsInv

\* The close callback: from a connection in connections_, while the server
\* lives; it may come after the destructor has let go of the connection.
LEMMA CloseKeeps ==
  ASSUME ServerInv, NEW c \in Made, HandleClose(c)
  PROVE  ServerInv'
<1>1. /\ UNCHANGED startv
      /\ UNCHANGED <<next_, listenning_, backlog, arrivals, next_conn_id_, io_loop>>
      /\ UNCHANGED <<base_pc, dtor, thread, quit_, told>>
      /\ state_[c] = "connected" /\ state_' = [state_ EXCEPT ![c] = "disconnected"]
      /\ Runs(io_loop[c]) /\ RemoveConnection(c)
  BY AcceptSame DEF HandleClose, threadv
<1>2. /\ queue \in Queues /\ Base \in Loops /\ state_ \in [Made -> States]
      /\ \A d \in Made : d # 0 /\ io_loop[d] \in Loops /\ d \in ConnIds
      /\ Once(queue) /\ Ordered(queue) /\ Routed(queue)
      /\ ConnOk(c) /\ Phases /\ ServerTypeOK
  BY ServerParts DEF ServerInv
<1>3. /\ state_' \in [Made -> States] /\ state_'[c] = "disconnected"
      /\ \A d \in Made : d # c => state_'[d] = state_[d]
  BY <1>1, <1>2 DEF States
<1>4. Made' = Made
  BY <1>1 DEF Made
<1> DEFINE do == IF io_loop[c] = Base THEN "ConnectDestroyed" ELSE "RemoveConnectionInLoop"
           task == Task(do, c)
<1>5. /\ queue' = [queue EXCEPT ![Base] = Append(@, task)]
      /\ io_loop[c] = Base => connections_' = connections_ \ {c}
      /\ io_loop[c] # Base => connections_' = connections_
  BY <1>1 DEF RemoveConnection
<1>6. task \in Tasks /\ task.conn = c /\ task.do = do
  BY <1>2, TaskParts, TaskFields
<1>7. io_loop[c] = Base => dtor = "no" /\ c \in connections_
  <2>1. io_loop[c] = Base => dtor = "no"
    BY <1>1, <1>2 DEF Runs, Phases
  <2> QED
    BY <1>1, <1>2, <2>1 DEF ConnOk
<1>8. ~In(queue, Base, task)
  BY <1>1, <1>2, <1>7 DEF ConnOk
<1>9. \A e \in ConnIds : task # Task("ConnectEstablished", e)
  BY TaskEq
<1> HIDE DEF task
<1>10. /\ queue' \in Queues /\ Once(queue') /\ Ordered(queue')
       /\ \A m \in Loops : \A x : In(queue', m, x) <=>
            In(queue, m, x) \/ (m = Base /\ x = task)
  <2>1. queue' = Push(queue, Base, task)
    BY <1>5 DEF Push
  <2> QED
    BY <1>2, <1>6, <1>8, <1>9, <2>1, Pushed
<1>11. Routed(queue)'
  <2>1. RightPlace(Base, task)
    BY <1>6 DEF RightPlace
  <2> QED
    BY <1>1, <1>2, <1>10, <2>1, RoutedStep
<1>12. ASSUME NEW d \in Made, d # c PROVE ConnOk(d)'
  <2>1. \A l \in Loops : \A x :
          In(queue', l, Task(x, d)) <=> In(queue, l, Task(x, d))
    BY <1>10, <1>12, TaskEq DEF task
  <2>2. ConnOk(d) /\ io_loop[d] \in Loops
    BY <1>2, <1>12 DEF ServerInv
  <2>3. d \in connections_' <=> d \in connections_
    BY <1>5, <1>12
  <2> QED
    BY <1>1, <1>2, <1>3, <1>12, <2>1, <2>2, <2>3, Untouched
<1>13. ConnOk(c)'
  <2>1. CASE io_loop[c] = Base
    <3>1. \A m \in Loops : \A x : In(queue', m, Task(x, c)) <=>
             In(queue, m, Task(x, c)) \/ (m = Base /\ x = "ConnectDestroyed")
      BY <1>10, <2>1, TaskEq DEF task
    <3>2. In(queue', Base, Task("ConnectDestroyed", c))
      BY <1>2, <3>1
    <3>3. /\ ~In(queue', Base, Task("ConnectEstablished", c))
          /\ ~In(queue', Base, Task("RemoveConnectionInLoop", c))
      BY <1>1, <1>2, <2>1, <3>1 DEF ConnOk
    <3> QED
      BY <1>1, <1>2, <1>3, <1>5, <1>7, <2>1, <3>2, <3>3 DEF ConnOk
  <2>2. CASE io_loop[c] # Base
    <3>1. \A m \in Loops : \A x : In(queue', m, Task(x, c)) <=>
             In(queue, m, Task(x, c)) \/ (m = Base /\ x = "RemoveConnectionInLoop")
      BY <1>10, <2>2, TaskEq DEF task
    <3>2. In(queue', Base, Task("RemoveConnectionInLoop", c))
      BY <1>2, <3>1
    <3>3. /\ ~In(queue', io_loop[c], Task("ConnectEstablished", c))
          /\ In(queue', io_loop[c], Task("ConnectDestroyed", c)) <=>
               In(queue, io_loop[c], Task("ConnectDestroyed", c))
      BY <1>1, <1>2, <3>1 DEF ConnOk
    <3> QED
      BY <1>1, <1>2, <1>3, <1>5, <2>2, <3>2, <3>3 DEF ConnOk
  <2> QED
    BY <2>1, <2>2
<1>14. ConnsInv'
  BY <1>4, <1>10, <1>11, <1>12, <1>13 DEF ConnsInv
<1>15. connections_' \subseteq connections_
  BY <1>5
<1> QED
  BY <1>1, <1>2, <1>3, <1>10, <1>14, <1>15, ServerConcludes DEF ServerTypeOK

\* A new connection: with a ConnectEstablished on its way to its loop, or
\* established in place on Base's.
LEMMA AcceptKeeps ==
  ASSUME ServerInv, HandleRead
  PROVE  ServerInv'
<1>a. PICK c : c = next_conn_id_
  OBVIOUS
<1> DEFINE l == GetNextLoop
           st == IF l = Base THEN "connected" ELSE "connecting"
<1>1. /\ c \in Nat /\ c >= 1 /\ Made = 1..(c - 1) /\ queue \in Queues
      /\ io_loop \in Seq(Loops) /\ Len(io_loop) = c - 1
      /\ state_ \in [Made -> States] /\ connections_ \subseteq Made
      /\ Base \in Loops /\ io_loop \in [Made -> Loops]
      /\ \A d \in Made : d # 0 /\ io_loop[d] \in Loops
      /\ Made \subseteq ConnIds
  BY <1>a, ServerParts
<1>2. /\ ServerTypeOK /\ Phases /\ Once(queue) /\ Ordered(queue) /\ Routed(queue)
      /\ MaxThreads \in Nat /\ MaxConns \in Nat /\ ThreadNums \subseteq 0..MaxThreads
  BY ThreadNumsAssumption, BoundsAssumption DEF ServerInv
<1>3. /\ loops_ \in Nat /\ loops_ <= MaxThreads /\ next_ \in Nat
      /\ num_threads_ \in Nat /\ loops_ <= num_threads_
      /\ next_ = 0 \/ next_ < loops_
  BY <1>2 DEF ServerTypeOK, Phases
<1>4. l \in Loops /\ (l = Base <=> loops_ = 0)
  BY <1>2, <1>3 DEF GetNextLoop, Loops, Pool, Base
<1>5. /\ base_pc = "loop" /\ backlog > 0 /\ backlog' = backlog - 1
      /\ UNCHANGED startv /\ UNCHANGED <<listenning_, arrivals, base_pc, dtor, thread, quit_, told>>
      /\ next_conn_id_' = c + 1 /\ io_loop' = Append(io_loop, l)
      /\ next_' = IF loops_ = 0 THEN next_ ELSE NextIndex
      /\ connections_' = connections_ \cup {c}
      /\ state_' = Append(state_, st)
      /\ l = Base => queue' = queue
      /\ l # Base => queue' = Push(queue, l, Task("ConnectEstablished", c))
  BY <1>a DEF HandleRead, NewConnection, Push, threadv
<1>6. dtor = "no"
  BY <1>2, <1>5 DEF Phases
<1>7. /\ backlog \in Nat /\ arrivals \in Nat /\ arrivals <= MaxConns
      /\ arrivals = backlog + (c - 1)
  BY <1>a, <1>2 DEF ServerTypeOK, Phases
<1>8. c <= MaxConns /\ backlog' \in 0..MaxConns /\ arrivals = backlog' + c
  BY <1>1, <1>2, <1>5, <1>7
<1>9. c \in ConnIds /\ c \notin Made /\ c # 0 /\ Made' = 1..c /\ Made' = Made \cup {c}
  <2>1. c \in ConnIds /\ c \notin Made /\ c # 0
    BY <1>1, <1>2, <1>8 DEF ConnIds
  <2>2. Made' = 1..((c + 1) - 1)
    BY <1>5 DEF Made
  <2>3. (c + 1) - 1 = c /\ 1..c = 1..(c - 1) \cup {c}
    BY <1>1
  <2> QED
    BY <1>1, <2>1, <2>2, <2>3
<1> HIDE DEF l
<1>10. /\ io_loop' \in Seq(Loops) /\ Len(io_loop') = c
       /\ io_loop'[c] = l /\ \A d \in Made : io_loop'[d] = io_loop[d]
       /\ io_loop' \in [Made' -> Loops]
  <2>1. /\ io_loop' \in Seq(Loops) /\ Len(io_loop') = c
        /\ io_loop'[c] = l /\ \A d \in Made : io_loop'[d] = io_loop[d]
    BY <1>1, <1>4, <1>5
  <2> QED
    BY <1>9, <2>1
<1>11. /\ state_'[c] = st /\ \A d \in Made : state_'[d] = state_[d]
       /\ state_' \in [Made' -> States]
  <2>1. st \in States
    BY DEF States
  <2>2. state_ \in Seq(States) /\ Len(state_) = c - 1
    BY <1>1
  <2> HIDE DEF st
  <2>3. /\ state_' \in Seq(States) /\ Len(state_') = c /\ state_'[c] = st
        /\ \A d \in Made : state_'[d] = state_[d]
    BY <1>1, <1>5, <2>1, <2>2
  <2> QED
    BY <1>9, <2>3
<1>12. \A m \in Loops : \A x : ~In(queue, m, Task(x, c))
  <2> SUFFICES ASSUME NEW m \in Loops, NEW x, In(queue, m, Task(x, c)) PROVE FALSE
    OBVIOUS
  <2>1. Task(x, c) \in Tasks /\ Task(x, c).conn = c
    <3>1. PICK i \in DOMAIN queue[m] : queue[m][i] = Task(x, c)
      BY DEF In
    <3> QED
      BY <1>1, <3>1, QueueParts, TaskFields
  <2> QED
    BY <1>2, <1>9, <2>1 DEF Routed, RightPlace
<1>13. /\ queue' \in Queues /\ Once(queue') /\ Ordered(queue')
       /\ \A m \in Loops : \A x : In(queue', m, x) <=>
            \/ In(queue, m, x)
            \/ l # Base /\ m = l /\ x = Task("ConnectEstablished", c)
  <2>1. CASE l = Base
    BY <1>1, <1>2, <1>5, <2>1
  <2>2. CASE l # Base
    <3>1. Task("ConnectEstablished", c) \in Tasks
      BY <1>9, TaskParts
    <3>2. \A e \in ConnIds :
            Task("ConnectEstablished", c) = Task("ConnectEstablished", e) =>
              ~In(queue, l, Task("ConnectDestroyed", e))
      BY <1>4, <1>12, TaskEq
    <3>3. ~In(queue, l, Task("ConnectEstablished", c))
      BY <1>4, <1>12
    <3> QED
      BY <1>1, <1>2, <1>4, <1>5, <2>2, <3>1, <3>2, <3>3, Pushed
  <2> QED
    BY <2>1, <2>2
<1>14. Routed(queue)'
  <2> SUFFICES ASSUME NEW m \in Loops, NEW t \in Tasks, In(queue', m, t)
               PROVE  RightPlace(m, t)'
    BY DEF Routed
  <2>1. CASE In(queue, m, t)
    <3>1. RightPlace(m, t) /\ t.conn \in ConnIds \cup {0} /\ (t.do = "Listen" <=> t.conn = 0)
      BY <1>2, <2>1, TaskParts DEF Routed
    <3>2. t.conn # 0 => io_loop'[t.conn] = io_loop[t.conn] /\ t.conn \in Made'
      BY <1>9, <1>10, <3>1 DEF RightPlace
    <3>3. t.do \in {"ConnectEstablished", "ConnectDestroyed"} => t.conn # 0
      BY <3>1
    <3> QED
      BY <3>1, <3>2, <3>3 DEF RightPlace
  <2>2. CASE m = l /\ t = Task("ConnectEstablished", c)
    <3>1. t.conn = c /\ t.do = "ConnectEstablished"
      BY <2>2, TaskFields
    <3> QED
      BY <1>9, <1>10, <2>2, <3>1 DEF RightPlace
  <2> QED
    BY <1>13, <2>1, <2>2
<1>15. ASSUME NEW d \in Made PROVE ConnOk(d)'
  <2>1. d # c /\ io_loop[d] \in Loops /\ ConnOk(d)
    BY <1>1, <1>9, <1>15 DEF ServerInv
  <2>2. \A m \in Loops : \A x :
          In(queue', m, Task(x, d)) <=> In(queue, m, Task(x, d))
    BY <1>13, <2>1, TaskEq
  <2> QED
    BY <1>1, <1>5, <1>10, <1>11, <1>15, <2>1, <2>2, Untouched
<1>16. ConnOk(c)'
  <2>1. \A x : In(queue', l, Task(x, c)) <=> l # Base /\ x = "ConnectEstablished"
    BY <1>4, <1>12, <1>13, TaskEq
  <2>2. ~In(queue', Base, Task("RemoveConnectionInLoop", c))
    BY <1>1, <1>12, <1>13, TaskEq
  <2> QED
    BY <1>5, <1>10, <1>11, <2>1, <2>2 DEF ConnOk
<1>17. ServerTypeOK'
  <2>1. connections_' \subseteq Made'
    BY <1>1, <1>5, <1>9
  <2>2. next_' \in Nat
    BY <1>3, <1>5 DEF NextIndex
  <2>3. next_conn_id_' \in 1..(MaxConns + 1)
    BY <1>1, <1>2, <1>5, <1>8
  <2> QED
    BY <1>2, <1>5, <1>8, <1>10, <1>11, <1>13, <2>1, <2>2, <2>3, StartSame
    DEF ServerTypeOK, Queues, States
<1>18. Phases'
  <2>1. next_' = 0 \/ next_' < loops_
    BY <1>3, <1>5 DEF NextIndex
  <2>2. arrivals' = backlog' + (next_conn_id_' - 1) /\ Len(io_loop') = next_conn_id_' - 1
    <3>1. (c + 1) - 1 = c
      BY <1>1
    <3> QED
      BY <1>5, <1>8, <1>10, <3>1
  <2>3. \A m \in Pool : ~quit_'[m] /\ thread'[m] # "exit"
    BY <1>2, <1>5, <1>6 DEF Phases
  <2> QED
    BY <1>5, <1>6, <1>10, <2>1, <2>2, <2>3, StartSame DEF Phases
<1> QED
  BY <1>9, <1>13, <1>14, <1>15, <1>16, <1>17, <1>18 DEF ServerInv

\* A loop runs a functor: what each kind does, and that it is where it belongs.
LEMMA FunctorKeeps ==
  ASSUME ServerInv, NEW l \in Loops, RunFunctor(l)
  PROVE  ServerInv'
<1>a. PICK rest : rest = Pop(queue, l)
  OBVIOUS
<1>b. PICK t : t = Head(queue[l])
  OBVIOUS
<1>c. PICK c : c = t.conn
  OBVIOUS
<1>1. /\ queue \in Queues /\ Base \in Loops /\ state_ \in [Made -> States]
      /\ \A d \in Made : d # 0 /\ io_loop[d] \in Loops /\ d \in ConnIds
      /\ Once(queue) /\ Ordered(queue) /\ Routed(queue)
      /\ Phases /\ ServerTypeOK
  BY ServerParts DEF ServerInv
<1>2. /\ Runs(l) /\ queue[l] # <<>>
      /\ UNCHANGED startv
      /\ UNCHANGED <<next_, backlog, arrivals, next_conn_id_, io_loop, base_pc, dtor>>
      /\ UNCHANGED <<thread, quit_, told>>
  BY DEF RunFunctor, threadv
<1>3. \/ /\ t.do = "Listen" /\ listenning_' = TRUE /\ queue' = rest
         /\ UNCHANGED <<connections_, state_>>
      \/ /\ t.do = "ConnectEstablished"
         /\ state_' = [state_ EXCEPT ![c] = "connected"] /\ queue' = rest
         /\ UNCHANGED <<connections_, listenning_>>
      \/ /\ t.do = "RemoveConnectionInLoop"
         /\ connections_' = connections_ \ {c}
         /\ queue' = Push(rest, io_loop[c], Task("ConnectDestroyed", c))
         /\ UNCHANGED <<state_, listenning_>>
      \/ /\ t.do = "ConnectDestroyed"
         /\ state_' = [state_ EXCEPT ![c] = "gone"] /\ queue' = rest
         /\ UNCHANGED <<connections_, listenning_>>
  BY <1>a, <1>b, <1>c DEF RunFunctor, Pop, Push
<1>4. /\ rest \in Queues /\ Once(rest) /\ Ordered(rest)
      /\ t \in Tasks /\ In(queue, l, t)
      /\ \A m \in Loops : \A x : In(queue, m, x) <=> In(rest, m, x) \/ (m = l /\ x = t)
      /\ t.conn # 0 => ~In(rest, l, t)
      /\ \A e \in ConnIds : t = Task("ConnectDestroyed", e) =>
           ~In(queue, l, Task("ConnectEstablished", e))
  BY <1>a, <1>b, <1>1, <1>2, Popped
<1>5. /\ RightPlace(l, t) /\ t = Task(t.do, c) /\ (t.do = "Listen" <=> c = 0)
  BY <1>c, <1>1, <1>4, TaskParts DEF Routed
<1>6. Made' = Made
  BY <1>2 DEF Made
<1>7. t.do # "Listen" => /\ c \in Made /\ c # 0 /\ c \in ConnIds /\ io_loop[c] \in Loops
                         /\ ConnOk(c) /\ ~In(rest, l, t)
  BY <1>c, <1>1, <1>4, <1>5 DEF RightPlace, ServerInv
\* Connections other than c, whose functors stay.
<1>8. ASSUME NEW d \in Made, d # c, UNCHANGED io_loop, state_'[d] = state_[d],
             d \in connections_' <=> d \in connections_,
             \A m \in Loops : \A x :
               In(queue', m, Task(x, d)) <=> In(rest, m, Task(x, d))
      PROVE  ConnOk(d)'
  <2>1. \A m \in Loops : \A x :
          In(queue', m, Task(x, d)) <=> In(queue, m, Task(x, d))
    BY <1>4, <1>5, <1>8, TaskEq
  <2>2. ConnOk(d) /\ io_loop[d] \in Loops
    BY <1>1, <1>8 DEF ServerInv
  <2> QED
    BY <1>1, <1>2, <1>8, <2>1, <2>2, Untouched
<1>9. \A m \in Loops : \A x : In(rest, m, x) => In(queue, m, x)
  BY <1>4
<1>10. CASE t.do # "RemoveConnectionInLoop"
  <2>0. queue' = rest
    BY <1>3, <1>10
  <2>1. Once(queue') /\ Ordered(queue') /\ queue' \in Queues
    BY <1>4, <2>0
  <2>2. Routed(queue)'
    BY <1>1, <1>2, <1>9, <2>0, RoutedStep
  <2>3. CASE t.do = "Listen"
    <3>1. listenning_' = TRUE /\ UNCHANGED <<connections_, state_>>
      BY <1>3, <2>3
    <3>2. \A d \in Made : ConnOk(d)'
      BY <1>1, <1>2, <1>5, <1>8, <2>0, <2>3, <3>1
    <3>3. ConnsInv'
      BY <1>6, <2>1, <2>2, <3>2 DEF ConnsInv
    <3> QED
      BY <1>1, <1>2, <2>1, <3>1, <3>3, ServerConcludes DEF ServerTypeOK
  <2>4. CASE t.do = "ConnectEstablished"
    <3>1. /\ state_' = [state_ EXCEPT ![c] = "connected"]
          /\ UNCHANGED <<connections_, listenning_>>
      BY <1>3, <2>4
    <3>2. /\ state_' \in [Made -> States] /\ state_'[c] = "connected"
          /\ \A d \in Made : d # c => state_'[d] = state_[d]
      BY <1>1, <1>7, <2>4, <3>1 DEF States
    <3>3. l = io_loop[c] /\ t = Task("ConnectEstablished", c) /\ state_[c] = "connecting"
      BY <1>c, <1>4, <1>5, <1>7, <2>4 DEF RightPlace, ConnOk
    <3>4. /\ ~In(queue', l, Task("ConnectEstablished", c))
          /\ \A m \in Loops : \A x : x # "ConnectEstablished" =>
               (In(queue', m, Task(x, c)) <=> In(queue, m, Task(x, c)))
      BY <1>4, <1>7, <2>0, <2>4, <3>3, TaskEq
    <3>5. ConnOk(c)'
      BY <1>1, <1>2, <1>7, <2>4, <3>1, <3>2, <3>3, <3>4 DEF ConnOk
    <3>6. \A d \in Made : d # c => ConnOk(d)'
      BY <1>2, <1>8, <2>0, <3>1, <3>2
    <3>7. ConnsInv'
      BY <1>6, <2>1, <2>2, <3>5, <3>6 DEF ConnsInv
    <3> QED
      BY <1>1, <1>2, <2>1, <3>1, <3>2, <3>7, ServerConcludes DEF ServerTypeOK
  <2>5. CASE t.do = "ConnectDestroyed"
    <3>1. /\ state_' = [state_ EXCEPT ![c] = "gone"]
          /\ UNCHANGED <<connections_, listenning_>>
      BY <1>3, <2>5
    <3>2. /\ state_' \in [Made -> States] /\ state_'[c] = "gone"
          /\ \A d \in Made : d # c => state_'[d] = state_[d]
      BY <1>1, <1>7, <2>5, <3>1 DEF States
    <3>3. /\ l = io_loop[c] /\ t = Task("ConnectDestroyed", c)
          /\ In(queue, l, Task("ConnectDestroyed", c))
          /\ ~In(queue, l, Task("ConnectEstablished", c))
      BY <1>c, <1>4, <1>5, <1>7, <2>5 DEF RightPlace
    <3>4. c \notin connections_
      BY <1>7, <2>5, <3>3 DEF ConnOk
    <3>5. /\ ~In(queue', l, Task("ConnectDestroyed", c))
          /\ \A m \in Loops : \A x : x # "ConnectDestroyed" =>
               (In(queue', m, Task(x, c)) <=> In(queue, m, Task(x, c)))
      BY <1>4, <1>7, <2>0, <2>5, <3>3, TaskEq
    <3>6. dtor = "no" => ~In(queue', Base, Task("RemoveConnectionInLoop", c))
      BY <1>1, <1>7, <2>5, <3>4, <3>5 DEF ConnOk
    <3>7. ConnOk(c)'
      BY <1>1, <1>2, <1>7, <2>5, <3>1, <3>2, <3>3, <3>4, <3>5, <3>6 DEF ConnOk
    <3>8. \A d \in Made : d # c => ConnOk(d)'
      BY <1>2, <1>8, <2>0, <3>1, <3>2
    <3>9. ConnsInv'
      BY <1>6, <2>1, <2>2, <3>7, <3>8 DEF ConnsInv
    <3> QED
      BY <1>1, <1>2, <2>1, <3>1, <3>2, <3>9, ServerConcludes DEF ServerTypeOK
  <2> QED
    BY <1>3, <1>10, <2>3, <2>4, <2>5
<1>11. CASE t.do = "RemoveConnectionInLoop"
  <2>1. /\ connections_' = connections_ \ {c} /\ UNCHANGED <<state_, listenning_>>
        /\ queue' = Push(rest, io_loop[c], Task("ConnectDestroyed", c))
    BY <1>3, <1>11
  <2>2. /\ l = Base /\ t = Task("RemoveConnectionInLoop", c)
        /\ In(queue, Base, Task("RemoveConnectionInLoop", c))
    BY <1>c, <1>4, <1>5, <1>11 DEF RightPlace
  <2>3. dtor = "no"
    BY <1>1, <1>2, <2>2 DEF Runs, Phases
  <2>4. c \in connections_ /\ state_[c] = "disconnected"
    BY <1>7, <1>11, <2>2, <2>3 DEF ConnOk
  <2>5. /\ ~In(queue, io_loop[c], Task("ConnectDestroyed", c))
        /\ ~In(queue, io_loop[c], Task("ConnectEstablished", c))
    BY <1>7, <1>11, <2>4 DEF ConnOk
  <2>6. ~In(rest, io_loop[c], Task("ConnectDestroyed", c))
    BY <1>7, <1>9, <1>11, <2>5
  <2>7. Task("ConnectDestroyed", c) \in Tasks
    BY <1>7, <1>11, TaskParts
  <2>8. \A e \in ConnIds : Task("ConnectDestroyed", c) # Task("ConnectEstablished", e)
    BY TaskEq
  <2>9. /\ queue' \in Queues /\ Once(queue') /\ Ordered(queue')
        /\ \A m \in Loops : \A x : In(queue', m, x) <=>
             In(rest, m, x) \/ (m = io_loop[c] /\ x = Task("ConnectDestroyed", c))
    BY <1>4, <1>7, <1>11, <2>1, <2>6, <2>7, <2>8, Pushed
  <2>10. Routed(queue)'
    <3>1. RightPlace(io_loop[c], Task("ConnectDestroyed", c))
      BY <1>7, <1>11, TaskFields DEF RightPlace
    <3> QED
      BY <1>1, <1>2, <1>9, <2>9, <3>1, RoutedStep
  <2>11. \A d \in Made : d # c => ConnOk(d)'
    <3> TAKE d \in Made
    <3> HAVE d # c
    <3>1. \A m \in Loops : \A x :
            In(queue', m, Task(x, d)) <=> In(rest, m, Task(x, d))
      BY <2>9, TaskEq
    <3>2. d \in connections_' <=> d \in connections_
      BY <2>1
    <3> QED
      BY <1>2, <1>8, <2>1, <3>1, <3>2
  <2>12. ConnOk(c)'
    <3>1. In(queue', io_loop[c], Task("ConnectDestroyed", c))
      BY <1>7, <1>11, <2>9
    <3>2. ~In(queue', io_loop[c], Task("ConnectEstablished", c))
      BY <1>7, <1>9, <1>11, <2>5, <2>9, TaskEq
    <3>3. ~In(queue', Base, Task("RemoveConnectionInLoop", c))
      BY <1>1, <1>7, <1>11, <2>2, <2>9, TaskEq
    <3> QED
      BY <1>2, <2>1, <2>4, <3>1, <3>2, <3>3 DEF ConnOk
  <2>13. ConnsInv'
    BY <1>6, <2>9, <2>10, <2>11, <2>12 DEF ConnsInv
  <2> QED
    BY <1>1, <1>2, <2>1, <2>9, <2>13, ServerConcludes DEF ServerTypeOK
<1> QED
  BY <1>10, <1>11

\* ~TcpServer lets go of a connection: it goes at once, or a ConnectDestroyed
\* goes to its loop, behind the ConnectEstablished that may still be there.
LEMMA DtorConnectionKeeps ==
  ASSUME ServerInv, NEW c \in Made, DtorConnection(c)
  PROVE  ServerInv'
<1>1. /\ queue \in Queues /\ Base \in Loops /\ state_ \in [Made -> States]
      /\ \A d \in Made : d # 0 /\ io_loop[d] \in Loops /\ d \in ConnIds
      /\ Once(queue) /\ Ordered(queue) /\ Routed(queue)
      /\ Phases /\ ServerTypeOK /\ ConnOk(c)
  BY ServerParts DEF ServerInv
<1>2. /\ UNCHANGED startv
      /\ UNCHANGED <<next_, listenning_, backlog, arrivals, next_conn_id_, io_loop>>
      /\ UNCHANGED <<base_pc, dtor, thread, quit_, told>>
      /\ dtor = "conns" /\ c \in connections_ /\ connections_' = connections_ \ {c}
  BY AcceptSame DEF DtorConnection, threadv
<1>3. Made' = Made
  BY <1>2 DEF Made
<1>4. ~In(queue, io_loop[c], Task("ConnectDestroyed", c))
  BY <1>1, <1>2 DEF ConnOk
<1>5. CASE io_loop[c] = Base
  <2>1. state_' = [state_ EXCEPT ![c] = "gone"] /\ queue' = queue
    BY <1>5 DEF DtorConnection
  <2>2. /\ state_' \in [Made -> States] /\ state_'[c] = "gone"
        /\ \A d \in Made : d # c => state_'[d] = state_[d]
    BY <1>1, <2>1 DEF States
  <2>3. state_[c] # "connecting"
    BY <1>1, <1>5 DEF ConnOk
  <2>4. ConnOk(c)'
    BY <1>1, <1>2, <1>4, <1>5, <2>1, <2>2, <2>3 DEF ConnOk
  <2>5. \A d \in Made : d # c => ConnOk(d)'
    <3> TAKE d \in Made
    <3> HAVE d # c
    <3>1. ConnOk(d) /\ io_loop[d] \in Loops
      BY <1>1 DEF ServerInv
    <3> QED
      BY <1>1, <1>2, <2>1, <2>2, <3>1, Untouched
  <2>6. Routed(queue)' /\ Once(queue') /\ Ordered(queue')
    BY <1>1, <1>2, <2>1, RoutedStep
  <2>7. ConnsInv'
    BY <1>3, <2>4, <2>5, <2>6 DEF ConnsInv
  <2> QED
    BY <1>1, <1>2, <2>1, <2>2, <2>7, ServerConcludes DEF ServerTypeOK
<1>6. CASE io_loop[c] # Base
  <2>1. queue' = Push(queue, io_loop[c], Task("ConnectDestroyed", c)) /\ state_' = state_
    BY <1>6 DEF DtorConnection, Push
  <2>2. Task("ConnectDestroyed", c) \in Tasks
    BY <1>1, TaskParts
  <2>3. \A e \in ConnIds : Task("ConnectDestroyed", c) # Task("ConnectEstablished", e)
    BY TaskEq
  <2>4. /\ queue' \in Queues /\ Once(queue') /\ Ordered(queue')
        /\ \A m \in Loops : \A x : In(queue', m, x) <=>
             In(queue, m, x) \/ (m = io_loop[c] /\ x = Task("ConnectDestroyed", c))
    BY <1>1, <1>4, <2>1, <2>2, <2>3, Pushed
  <2>5. Routed(queue)'
    <3>1. RightPlace(io_loop[c], Task("ConnectDestroyed", c))
      BY TaskFields DEF RightPlace
    <3> QED
      BY <1>1, <1>2, <2>4, <3>1, RoutedStep
  <2>6. ConnOk(c)'
    <3>1. /\ In(queue', io_loop[c], Task("ConnectEstablished", c)) <=>
               In(queue, io_loop[c], Task("ConnectEstablished", c))
          /\ In(queue', Base, Task("RemoveConnectionInLoop", c)) <=>
               In(queue, Base, Task("RemoveConnectionInLoop", c))
      BY <1>1, <2>4, TaskEq
    <3>2. c \notin connections_' /\ state_'[c] = state_[c] /\ state_[c] # "gone"
      BY <1>1, <1>2, <2>1 DEF ConnOk
    <3> QED
      BY <1>1, <1>2, <3>1, <3>2 DEF ConnOk
  <2>7. \A d \in Made : d # c => ConnOk(d)'
    <3> TAKE d \in Made
    <3> HAVE d # c
    <3>1. ConnOk(d) /\ io_loop[d] \in Loops
      BY <1>1 DEF ServerInv
    <3>2. \A m \in Loops : \A x :
            In(queue', m, Task(x, d)) <=> In(queue, m, Task(x, d))
      BY <2>4, TaskEq
    <3> QED
      BY <1>1, <1>2, <2>1, <3>1, <3>2, Untouched
  <2>8. ConnsInv'
    BY <1>3, <2>4, <2>5, <2>6, <2>7 DEF ConnsInv
  <2> QED
    BY <1>1, <1>2, <2>1, <2>4, <2>8, ServerConcludes DEF ServerTypeOK
<1> QED
  BY <1>5, <1>6

\* A loop of the pool ends, and with its functors go their connections.
LEMMA LoopExitsKeeps ==
  ASSUME ServerInv, NEW l \in Pool, LoopExits(l)
  PROVE  ServerInv'
<1>1. /\ queue \in Queues /\ Base \in Loops /\ state_ \in [Made -> States]
      /\ \A d \in Made : d # 0 /\ io_loop[d] \in Loops /\ d \in ConnIds
      /\ Once(queue) /\ Ordered(queue) /\ Routed(queue)
      /\ Phases /\ ServerTypeOK /\ l \in Loops /\ l # Base
  BY ServerParts DEF ServerInv
<1>2. /\ UNCHANGED startv
      /\ UNCHANGED <<next_, listenning_, backlog, arrivals, next_conn_id_, io_loop>>
      /\ UNCHANGED <<base_pc, dtor, connections_>>
      /\ quit_[l] /\ thread' = [thread EXCEPT ![l] = "exit"]
      /\ UNCHANGED <<quit_, told>>
      /\ queue' = Clear(queue, l)
      /\ state_' = [c \in Made |->
                      IF \E i \in DOMAIN queue[l] : queue[l][i].conn = c
                        THEN "gone" ELSE state_[c]]
  BY AcceptSame DEF LoopExits, Clear
<1>3. Made' = Made
  BY <1>2 DEF Made
<1>4. dtor \in {"threads", "done"} /\ connections_ = {}
  BY <1>1, <1>2 DEF Phases
<1>5. /\ queue' \in Queues /\ Once(queue') /\ Ordered(queue')
      /\ \A m \in Loops : \A x : In(queue', m, x) <=> In(queue, m, x) /\ m # l
  BY <1>1, <1>2, Cleared
<1>6. Routed(queue)'
  BY <1>1, <1>2, <1>5, RoutedStep
<1>7. /\ state_' \in [Made -> States]
      /\ \A d \in Made : state_'[d] = "gone" \/ state_'[d] = state_[d]
  BY <1>1, <1>2 DEF States
<1>8. ASSUME NEW d \in Made PROVE ConnOk(d)'
  <2>1. ConnOk(d) /\ io_loop[d] \in Loops /\ d # 0
    BY <1>1, <1>8 DEF ServerInv
  <2>2. ASSUME NEW x, In(queue, l, Task(x, d)) PROVE state_'[d] = "gone"
    <3>1. PICK i \in DOMAIN queue[l] : queue[l][i] = Task(x, d)
      BY <2>2 DEF In
    <3>2. queue[l][i].conn = d
      BY <3>1, TaskFields
    <3> QED
      BY <1>2, <1>8, <3>1, <3>2
  <2>3. CASE \E i \in DOMAIN queue[l] : queue[l][i].conn = d
    <3>1. PICK i \in DOMAIN queue[l] : queue[l][i].conn = d
      BY <2>3
    <3>2. /\ queue[l][i] \in Tasks /\ In(queue, l, queue[l][i])
          /\ queue[l][i].do # "Listen"
          /\ queue[l][i].do \in {"ConnectEstablished", "RemoveConnectionInLoop",
                                 "ConnectDestroyed", "Listen"}
      BY <1>1, <2>1, <3>1, QueueParts, TaskParts DEF In
    <3>3. RightPlace(l, queue[l][i])
      BY <1>1, <3>2 DEF Routed
    <3>4. io_loop[d] = l
      BY <1>1, <3>1, <3>2, <3>3 DEF RightPlace
    <3>5. state_'[d] = "gone"
      BY <1>2, <1>8, <2>3
    <3>6. /\ ~In(queue', l, Task("ConnectEstablished", d))
          /\ ~In(queue', l, Task("ConnectDestroyed", d))
      BY <1>1, <1>5
    <3> QED
      BY <1>2, <1>4, <3>4, <3>5, <3>6 DEF ConnOk
  <2>4. CASE ~\E i \in DOMAIN queue[l] : queue[l][i].conn = d
    <3>1. state_'[d] = state_[d]
      BY <1>2, <1>8, <2>4
    <3>2. \A x : ~In(queue, l, Task(x, d))
      BY <2>4, TaskFields DEF In
    <3>3. \A m \in Loops : \A x :
            In(queue', m, Task(x, d)) <=> In(queue, m, Task(x, d))
      BY <1>5, <3>2
    <3> QED
      BY <1>1, <1>2, <2>1, <3>1, <3>3, Untouched
  <2> QED
    BY <2>3, <2>4
<1>9. ConnsInv'
  BY <1>3, <1>5, <1>6, <1>8 DEF ConnsInv
<1>10. /\ thread' \in [Pool -> {"none", "starting", "loop", "exit"}]
       /\ \A m \in Pool : quit_'[m] \/ thread'[m] = "exit" => quit_[m] \/ thread[m] = "exit"
  BY <1>1, <1>2 DEF ServerTypeOK
<1> QED
  BY <1>1, <1>2, <1>5, <1>7, <1>9, <1>10, ServerConcludes DEF ServerTypeOK

LEMMA ServerInitHolds == ServerInit => ServerInv
<1> SUFFICES ASSUME ServerInit PROVE ServerInv
  OBVIOUS
<1>1. /\ MaxThreads \in Nat /\ MaxConns \in Nat /\ ThreadNums \subseteq 0..MaxThreads
      /\ next_conn_id_ = 1 /\ io_loop = <<>> /\ state_ = <<>> /\ connections_ = {}
      /\ queue = [l \in Loops |-> <<>>]
  BY ThreadNumsAssumption, BoundsAssumption DEF ServerInit
<1>2. Made = {}
  BY <1>1 DEF Made
<1>3. io_loop \in [Made -> Loops] /\ state_ \in [Made -> States]
  BY <1>1, <1>2
<1>4. ServerTypeOK
  <2>1. num_threads_ \in Nat /\ loops_ \in 0..num_threads_
    BY <1>1 DEF ServerInit
  <2>2. queue \in [Loops -> Seq(Tasks)]
    BY <1>1
  <2>3. backlog \in 0..MaxConns /\ arrivals \in 0..MaxConns
        /\ next_conn_id_ \in 1..(MaxConns + 1)
    BY <1>1 DEF ServerInit
  <2>4. /\ thread \in [Pool -> {"none", "starting", "loop", "exit"}]
        /\ quit_ \in [Pool -> BOOLEAN] /\ told \in 0..MaxThreads
    BY <1>1 DEF ServerInit
  <2> QED
    BY <1>1, <1>2, <1>3, <2>1, <2>2, <2>3, <2>4 DEF ServerInit, ServerTypeOK, States
<1>5. Phases
  BY <1>1 DEF ServerInit, Phases
<1>6. \A l \in Loops : DOMAIN queue[l] = {}
  BY <1>1
<1>7. Once(queue) /\ Ordered(queue) /\ Routed(queue)
  BY <1>6 DEF Once, Ordered, Routed, In
<1> QED
  BY <1>2, <1>4, <1>5, <1>7 DEF ServerInv

LEMMA ServerStep == ServerInv /\ [ServerNext]_serverVars => ServerInv'
<1> SUFFICES ASSUME ServerInv, [ServerNext]_serverVars PROVE ServerInv'
  OBVIOUS
<1>1. CASE PhaseStep
  BY <1>1, PhaseStepKeeps
<1>2. ASSUME NEW t \in Callers, StartTests(t) \/ StartStep(t) PROVE ServerInv'
  BY <1>1, <1>2, ListenQueued DEF StartStep, PhaseStep
<1>3. CASE HandleRead
  BY <1>3, AcceptKeeps
<1>4. ASSUME NEW c \in Made, HandleClose(c) PROVE ServerInv'
  BY <1>4, CloseKeeps
<1>5. ASSUME NEW l \in Loops, RunFunctor(l) PROVE ServerInv'
  BY <1>5, FunctorKeeps
<1>6. ASSUME NEW l \in Pool, LoopExits(l) \/ ThreadEntersLoop(l) PROVE ServerInv'
  BY <1>1, <1>6, LoopExitsKeeps DEF PhaseStep
<1>7. CASE DtorStep
  BY <1>1, <1>7, DtorConnectionKeeps DEF DtorStep, PhaseStep
<1>8. CASE UNCHANGED serverVars
  <2>1. /\ UNCHANGED startv
        /\ UNCHANGED <<next_, listenning_, backlog, arrivals, next_conn_id_, io_loop>>
        /\ UNCHANGED <<connections_, state_, queue, base_pc, dtor, thread, quit_, told>>
    BY <1>8, AcceptSame DEF serverVars, threadv
  <2>2. ConnsInv'
    BY <2>1, ConnsFrame DEF ServerInv, ConnsInv
  <2>3. queue \in Queues /\ state_ \in [Made -> States] /\ ServerTypeOK
    BY ServerParts DEF ServerInv
  <2> QED
    BY <2>1, <2>2, <2>3, ServerConcludes DEF ServerTypeOK
<1>9. CASE HandleReadFails \/ Finished
  BY <1>8, <1>9 DEF HandleReadFails, Finished
<1>10. CASE EnterLoop \/ LeaveLoop \/ ClientConnects \/ BeginDtor
  BY <1>1, <1>10 DEF PhaseStep
<1> QED
  BY <1>2, <1>3, <1>4, <1>5, <1>6, <1>7, <1>8, <1>9, <1>10 DEF ServerNext

LEMMA ServerInvHolds == ServerSpec => []ServerInv
BY ServerInitHolds, ServerStep, PTL DEF ServerSpec

\* The counters, loops, threads and queues of a TcpServer keep their types.
THEOREM ServerTypeCorrect == ServerSpec => []ServerTypeOK
<1>1. ServerInv => ServerTypeOK
  BY DEF ServerInv
<1> QED
  BY <1>1, ServerInvHolds, PTL

\* At most one functor of a kind waits for a connection.
LEMMA WaitingCount ==
  ASSUME ServerInv, NEW l \in Loops, NEW do, NEW c \in Made,
         Task(do, c) \in Tasks
  PROVE  /\ In(queue, l, Task(do, c)) => Cardinality(Waiting(l, do, c)) = 1
         /\ ~In(queue, l, Task(do, c)) =>
              Waiting(l, do, c) = {} /\ Cardinality(Waiting(l, do, c)) = 0
<1>1. Once(queue) /\ c # 0 /\ Task(do, c).conn = c
  BY ServerParts, TaskFields DEF ServerInv
<1>2. CASE In(queue, l, Task(do, c))
  <2>1. PICK i \in DOMAIN queue[l] : queue[l][i] = Task(do, c)
    BY <1>2 DEF In
  <2>2. Waiting(l, do, c) = {i}
    BY <1>1, <2>1 DEF Waiting, Once
  <2> QED
    BY <1>2, <2>2, FS_Singleton
<1>3. CASE ~In(queue, l, Task(do, c))
  <2>1. Waiting(l, do, c) = {}
    BY <1>3 DEF Waiting, In
  <2> QED
    BY <1>3, <2>1, FS_EmptySet
<1> QED
  BY <1>2, <1>3

\* Whatever the threads of a TcpServer do, a connection is torn down once, on
\* its own loop, after it was established there.
THEOREM OneTeardownHolds == ServerSpec => []OneTeardown
<1>1. ASSUME ServerInv PROVE OneTeardown
  <2> SUFFICES ASSUME NEW c \in Made
      PROVE LET removes == Cardinality(Waiting(Base, "RemoveConnectionInLoop", c))
                destroys == Cardinality(Waiting(io_loop[c], "ConnectDestroyed", c))
                listed == IF c \in connections_ /\ state_[c] \in {"connecting", "connected"}
                            THEN 1 ELSE 0
            IN
            /\ \A l \in Loops \ {io_loop[c]} : Waiting(l, "ConnectDestroyed", c) = {}
            /\ destroys <= 1 /\ (state_[c] = "gone" => destroys = 0)
            /\ dtor = "no" /\ state_[c] # "gone" => listed + removes + destroys = 1
            /\ dtor = "no" /\ state_[c] = "gone" =>
                 removes = 0 /\ c \notin connections_
            /\ \A i \in Waiting(io_loop[c], "ConnectDestroyed", c) :
               \A j \in Waiting(io_loop[c], "ConnectEstablished", c) : j < i
    BY DEF OneTeardown
  <2> DEFINE removes == Cardinality(Waiting(Base, "RemoveConnectionInLoop", c))
             destroys == Cardinality(Waiting(io_loop[c], "ConnectDestroyed", c))
             listed == IF c \in connections_ /\ state_[c] \in {"connecting", "connected"}
                         THEN 1 ELSE 0
             rem == In(queue, Base, Task("RemoveConnectionInLoop", c))
             des == In(queue, io_loop[c], Task("ConnectDestroyed", c))
  <2>1. /\ ConnOk(c) /\ Routed(queue) /\ Ordered(queue) /\ io_loop[c] \in Loops
        /\ Base \in Loops /\ c \in ConnIds /\ state_[c] \in States
        /\ Task("ConnectDestroyed", c) \in Tasks
        /\ Task("RemoveConnectionInLoop", c) \in Tasks
    BY <1>1, ServerParts, TaskParts DEF ServerInv
  <2>2. /\ rem => removes = 1
        /\ ~rem => removes = 0
        /\ des => destroys = 1
        /\ ~des => destroys = 0
    BY <1>1, <2>1, WaitingCount
  <2>3. \A l \in Loops \ {io_loop[c]} : Waiting(l, "ConnectDestroyed", c) = {}
    <3> TAKE l \in Loops \ {io_loop[c]}
    <3>1. ~In(queue, l, Task("ConnectDestroyed", c))
      BY <2>1, TaskFields DEF Routed, RightPlace
    <3> QED
      BY <1>1, <2>1, <3>1, WaitingCount
  <2>4. \A i \in Waiting(io_loop[c], "ConnectDestroyed", c) :
        \A j \in Waiting(io_loop[c], "ConnectEstablished", c) : j < i
    BY <2>1 DEF Waiting, Ordered
  <2>5. state_[c] = "gone" => ~des
    BY <2>1 DEF ConnOk
  <2>6. dtor = "no" /\ state_[c] = "gone" => ~rem /\ c \notin connections_
    BY <2>1 DEF ConnOk
  <2>7. dtor = "no" /\ state_[c] # "gone" =>
          \/ listed = 1 /\ ~rem /\ ~des
          \/ listed = 0 /\ rem /\ ~des
          \/ listed = 0 /\ ~rem /\ des
    BY <2>1 DEF ConnOk, States
  <2> HIDE DEF removes, destroys, listed, rem, des
  <2>8. /\ destroys <= 1 /\ (state_[c] = "gone" => destroys = 0)
        /\ dtor = "no" /\ state_[c] # "gone" => listed + removes + destroys = 1
        /\ dtor = "no" /\ state_[c] = "gone" => removes = 0 /\ c \notin connections_
    BY <2>2, <2>5, <2>6, <2>7
  <2> QED
    BY <2>3, <2>4, <2>8 DEF removes, destroys, listed
<1> QED
  BY <1>1, ServerInvHolds, PTL
=============================================================================
