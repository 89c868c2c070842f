----------------------------- MODULE PollPoller -----------------------------
(***************************************************************************)
(* PollPoller (net/poll_poller.{h,cc}), the Poller on poll(2): an array of *)
(* pollfds, the map from descriptors to channels, and in every channel the *)
(* index of its pollfd.  All calls are made on the loop thread, so a call  *)
(* is one step.                                                            *)
(*                                                                         *)
(* A channel lives as its owners (TcpConnection, Acceptor, EventLoop,      *)
(* TimerQueue) make it live: constructed on an open descriptor, updated,   *)
(* removed and destructed.  The kernel gives a descriptor out again when   *)
(* the object that had it is gone.  An owner should call DisableAll()      *)
(* before Remove(); ConnectDestroyed of a half-closed connection does not. *)
(* The first update of a channel asks for events, but in ~Acceptor before  *)
(* Listen(), which removes the channel at once.  A failed assert ends the  *)
(* process (no NDEBUG in the build).                                       *)
(***************************************************************************)
EXTENDS Integers, Sequences

CONSTANTS Channels,    \* storage of channel objects
          NoChannel,
          Fds,         \* descriptors
          Events       \* kReadEvent and kWriteEvent

ASSUME FdsAssumption == Fds \subseteq Nat
ASSUME ChannelsAssumption == NoChannel \notin Channels
ASSUME EventsAssumption == "unregistered" \notin Events

VARIABLES
  poll_fds_,         \* the pollfds: fd (negative: ignored) and events
  channels_,         \* Poller::channels_, from descriptors
  fd_, events_, index_,   \* of each Channel
  life,              \* "none", "new" (constructed), "silent" (added, and asked
                     \* for nothing), "added", "removed"
  active_channels_,  \* what the last Poll() reported
  failed             \* the call whose assert failed, and the channel it was about

vars == <<poll_fds_, channels_, fd_, events_, index_, life, active_channels_, failed>>

Lives == {"none", "new", "silent", "added", "removed"}
Registered == {"silent", "added"}
Nothing == [call |-> "none", channel |-> NoChannel]

\* Type invariant.
TypeOK ==
  /\ poll_fds_ \in Seq([fd : Int, events : SUBSET Events])
  /\ channels_ \in [Fds -> Channels \cup {NoChannel}]
  /\ fd_ \in [Channels -> Fds]
  /\ events_ \in [Channels -> SUBSET Events]
  /\ index_ \in [Channels -> Int]
  /\ life \in [Channels -> Lives]
  /\ active_channels_ \subseteq Channels \cup {NoChannel}
  /\ failed \in {Nothing} \cup
       [call : {"UpdateChannel", "RemoveChannel", "Poll"},
        channel : Channels \cup {NoChannel}]

Init ==
  /\ poll_fds_ = <<>>
  /\ channels_ = [f \in Fds |-> NoChannel]
  /\ \E f \in Fds : fd_ = [c \in Channels |-> f]
  /\ events_ = [c \in Channels |-> {}]
  /\ index_ = [c \in Channels |-> -1]
  /\ life = [c \in Channels |-> "none"]
  /\ active_channels_ = {}
  /\ failed = Nothing

\* Channel::Channel on a descriptor no other channel has.
Construct(c, f) ==
  /\ life[c] = "none"
  /\ \A d \in Channels : life[d] # "none" => fd_[d] # f
  /\ fd_' = [fd_ EXCEPT ![c] = f]
  /\ events_' = [events_ EXCEPT ![c] = {}]
  /\ index_' = [index_ EXCEPT ![c] = -1]
  /\ life' = [life EXCEPT ![c] = "new"]
  /\ UNCHANGED <<poll_fds_, channels_, active_channels_, failed>>

\* The owner destructs the channel and closes its descriptor.
Destruct(c) ==
  /\ life[c] \in {"new", "removed"}
  /\ life' = [life EXCEPT ![c] = "none"]
  /\ UNCHANGED <<poll_fds_, channels_, fd_, events_, index_, active_channels_,
                 failed>>

\* An assert of the call fails.
Fails(call, c) ==
  /\ failed' = [call |-> call, channel |-> c]
  /\ UNCHANGED <<poll_fds_, channels_, fd_, index_, life, active_channels_>>

\* -fd - 1: how a pollfd is ignored, and how that is undone.
Ignored(fd) == -fd - 1

\* Vectors count from 0, sequences from 1.
At(i) == poll_fds_[i + 1]

\* Mutant: the descriptor is not set again, an ignored pollfd stays ignored.
PollFdStaysIgnored(c, ev) ==
  [fd |-> IF ev = {} THEN Ignored(fd_[c]) ELSE At(index_[c]).fd, events |-> ev]

\* The pollfd of an updated channel.
PollFd(c, ev) == [fd |-> IF ev = {} THEN Ignored(fd_[c]) ELSE fd_[c],
                  events |-> ev]

\* The asserts on channels_ and on the index, of UpdateChannel and RemoveChannel.
Found(c) ==
  /\ channels_[fd_[c]] = c
  /\ 0 <= index_[c] /\ index_[c] < Len(poll_fds_)

\* Channel::Enable*/Disable* => UpdateChannel, the channel is new.  Its pollfd is
\* not ignored, whatever it asks for.
AddChannel(c, ev) ==
  /\ life[c] = "new"
  /\ events_' = [events_ EXCEPT ![c] = ev]
  /\ IF index_[c] < 0 /\ channels_[fd_[c]] = NoChannel
       THEN /\ poll_fds_' = Append(poll_fds_, [fd |-> fd_[c], events |-> ev])
            /\ index_' = [index_ EXCEPT ![c] = Len(poll_fds_)]
            /\ channels_' = [channels_ EXCEPT ![fd_[c]] = c]
            /\ life' = [life EXCEPT ![c] = IF ev = {} THEN "silent" ELSE "added"]
            /\ UNCHANGED <<fd_, active_channels_, failed>>
       ELSE Fails("UpdateChannel", c)

\* UpdateChannel, the channel has an index.
UpdateChannel(c, ev) ==
  /\ life[c] \in Registered
  /\ events_' = [events_ EXCEPT ![c] = ev]
  /\ IF Found(c) /\ At(index_[c]).fd \in {fd_[c], Ignored(fd_[c])}
       THEN /\ poll_fds_' = [poll_fds_ EXCEPT ![index_[c] + 1] = PollFd(c, ev)]
            /\ life' = [life EXCEPT ![c] = "added"]
            /\ UNCHANGED <<channels_, fd_, index_, active_channels_, failed>>
       ELSE Fails("UpdateChannel", c)

\* Mutant: the negative descriptor of an ignored last pollfd is not decoded;
\* here channels_[channelAtEnd] inserts a null entry and the index is lost.
FdAtEndRaw == poll_fds_[Len(poll_fds_)].fd

\* channelAtEnd: the descriptor of the last pollfd, ignored or not.
FdAtEnd == LET fd == poll_fds_[Len(poll_fds_)].fd
           IN IF fd < 0 THEN Ignored(fd) ELSE fd

\* channels_[channelAtEnd]->set_index(idx), unless c is the last itself.
MoveIndex(c) ==
  index_' = IF index_[c] = Len(poll_fds_) - 1 THEN index_
            ELSE [d \in Channels |->
                    IF FdAtEnd \in Fds /\ channels_[FdAtEnd] = d THEN index_[c]
                    ELSE index_[d]]

\* The asserts of RemoveChannel.
MayRemove(c) ==
  /\ Found(c) /\ events_[c] = {}
  /\ At(index_[c]) = [fd |-> Ignored(fd_[c]), events |-> {}]

\* Channel::Remove => RemoveChannel: erase c from channels_; the last pollfd
\* takes the place of its pollfd.  c keeps its index.
RemoveChannel(c) ==
  /\ life[c] \in Registered /\ UNCHANGED events_
  /\ IF MayRemove(c)
       THEN /\ LET last == Len(poll_fds_) IN
                 poll_fds_' = SubSeq([poll_fds_ EXCEPT
                                        ![index_[c] + 1] = poll_fds_[last]],
                                     1, last - 1)
            /\ MoveIndex(c)
            /\ channels_' = [channels_ EXCEPT ![fd_[c]] = NoChannel]
            /\ life' = [life EXCEPT ![c] = "removed"]
            /\ UNCHANGED <<fd_, active_channels_, failed>>
       ELSE Fails("RemoveChannel", c)

\* The channel of the i-th pollfd is in channels_, under its own descriptor.
Known(i) ==
  LET fd == poll_fds_[i].fd
  IN  channels_[fd] # NoChannel /\ fd_[channels_[fd]] = fd

\* Poll() and FillActiveChannels: the kernel sets revents of some of the pollfds
\* that are not ignored, and channels_ names their channels.  ~Acceptor does not
\* let the loop poll between DisableAll() and Remove().
Poll(ready) ==
  /\ ready \subseteq {i \in DOMAIN poll_fds_ : poll_fds_[i].fd >= 0}
  /\ \A c \in Channels : life[c] # "silent"
  /\ UNCHANGED events_
  /\ IF \A i \in ready : Known(i)
       THEN /\ active_channels_' = {channels_[poll_fds_[i].fd] : i \in ready}
            /\ UNCHANGED <<poll_fds_, channels_, fd_, index_, life, failed>>
       ELSE Fails("Poll", NoChannel)

Next ==
  \/ /\ failed = Nothing
     /\ \/ \E c \in Channels :
             \/ \E f \in Fds : Construct(c, f)
             \/ \E ev \in SUBSET Events : AddChannel(c, ev) \/ UpdateChannel(c, ev)
             \/ RemoveChannel(c) \/ Destruct(c)
        \/ \E ready \in SUBSET DOMAIN poll_fds_ : Poll(ready)
  \/ failed # Nothing /\ UNCHANGED vars

Spec == Init /\ [][Next]_vars

-----------------------------------------------------------------------------
(* Properties.                                                             *)

\* No assert of UpdateChannel, RemoveChannel or FillActiveChannels fails, but one:
\* RemoveChannel's on a channel whose owner did not make it ask for nothing, and
\* on one that never asked for anything (an Acceptor destroyed before Listen():
\* its pollfd is not ignored, poll_poller.cc:94).
AssertsHold ==
  failed # Nothing =>
    /\ failed.call = "RemoveChannel"
    /\ \/ events_[failed.channel] # {}
       \/ life[failed.channel] = "silent"

\* A channel that exists is where the next call on it looks: a new one nowhere,
\* a registered one in channels_ and in the pollfd of its index, with what it asked
\* for last.
PlacesInv ==
  \A c \in Channels :
    /\ life[c] = "new" => index_[c] < 0 /\ channels_[fd_[c]] = NoChannel
    /\ life[c] = "silent" => events_[c] = {}
    /\ life[c] \in Registered =>
         /\ Found(c) /\ At(index_[c]).events = events_[c]
         /\ At(index_[c]).fd = IF events_[c] = {} /\ life[c] = "added"
                                 THEN Ignored(fd_[c]) ELSE fd_[c]

\* Every pollfd belongs to a registered channel, which has its index.
ArrayInv ==
  \A i \in DOMAIN poll_fds_ :
    \E c \in Channels : life[c] \in Registered /\ index_[c] = i - 1

\* Channels that exist have different descriptors (the kernel's promise), and
\* channels_ names registered channels only: with IndexInv, an inductive
\* invariant.
FdsDiffer ==
  \A c, d \in Channels :
    life[c] # "none" /\ life[d] # "none" /\ fd_[c] = fd_[d] => c = d
MapInv ==
  \A f \in Fds :
    channels_[f] # NoChannel =>
      life[channels_[f]] \in Registered /\ fd_[channels_[f]] = f

\* The asserts hold, and the swap in RemoveChannel keeps the array, the map and
\* the indices together, whatever is ignored.
IndexInv == AssertsHold /\ PlacesInv /\ ArrayInv

\* What each channel asked for last, and what the kernel is asked for on behalf
\* of c.
Wanted == [c \in Channels |->
             IF life[c] \in Registered THEN events_[c] ELSE {"unregistered"}]
Asked(c) ==
  IF life[c] \notin Registered THEN {"unregistered"}
  ELSE UNION {poll_fds_[i].events : i \in
                {j \in DOMAIN poll_fds_ : poll_fds_[j].fd = fd_[c]}}
Watch == [c \in Channels |-> Asked(c)]

\* PollPoller implements the abstract Poller: what poll(2) is asked for is what
\* each channel asked for last, and what is reported belongs to such a channel.
P == INSTANCE Poller WITH wanted <- Wanted, watch <- Watch,
                          active <- active_channels_
ImplementsPoller == P!PSpec
=============================================================================
