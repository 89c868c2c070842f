------------------------ MODULE TcpConnectionProofs ------------------------
(***************************************************************************)
(* Theorems about TcpConnection, for every set of programs and users, any  *)
(* number of messages, calls and arrivals, and both places of the I/O loop. *)
(***************************************************************************)
EXTENDS TcpConnection, Integers, SequenceTheorems, TLAPS

-----------------------------------------------------------------------------
(* Types.                                                                  *)

\* The part of TypeOK that Channel and EpollPoller change.
ChannelOK ==
  /\ events_ \subseteq {"R", "W"} /\ epoll_mask \subseteq {"R", "W"}
  /\ index_ \in {"kNew", "kAdded", "kDeleted"}
  /\ channels_ \in BOOLEAN /\ epoll \in BOOLEAN

\* The part that reading and writing change.
StreamOK ==
  /\ output_buffer_ \in Seq(Nat) /\ wire \in Seq(Nat) /\ sent \in Nat
  /\ write_shut \in BOOLEAN /\ late_write \in BOOLEAN

\* What the kernel holds from the peer.
PeerOK == peer \in [data : Nat, fin : BOOLEAN, rst : BOOLEAN, so_error : BOOLEAN]

\* The I/O loop.
LoopOK ==
  /\ phase \in {"poll", "handle", "run"}
  /\ revents_ \subseteq {"HUP", "ERR", "IN", "OUT"}
  /\ todo \in Seq(Steps)
  /\ pending \in Seq(Tasks) /\ functors \in Seq(Tasks) /\ batch \subseteq Tasks

\* The rest.
ServerOK ==
  /\ program \in Programs /\ io_loop \in IoLoops
  /\ base_pending \in Seq({"RemoveConnectionInLoop"})
  /\ connections_ \in BOOLEAN /\ server \in {"idle", "alive", "dead"}
  /\ delayed \in BOOLEAN

UserOK ==
  /\ user_call \in [Users -> UserCalls] /\ user_ref \in [Users -> BOOLEAN]
  /\ calls \in 0..program.calls /\ arrivals \in 0..MaxArrivals

ConnOK ==
  /\ state_ \in States /\ reading_ \in BOOLEAN
  /\ fault \in {"none", "assert", "use_after_free"}

LEMMA TypeParts ==
  /\ TypeOK <=> /\ ChannelOK /\ StreamOK /\ PeerOK /\ LoopOK /\ ServerOK
                /\ UserOK /\ ConnOK
  /\ TypeOK' <=> /\ ChannelOK' /\ StreamOK' /\ PeerOK' /\ LoopOK' /\ ServerOK'
                 /\ UserOK' /\ ConnOK'
BY DEF TypeOK, ChannelOK, StreamOK, PeerOK, LoopOK, ServerOK, UserOK, ConnOK

\* Every step of the registration keeps its type.
LEMMA UpdateType ==
  ASSUME ChannelOK, NEW ev \in SUBSET {"R", "W"}, UpdateChannel(ev)
  PROVE  ChannelOK'
BY DEF ChannelOK, UpdateChannel

LEMMA RemoveType ==
  ASSUME ChannelOK, RemoveChannel
  PROVE  ChannelOK'
BY DEF ChannelOK, RemoveChannel

\* Nothing of a group changes.
LEMMA ChannelSame == ASSUME ChannelOK, UNCHANGED channel PROVE ChannelOK'
BY DEF ChannelOK, channel

LEMMA StreamSame == ASSUME StreamOK, UNCHANGED stream PROVE StreamOK'
BY DEF StreamOK, stream

LEMMA PeerSame == ASSUME PeerOK, UNCHANGED peer PROVE PeerOK'
BY DEF PeerOK

LEMMA ConnSame == ASSUME ConnOK, UNCHANGED <<state_, reading_, fault>> PROVE ConnOK'
BY DEF ConnOK

LEMMA UserSame ==
  ASSUME UserOK, UNCHANGED <<program, userv, bounds>> PROVE UserOK'
BY DEF UserOK, userv, bounds

LEMMA ServerSame ==
  ASSUME ServerOK, UNCHANGED <<program, io_loop, serverv, delayed>> PROVE ServerOK'
BY DEF ServerOK, serverv

LEMMA LoopSame ==
  ASSUME LoopOK, UNCHANGED loop, todo' \in Seq(Steps), pending' \in Seq(Tasks)
  PROVE  LoopOK'
BY DEF LoopOK, loop

\* A functor is queued, or not.
LEMMA QueueIfType ==
  ASSUME NEW c, NEW q \in Seq(Tasks), NEW t \in Tasks
  PROVE  QueueIf(c, q, t) \in Seq(Tasks)
BY AppendProperties DEF QueueIf

\* The parts of a message.
LEMMA MessageParts ==
  ASSUME sent \in Nat, NEW n \in 0..2
  PROVE  /\ SubSeq(NextMessage, 1, n) \in Seq(Nat)
         /\ SubSeq(NextMessage, n + 1, 2) \in Seq(Nat)
         /\ Len(SubSeq(NextMessage, 1, n)) = n
         /\ Len(SubSeq(NextMessage, n + 1, 2)) = 2 - n
         /\ \A i \in 1..n : SubSeq(NextMessage, 1, n)[i] = sent + i
         /\ \A i \in 1..(2 - n) : SubSeq(NextMessage, n + 1, 2)[i] = sent + n + i
<1>1. NextMessage \in Seq(Nat) /\ Len(NextMessage) = 2
      /\ NextMessage[1] = sent + 1 /\ NextMessage[2] = sent + 2
  BY DEF NextMessage
<1>2. n = 0 \/ n = 1 \/ n = 2
  OBVIOUS
<1>3. /\ SubSeq(NextMessage, 1, n) \in Seq(Nat)
      /\ Len(SubSeq(NextMessage, 1, n)) = n
      /\ \A i \in 1..n : SubSeq(NextMessage, 1, n)[i] = NextMessage[i]
  BY <1>1, <1>2, SubSeqProperties
<1>4. /\ SubSeq(NextMessage, n + 1, 2) \in Seq(Nat)
      /\ Len(SubSeq(NextMessage, n + 1, 2)) = 2 - n
      /\ \A i \in 1..(2 - n) :
           SubSeq(NextMessage, n + 1, 2)[i] = NextMessage[n + i]
  BY <1>1, <1>2, SubSeqProperties
<1> QED
  BY <1>1, <1>2, <1>3, <1>4

\* SendInLoop, from a functor or from a call on the loop thread.
LEMMA SendType ==
  ASSUME ChannelOK, StreamOK, pending \in Seq(Tasks), ConnOK, SendInLoop
  PROVE  ChannelOK' /\ StreamOK' /\ pending' \in Seq(Tasks)
         /\ fault' \in {"none", "assert", "use_after_free"}
<1>1. CASE state_ = "kDisconnected"
  BY <1>1, ChannelSame, StreamSame DEF SendInLoop, ConnOK
<1>2. CASE /\ UNCHANGED <<output_buffer_, wire, sent, write_shut, channel,
                          pending, fault>>
           /\ late_write' = (late_write \/ write_shut)
  BY <1>2, ChannelSame DEF StreamOK, ConnOK
<1>3. ASSUME NEW n \in 0..2,
             wire' = wire \o SubSeq(NextMessage, 1, n),
             output_buffer_' = output_buffer_ \o SubSeq(NextMessage, n + 1, 2),
             sent' = sent + 2, UNCHANGED <<write_shut, late_write>>
      PROVE  StreamOK'
  <2>1. SubSeq(NextMessage, 1, n) \in Seq(Nat)
        /\ SubSeq(NextMessage, n + 1, 2) \in Seq(Nat)
    BY MessageParts DEF StreamOK
  <2>2. wire' \in Seq(Nat) /\ output_buffer_' \in Seq(Nat)
    BY <1>3, <2>1, ConcatProperties DEF StreamOK
  <2> QED
    BY <1>3, <2>2 DEF StreamOK
<1>4. ASSUME NEW c1, NEW c2,
             pending' = QueueIf(c1, QueueIf(c2, pending, "WriteComplete"),
                                "HighWatermark")
      PROVE  pending' \in Seq(Tasks)
  <2>1. "WriteComplete" \in Tasks /\ "HighWatermark" \in Tasks
    BY DEF Tasks, SharedTasks
  <2> QED
    BY <1>4, <2>1, QueueIfType
<1>5. ASSUME EnableWriting, Assert(UpdateAsserts)
      PROVE  ChannelOK' /\ fault' \in {"none", "assert", "use_after_free"}
  BY <1>5, UpdateType DEF EnableWriting, Assert, ChannelOK
<1>6. ASSUME UNCHANGED <<channel, fault>>
      PROVE  ChannelOK' /\ fault' \in {"none", "assert", "use_after_free"}
  BY <1>6, ChannelSame DEF ConnOK
<1> QED
  BY <1>1, <1>2, <1>3, <1>4, <1>5, <1>6, Zenon DEF SendInLoop

\* HandleClose, whatever is left to do after it.
LEMMA HandleCloseType ==
  ASSUME ChannelOK, ConnOK, NEW rest \in Seq(Steps), HandleClose(rest)
  PROVE  /\ ChannelOK' /\ state_' \in States /\ todo' \in Seq(Steps)
         /\ fault' \in {"none", "assert", "use_after_free"}
<1>1. <<"callback", "close_callback">> \in Seq(Steps)
  BY DEF Steps
<1>2. todo' \in Seq(Steps)
  BY <1>1, ConcatProperties DEF HandleClose
<1> QED
  BY <1>2, UpdateType DEF HandleClose, States, Assert

\* The body of a functor.
LEMMA RunTaskType ==
  ASSUME TypeOK, NEW t \in Tasks, RunTask(t)
  PROVE  /\ ChannelOK' /\ StreamOK' /\ ConnOK'
         /\ todo' \in Seq(Steps) /\ pending' \in Seq(Tasks)
         /\ user_ref' \in [Users -> BOOLEAN]
<1>0. /\ ChannelOK /\ StreamOK /\ ConnOK /\ todo \in Seq(Steps)
      /\ pending \in Seq(Tasks) /\ user_ref \in [Users -> BOOLEAN]
  BY TypeParts DEF LoopOK, UserOK
<1>1. CASE t = "ConnectEstablished"
  <2>1. /\ state_' = "kConnected" /\ UpdateChannel({"R"})
        /\ Assert(UpdateAsserts) /\ todo' = <<"callback">>
        /\ user_ref' = [u \in Users |-> program.cross_ops # {}]
        /\ UNCHANGED <<reading_, stream, pending>>
    BY <1>1 DEF RunTask
  <2>2. <<"callback">> \in Seq(Steps)
    BY DEF Steps
  <2>3. ChannelOK' /\ StreamOK'
    BY <1>0, <2>1, UpdateType, StreamSame
  <2> QED
    BY <1>0, <2>1, <2>2, <2>3 DEF ConnOK, States, Assert
<1>2. CASE t = "ConnectDestroyed"
  <2>1. /\ todo' = IF state_ = "kConnected"
                     THEN <<"disable", "callback", "remove">> ELSE <<"remove">>
        /\ UNCHANGED <<state_, reading_, channel, stream, pending, fault,
                       user_ref>>
    BY <1>2 DEF RunTask
  <2>2. <<"disable", "callback", "remove">> \in Seq(Steps)
        /\ <<"remove">> \in Seq(Steps)
    BY DEF Steps
  <2> QED
    BY <1>0, <2>1, <2>2, ChannelSame, StreamSame DEF ConnOK
<1>3. CASE t = "ForceCloseInLoop"
  <2>1. ForceCloseInLoop /\ UNCHANGED <<reading_, stream, pending, user_ref>>
    BY <1>3 DEF RunTask
  <2>2. CASE HandleClose(<<>>)
    <3>1. <<>> \in Seq(Steps)
      BY EmptySeq
    <3> QED
      BY <1>0, <2>1, <2>2, <3>1, HandleCloseType, StreamSame DEF ConnOK
  <2>3. CASE UNCHANGED <<state_, channel, todo, fault>>
    BY <1>0, <2>1, <2>3, ChannelSame, StreamSame DEF ConnOK
  <2> QED
    BY <2>1, <2>2, <2>3 DEF ForceCloseInLoop
<1>4. CASE t \in {"WriteComplete", "HighWatermark"}
  <2>1. /\ todo' = <<"callback">>
        /\ UNCHANGED <<state_, reading_, channel, stream, pending, fault,
                       user_ref>>
    BY <1>4 DEF RunTask
  <2>2. <<"callback">> \in Seq(Steps)
    BY DEF Steps
  <2> QED
    BY <1>0, <2>1, <2>2, ChannelSame, StreamSame DEF ConnOK
<1>5. CASE t = "SendInLoop"
  <2>1. SendInLoop /\ UNCHANGED <<state_, reading_, todo, user_ref>>
    BY <1>5 DEF RunTask
  <2> QED
    BY <1>0, <2>1, SendType DEF ConnOK
<1>6. CASE t = "ShutdownInLoop"
  <2>1. /\ write_shut' \in {write_shut, TRUE}
        /\ UNCHANGED <<state_, reading_, channel, output_buffer_, wire, sent,
                       late_write, pending, todo, fault, user_ref>>
    BY <1>6 DEF RunTask, ShutdownInLoop
  <2> QED
    BY <1>0, <2>1, ChannelSame DEF ConnOK, StreamOK
<1>7. CASE t \in {"StartReadInLoop", "StopReadInLoop"}
  <2>1. /\ \/ \E ev \in SUBSET {"R", "W"} :
                /\ UpdateChannel(ev) /\ Assert(UpdateAsserts)
                /\ reading_' \in BOOLEAN
           \/ UNCHANGED <<channel, reading_, fault>>
        /\ UNCHANGED <<state_, stream, pending, todo, user_ref>>
    BY <1>0, <1>7 DEF RunTask, StartReadInLoop, StopReadInLoop, ChannelOK
  <2> QED
    BY <1>0, <2>1, UpdateType, ChannelSame, StreamSame DEF ConnOK, Assert
<1> QED
  BY <1>1, <1>2, <1>3, <1>4, <1>5, <1>6, <1>7 DEF Tasks, SharedTasks, RawTasks

\* The steps HandleEventWithGuard takes.
LEMMA EventStepsType ==
  ASSUME HandleEvent
  PROVE  todo' \in Seq(Steps)
<1> DEFINE has(cond, s) == IF cond THEN <<s>> ELSE <<>>
           c == has("HUP" \in revents_ /\ "IN" \notin revents_, "close")
           e == has("ERR" \in revents_, "error")
           r == has("IN" \in revents_, "read")
           w == has("OUT" \in revents_, "write")
<1>1. todo' = c \o e \o r \o w
  BY DEF HandleEvent
<1>2. c \in Seq(Steps) /\ e \in Seq(Steps) /\ r \in Seq(Steps) /\ w \in Seq(Steps)
  <2>1. \A s \in Steps : <<s>> \in Seq(Steps) /\ <<>> \in Seq(Steps)
    OBVIOUS
  <2>2. {"close", "error", "read", "write"} \subseteq Steps
    BY DEF Steps
  <2> QED
    BY <2>1, <2>2, Zenon
<1> HIDE DEF c, e, r, w
<1> QED
  <2>1. c \o e \in Seq(Steps)
    BY <1>2, ConcatProperties
  <2>2. (c \o e) \o r \in Seq(Steps)
    BY <1>2, <2>1, ConcatProperties
  <2>3. ((c \o e) \o r) \o w \in Seq(Steps)
    BY <1>2, <2>2, ConcatProperties
  <2> QED
    BY <1>1, <2>3

\* The next step of the handler is taken off todo.
LEMMA TodoTail ==
  ASSUME todo \in Seq(Steps), todo # <<>>
  PROVE  Tail(todo) \in Seq(Steps)
BY HeadTailProperties

\* A step of a handler or functor of the I/O loop keeps the types.
LEMMA HandlerType ==
  ASSUME TypeOK, HandlerStep, UNCHANGED <<program, io_loop>>
  PROVE  TypeOK'
<1>0. /\ ChannelOK /\ StreamOK /\ PeerOK /\ LoopOK /\ ServerOK /\ UserOK /\ ConnOK
      /\ todo \in Seq(Steps) /\ pending \in Seq(Tasks)
  BY TypeParts DEF LoopOK
<1>p. /\ [peer EXCEPT !.so_error = FALSE]
           \in [data : Nat, fin : BOOLEAN, rst : BOOLEAN, so_error : BOOLEAN]
      /\ [peer EXCEPT !.data = 0]
           \in [data : Nat, fin : BOOLEAN, rst : BOOLEAN, so_error : BOOLEAN]
  BY <1>0 DEF PeerOK
<1>t. ASSUME todo # <<>> PROVE Tail(todo) \in Seq(Steps)
  BY <1>0, <1>t, TodoTail
<1>c. ASSUME NEW rest \in Seq(Steps), HandleClose(rest), UNCHANGED reading_
      PROVE  ChannelOK' /\ ConnOK' /\ todo' \in Seq(Steps)
  BY <1>0, <1>c, HandleCloseType DEF ConnOK
<1>q. ASSUME UNCHANGED <<stream, loop, serverv, delayed, userv, bounds>>,
             todo' \in Seq(Steps), pending' \in Seq(Tasks)
      PROVE  StreamOK' /\ LoopOK' /\ ServerOK' /\ UserOK'
  BY <1>0, <1>q, StreamSame, LoopSame, ServerSame, UserSame
<1>1. CASE StepClose
  <2>1. /\ HandleClose(Tail(todo)) /\ Tail(todo) \in Seq(Steps)
        /\ UNCHANGED <<reading_, stream, peer, loop, pending, serverv, delayed,
                       userv, bounds>>
    BY <1>1, <1>t DEF StepClose
  <2>2. pending' \in Seq(Tasks) /\ PeerOK'
    BY <1>0, <2>1, PeerSame
  <2> QED
    BY <1>c, <1>q, <2>1, <2>2, TypeParts
<1>2. CASE StepError
  <2>1. /\ ChannelOK' /\ ConnOK' /\ PeerOK'
        /\ todo' \in Seq(Steps) /\ pending' \in Seq(Tasks)
    BY <1>0, <1>p, <1>t, <1>2, ChannelSame, ConnSame DEF StepError, PeerOK
  <2> QED
    BY <1>2, <1>q, <2>1, TypeParts DEF StepError
<1>3. CASE StepRead
  <2>0. /\ todo # <<>> /\ Tail(todo) \in Seq(Steps)
        /\ UNCHANGED <<reading_, stream, loop, pending, serverv, delayed, userv,
                       bounds>>
        /\ pending' \in Seq(Tasks)
    BY <1>0, <1>3, <1>t DEF StepRead
  <2>1. CASE /\ peer' = [peer EXCEPT !.data = 0]
             /\ todo' = <<"callback">> \o Tail(todo)
             /\ UNCHANGED <<state_, channel, fault>>
    <3>1. <<"callback">> \in Seq(Steps)
      BY DEF Steps
    <3>2. todo' \in Seq(Steps)
      BY <2>0, <2>1, <3>1, ConcatProperties
    <3>3. ChannelOK' /\ ConnOK' /\ PeerOK'
      BY <1>0, <1>p, <2>0, <2>1, ChannelSame, ConnSame DEF PeerOK
    <3> QED
      BY <1>q, <2>0, <3>2, <3>3, TypeParts
  <2>2. CASE HandleClose(Tail(todo)) /\ UNCHANGED peer
    BY <1>0, <1>c, <1>q, <2>0, <2>2, PeerSame, TypeParts
  <2>3. CASE /\ peer' = [peer EXCEPT !.so_error = FALSE]
             /\ todo' = Tail(todo)
             /\ UNCHANGED <<state_, channel, fault>>
    <3>1. ChannelOK' /\ ConnOK' /\ PeerOK'
      BY <1>0, <1>p, <2>0, <2>3, ChannelSame, ConnSame DEF PeerOK
    <3> QED
      BY <1>q, <2>0, <2>3, <3>1, TypeParts
  <2> QED
    BY <1>3, <2>1, <2>2, <2>3 DEF StepRead
<1>4. CASE StepWrite
  <2>0. /\ todo # <<>> /\ todo' \in Seq(Steps)
        /\ UNCHANGED <<state_, reading_, sent, peer, loop, serverv, delayed,
                       userv, bounds>>
    BY <1>4, <1>t DEF StepWrite
  <2>1. CASE /\ late_write' = (late_write \/ (IsWriting /\ write_shut))
             /\ UNCHANGED <<output_buffer_, wire, write_shut, channel, pending,
                            fault>>
    <3>1. ChannelOK' /\ ConnOK' /\ PeerOK' /\ pending' \in Seq(Tasks)
      BY <1>0, <2>0, <2>1, ChannelSame, ConnSame, PeerSame
    <3>2. StreamOK'
      BY <1>0, <2>0, <2>1 DEF StreamOK
    <3> QED
      BY <1>0, <2>0, <3>1, <3>2, LoopSame, ServerSame, UserSame, TypeParts
  <2>2. ASSUME NEW n \in 1..Len(output_buffer_),
               wire' = wire \o SubSeq(output_buffer_, 1, n),
               output_buffer_' =
                 SubSeq(output_buffer_, n + 1, Len(output_buffer_)),
               write_shut' \in BOOLEAN, UNCHANGED late_write
        PROVE  StreamOK'
    <3>1. /\ SubSeq(output_buffer_, 1, n) \in Seq(Nat)
          /\ output_buffer_' \in Seq(Nat)
      BY <1>0, <2>2, SubSeqProperties, LenProperties DEF StreamOK
    <3>2. wire' \in Seq(Nat)
      BY <1>0, <2>2, <3>1, ConcatProperties DEF StreamOK
    <3> QED
      BY <1>0, <2>0, <2>2, <3>1, <3>2 DEF StreamOK
  <2>3. ASSUME UpdateChannel(events_ \ {"W"}), Assert(UpdateAsserts),
               pending' = QueueIf(HasCallbacks, pending, "WriteComplete")
        PROVE  ChannelOK' /\ ConnOK' /\ pending' \in Seq(Tasks)
    <3>1. "WriteComplete" \in Tasks
      BY DEF Tasks, SharedTasks
    <3>2. ChannelOK'
      BY <1>0, <2>3, UpdateType DEF ChannelOK
    <3> QED
      BY <1>0, <2>0, <2>3, <3>1, <3>2, QueueIfType DEF ConnOK, Assert
  <2>4. ASSUME UNCHANGED <<channel, pending, write_shut, fault>>
        PROVE  ChannelOK' /\ ConnOK' /\ pending' \in Seq(Tasks)
    BY <1>0, <2>0, <2>4, ChannelSame DEF ConnOK
  <2>5. ASSUME ShutdownInLoop(FALSE) \/ UNCHANGED write_shut
        PROVE  write_shut' \in BOOLEAN
    BY <1>0, <2>5 DEF ShutdownInLoop, StreamOK
  <2>6. ASSUME NEW n \in 1..Len(output_buffer_),
               wire' = wire \o SubSeq(output_buffer_, 1, n),
               output_buffer_' =
                 SubSeq(output_buffer_, n + 1, Len(output_buffer_)),
               IF n = Len(output_buffer_)
                 THEN /\ UpdateChannel(events_ \ {"W"}) /\ Assert(UpdateAsserts)
                      /\ pending' = QueueIf(HasCallbacks, pending, "WriteComplete")
                      /\ IF state_ = "kDisconnecting" THEN ShutdownInLoop(FALSE)
                                                     ELSE UNCHANGED write_shut
                 ELSE UNCHANGED <<channel, pending, write_shut, fault>>,
               UNCHANGED late_write
        PROVE  TypeOK'
    <3>1. ChannelOK' /\ ConnOK' /\ pending' \in Seq(Tasks)
          /\ write_shut' \in BOOLEAN
      BY <2>3, <2>4, <2>5, <2>6
    <3>2. StreamOK'
      BY <2>2, <2>6, <3>1
    <3> QED
      BY <1>0, <2>0, <3>1, <3>2, PeerSame, LoopSame, ServerSame, UserSame,
         TypeParts
  <2> QED
    BY <1>4, <2>1, <2>6, Zenon DEF StepWrite
<1>5. CASE StepCallback
  <2>1. /\ ChannelOK' /\ ConnOK' /\ PeerOK'
        /\ todo' \in Seq(Steps) /\ pending' \in Seq(Tasks)
    BY <1>0, <1>t, <1>5, ChannelSame, ConnSame, PeerSame DEF StepCallback
  <2> QED
    BY <1>5, <1>q, <2>1, TypeParts DEF StepCallback
<1>6. CASE StepCloseCallback
  <2>0. /\ todo' \in Seq(Steps) /\ server' = server /\ delayed' = delayed
        /\ ChannelOK' /\ StreamOK' /\ PeerOK' /\ UserOK'
    BY <1>0, <1>t, <1>6, ChannelSame, StreamSame, PeerSame, UserSame
       DEF StepCloseCallback
  <2>1. "ConnectDestroyed" \in Tasks
    BY DEF Tasks, SharedTasks
  <2>2. pending' \in Seq(Tasks) /\ base_pending' \in Seq({"RemoveConnectionInLoop"})
    <3>1. base_pending \in Seq({"RemoveConnectionInLoop"})
      BY <1>0 DEF ServerOK
    <3>2. /\ Append(pending, "ConnectDestroyed") \in Seq(Tasks)
          /\ Append(base_pending, "RemoveConnectionInLoop")
               \in Seq({"RemoveConnectionInLoop"})
      BY <1>0, <2>1, <3>1, AppendProperties
    <3> QED
      BY <1>0, <1>6, <3>1, <3>2 DEF StepCloseCallback
  <2>3. LoopOK'
    BY <1>0, <1>6, <2>0, <2>2, LoopSame DEF StepCloseCallback
  <2>4. ServerOK' /\ ConnOK'
    BY <1>0, <1>6, <2>0, <2>2 DEF StepCloseCallback, ServerOK, ConnOK
  <2> QED
    BY <2>0, <2>3, <2>4, TypeParts
<1>7. CASE StepDisable
  <2>1. /\ ChannelOK' /\ PeerOK'
        /\ todo' \in Seq(Steps) /\ pending' \in Seq(Tasks)
    BY <1>0, <1>t, <1>7, UpdateType, PeerSame DEF StepDisable
  <2>2. ConnOK'
    BY <1>0, <1>7 DEF StepDisable, ConnOK, Assert, States
  <2> QED
    BY <1>7, <1>q, <2>1, <2>2, TypeParts DEF StepDisable
<1>8. CASE StepRemove
  <2>1. /\ ChannelOK' /\ PeerOK'
        /\ todo' \in Seq(Steps) /\ pending' \in Seq(Tasks)
    BY <1>0, <1>t, <1>8, RemoveType, PeerSame DEF StepRemove
  <2>2. ConnOK'
    BY <1>0, <1>8 DEF StepRemove, ConnOK, Assert
  <2> QED
    BY <1>8, <1>q, <2>1, <2>2, TypeParts DEF StepRemove
<1> QED
  BY <1>1, <1>2, <1>3, <1>4, <1>5, <1>6, <1>7, <1>8 DEF HandlerStep

\* The other steps of the I/O loop keep the types.
LEMMA IoStepType ==
  ASSUME TypeOK, IoStep, UNCHANGED <<program, io_loop>>
  PROVE  TypeOK'
<1>0. /\ ChannelOK /\ StreamOK /\ PeerOK /\ LoopOK /\ ServerOK /\ UserOK /\ ConnOK
      /\ todo \in Seq(Steps) /\ pending \in Seq(Tasks) /\ functors \in Seq(Tasks)
  BY TypeParts DEF LoopOK
<1>q. ASSUME UNCHANGED <<channel, stream, peer, serverv, delayed, userv, bounds>>
      PROVE  /\ ChannelOK' /\ StreamOK' /\ PeerOK' /\ ServerOK' /\ UserOK'
  BY <1>0, <1>q, ChannelSame, StreamSame, PeerSame, ServerSame, UserSame
<1>1. CASE Poll
  <2>1. PICK writable \in BOOLEAN : revents_' = Reports(writable)
    BY <1>1 DEF Poll
  <2>2. revents_' \subseteq {"HUP", "ERR", "IN", "OUT"}
    BY <2>1 DEF Reports
  <2>3. LoopOK'
    BY <1>0, <1>1, <2>2 DEF Poll, LoopOK
  <2> QED
    BY <1>0, <1>1, <1>q, <2>3, ConnSame, TypeParts DEF Poll
<1>2. CASE HandleEvent
  <2>1. LoopOK'
    BY <1>0, <1>2, EventStepsType DEF HandleEvent, LoopOK
  <2>2. ConnOK'
    BY <1>0, <1>2 DEF HandleEvent, ConnOK
  <2> QED
    BY <1>2, <1>q, <2>1, <2>2, TypeParts DEF HandleEvent
<1>3. CASE HandlerStep
  BY <1>3, HandlerType
<1>4. CASE SwapPending
  <2>1. {pending[i] : i \in DOMAIN pending} \subseteq Tasks
    BY <1>0, ElementOfSeq, LenProperties
  <2>2. LoopOK'
    BY <1>0, <1>4, <2>1, EmptySeq DEF SwapPending, LoopOK
  <2> QED
    BY <1>0, <1>4, <1>q, <2>2, ConnSame, TypeParts DEF SwapPending
<1>5. CASE RunFunctor
  <2>1. /\ functors # <<>> /\ functors' = Tail(functors)
        /\ Head(functors) \in Tasks /\ Tail(functors) \in Seq(Tasks)
        /\ UNCHANGED <<peer, phase, revents_, batch, serverv, delayed, user_call,
                       bounds>>
    BY <1>0, <1>5, HeadTailProperties DEF RunFunctor
  <2>2. /\ ChannelOK' /\ StreamOK' /\ ConnOK'
        /\ todo' \in Seq(Steps) /\ pending' \in Seq(Tasks)
        /\ user_ref' \in [Users -> BOOLEAN]
    <3>1. CASE RunTask(Head(functors))
      BY <2>1, <3>1, RunTaskType
    <3>2. CASE /\ fault' = "use_after_free"
               /\ UNCHANGED <<state_, reading_, channel, stream, pending, todo,
                              user_ref>>
      BY <1>0, <3>2, ChannelSame, StreamSame DEF ConnOK, UserOK
    <3> QED
      BY <1>5, <3>1, <3>2 DEF RunFunctor
  <2>3. LoopOK'
    BY <1>0, <2>1, <2>2 DEF LoopOK
  <2>4. UserOK'
    BY <1>0, <2>1, <2>2 DEF UserOK, bounds
  <2> QED
    BY <1>0, <2>1, <2>2, <2>3, <2>4, PeerSame, ServerSame, TypeParts
<1>6. CASE PendingDone
  <2>1. LoopOK'
    BY <1>0, <1>6 DEF PendingDone, LoopOK
  <2> QED
    BY <1>0, <1>6, <1>q, <2>1, ConnSame, TypeParts DEF PendingDone
<1> QED
  BY <1>1, <1>2, <1>3, <1>4, <1>5, <1>6 DEF IoStep

\* A bound of the program's calls.
LEMMA CallCounted ==
  ASSUME UserOK, program \in Programs, calls < program.calls, calls' = calls + 1,
         program' = program, UNCHANGED <<user_ref, arrivals>>,
         user_call' \in [Users -> UserCalls]
  PROVE  UserOK'
<1>1. program.calls \in Nat
  BY ProgramsAssumption
<1>2. calls \in 0..program.calls
  BY DEF UserOK
<1>3. calls' \in 0..program'.calls
  BY <1>1, <1>2
<1> QED
  BY <1>3 DEF UserOK

\* Calls on the loop thread keep the types.
LEMMA LoopCallType ==
  ASSUME TypeOK, NEW op \in Ops, LoopCall(op), UNCHANGED <<program, io_loop>>
  PROVE  TypeOK'
<1>0. /\ ChannelOK /\ StreamOK /\ PeerOK /\ LoopOK /\ ServerOK /\ UserOK /\ ConnOK
      /\ todo \in Seq(Steps) /\ pending \in Seq(Tasks)
  BY TypeParts DEF LoopOK
<1>1. /\ calls < program.calls /\ calls' = calls + 1
      /\ UNCHANGED <<peer, loop, todo, serverv, userv, arrivals>>
  BY DEF LoopCall
<1>2. UserOK'
  BY <1>0, <1>1, CallCounted DEF UserOK, ServerOK, userv
<1>3. ASSUME delayed' \in BOOLEAN PROVE ServerOK'
  BY <1>0, <1>1, <1>3 DEF ServerOK, serverv
<1>4. ASSUME pending' \in Seq(Tasks) PROVE LoopOK'
  BY <1>0, <1>1, <1>4, LoopSame
<1>5. delayed \in BOOLEAN
  BY <1>0 DEF ServerOK
<1>q. ASSUME ChannelOK', StreamOK', ConnOK', pending' \in Seq(Tasks),
             delayed' \in BOOLEAN
      PROVE  TypeOK'
  BY <1>0, <1>1, <1>2, <1>3, <1>4, <1>q, PeerSame, TypeParts
<1>6. CASE op = "Send"
  <2>1. SendInLoop /\ UNCHANGED <<state_, reading_, delayed>>
    BY <1>6 DEF LoopCall
  <2>2. ChannelOK' /\ StreamOK' /\ ConnOK' /\ pending' \in Seq(Tasks)
    BY <1>0, <2>1, SendType DEF ConnOK
  <2> QED
    BY <1>5, <1>q, <2>1, <2>2
<1>7. CASE op = "Shutdown"
  <2>1. /\ state_' = "kDisconnecting" /\ write_shut' \in {write_shut, TRUE}
        /\ UNCHANGED <<reading_, channel, output_buffer_, wire, sent,
                       late_write, pending, delayed, fault>>
    BY <1>7 DEF LoopCall, ShutdownInLoop
  <2>2. StreamOK' /\ ConnOK'
    BY <1>0, <2>1 DEF StreamOK, ConnOK, States
  <2> QED
    BY <1>0, <1>5, <1>q, <2>1, <2>2, ChannelSame
<1>8. CASE op \in {"ForceClose", "ForceCloseWithDelay"}
  <2>1. /\ state_' = "kDisconnecting"
        /\ UNCHANGED <<reading_, channel, stream, fault>>
        /\ pending' \in {pending, Append(pending, "ForceCloseInLoop")}
        /\ delayed' \in {delayed, TRUE}
    BY <1>8 DEF LoopCall, ForceCloseBody
  <2>2. "ForceCloseInLoop" \in Tasks
    BY DEF Tasks, SharedTasks
  <2>3. pending' \in Seq(Tasks) /\ ConnOK'
    BY <1>0, <2>1, <2>2, AppendProperties DEF ConnOK, States
  <2> QED
    BY <1>0, <1>5, <1>q, <2>1, <2>3, ChannelSame, StreamSame
<1>9. CASE op \in {"StartRead", "StopRead"}
  <2>1. /\ \/ \E ev \in SUBSET {"R", "W"} :
                /\ UpdateChannel(ev) /\ Assert(UpdateAsserts)
                /\ reading_' \in BOOLEAN
           \/ UNCHANGED <<channel, reading_, fault>>
        /\ UNCHANGED <<state_, stream, pending, delayed>>
    BY <1>0, <1>9 DEF LoopCall, StartReadInLoop, StopReadInLoop, ChannelOK
  <2>2. ChannelOK' /\ ConnOK'
    BY <1>0, <2>1, UpdateType, ChannelSame DEF ConnOK, Assert
  <2> QED
    BY <1>0, <1>5, <1>q, <2>1, <2>2, StreamSame
<1> QED
  BY <1>6, <1>7, <1>8, <1>9 DEF Ops

\* Calls of user threads keep the types.
LEMMA UserStepType ==
  ASSUME TypeOK, NEW u \in Users, UserStep(u), UNCHANGED <<program, io_loop>>
  PROVE  TypeOK'
<1>0. /\ ChannelOK /\ StreamOK /\ PeerOK /\ LoopOK /\ ServerOK /\ UserOK /\ ConnOK
      /\ todo \in Seq(Steps) /\ pending \in Seq(Tasks) /\ program \in Programs
      /\ user_call \in [Users -> UserCalls]
  BY TypeParts DEF LoopOK, ServerOK, UserOK
<1>q. ASSUME UNCHANGED <<channel, stream, peer, loop, todo>>,
             pending' \in Seq(Tasks)
      PROVE  ChannelOK' /\ StreamOK' /\ PeerOK' /\ LoopOK'
  BY <1>0, <1>q, ChannelSame, StreamSame, PeerSame, LoopSame
<1>1. ASSUME NEW op \in program.cross_ops, UserTests(u, op) PROVE TypeOK'
  <2>1. op \in Ops
    BY <1>0, ProgramsAssumption
  <2>2. user_call' \in [Users -> UserCalls]
    BY <1>0, <1>1, <2>1 DEF UserTests, UserCalls
  <2>3. UserOK'
    BY <1>0, <1>1, <2>2, CallCounted DEF UserTests
  <2>4. pending' \in Seq(Tasks)
    BY <1>0, <1>1 DEF UserTests
  <2> QED
    BY <1>0, <1>1, <1>q, <2>3, <2>4, ServerSame, ConnSame, TypeParts
       DEF UserTests
<1>2. CASE UserSetsState(u)
  <2>1. user_call' \in [Users -> UserCalls]
    <3>1. user_call[u].op \in Ops /\ user_call[u] \in [op : Ops, at : {"checked", "set"}]
      BY <1>0, <1>2 DEF UserSetsState, UserCalls, NoCall
    <3>2. [user_call[u] EXCEPT !.at = "set"] \in UserCalls
      BY <3>1 DEF UserCalls
    <3> QED
      BY <1>0, <1>2, <3>2 DEF UserSetsState
  <2>2. UserOK'
    BY <1>0, <1>2, <2>1 DEF UserSetsState, UserOK, bounds
  <2>3. ConnOK' /\ pending' \in Seq(Tasks)
    BY <1>0, <1>2 DEF UserSetsState, ConnOK, States
  <2> QED
    BY <1>0, <1>2, <1>q, <2>2, <2>3, ServerSame, TypeParts DEF UserSetsState
<1>3. CASE UserQueues(u)
  <2>1. user_call' \in [Users -> UserCalls]
    BY <1>0, <1>3 DEF UserQueues, UserCalls
  <2>2. UserOK'
    BY <1>0, <1>3, <2>1 DEF UserQueues, UserOK, bounds
  <2>3. pending' \in Seq(Tasks) /\ delayed' \in BOOLEAN
    <3>1. CASE user_call[u].op = "ForceCloseWithDelay"
      BY <1>0, <1>3, <3>1 DEF UserQueues
    <3>2. CASE user_call[u].op # "ForceCloseWithDelay"
      <4>1. user_call[u].op \in Ops \ {"ForceCloseWithDelay"}
        BY <1>0, <1>3, <3>2 DEF UserQueues, UserCalls, NoCall, Ops
      <4>2. TaskOf[user_call[u].op] \in Tasks
        BY <4>1 DEF TaskOf, Ops, Tasks, SharedTasks, RawTasks
      <4> QED
        BY <1>0, <1>3, <3>2, <4>2, AppendProperties DEF UserQueues, ServerOK
    <3> QED
      BY <3>1, <3>2
  <2>4. ServerOK' /\ ConnOK'
    BY <1>0, <1>3, <2>3, ConnSame DEF UserQueues, ServerOK, serverv
  <2> QED
    BY <1>3, <1>q, <2>2, <2>3, <2>4, TypeParts DEF UserQueues
<1>4. CASE UserDropsRef(u)
  <2>1. UserOK'
    BY <1>0, <1>4 DEF UserDropsRef, UserOK, bounds
  <2>2. pending' \in Seq(Tasks)
    BY <1>0, <1>4 DEF UserDropsRef
  <2> QED
    BY <1>0, <1>4, <1>q, <2>1, <2>2, ServerSame, ConnSame, TypeParts
       DEF UserDropsRef
<1> QED
  BY <1>1, <1>2, <1>3, <1>4 DEF UserStep

\* The server, the timer and the peer keep the types.
LEMMA OtherStepType ==
  ASSUME TypeOK, UNCHANGED <<program, io_loop>>,
         \/ DelayExpires \/ NewConnection \/ RemoveConnectionInLoop
         \/ DestroyServer \/ PeerSends \/ PeerCloses \/ PeerAborts
  PROVE  TypeOK'
<1>0. /\ ChannelOK /\ StreamOK /\ PeerOK /\ LoopOK /\ ServerOK /\ UserOK /\ ConnOK
      /\ todo \in Seq(Steps) /\ pending \in Seq(Tasks) /\ program \in Programs
      /\ base_pending \in Seq({"RemoveConnectionInLoop"})
  BY TypeParts DEF LoopOK, ServerOK
<1>T. {"ForceCloseInLoop", "ConnectEstablished", "ConnectDestroyed"} \subseteq Tasks
  BY DEF Tasks, SharedTasks
<1>a. ASSUME NEW t \in Tasks PROVE Append(pending, t) \in Seq(Tasks)
  BY <1>0, AppendProperties
<1>1. CASE DelayExpires
  <2>1. pending' \in Seq(Tasks) /\ ConnOK' /\ delayed' \in BOOLEAN
    BY <1>0, <1>1, <1>T, <1>a DEF DelayExpires, ForceCloseBody, ConnOK, States
  <2>2. ServerOK'
    BY <1>0, <1>1, <2>1 DEF DelayExpires, ServerOK, serverv
  <2> QED
    BY <1>0, <1>1, <2>1, <2>2, ChannelSame, StreamSame, PeerSame, LoopSame,
       UserSame, TypeParts DEF DelayExpires
<1>2. ASSUME NEW t \in {"ConnectEstablished", "ConnectDestroyed"}, RunTask(t),
             UNCHANGED <<peer, loop, user_call, bounds>>
      PROVE  /\ ChannelOK' /\ StreamOK' /\ PeerOK' /\ LoopOK' /\ UserOK' /\ ConnOK'
  <2>1. /\ ChannelOK' /\ StreamOK' /\ ConnOK'
        /\ todo' \in Seq(Steps) /\ pending' \in Seq(Tasks)
        /\ user_ref' \in [Users -> BOOLEAN]
    BY <1>2, <1>T, RunTaskType
  <2>2. UserOK'
    BY <1>0, <1>2, <2>1 DEF UserOK, bounds
  <2> QED
    BY <1>0, <1>2, <2>1, <2>2, PeerSame, LoopSame
<1>3. ASSUME pending' \in Seq(Tasks), UNCHANGED <<channel, stream, peer, loop, todo,
               userv, bounds>>
      PROVE  /\ ChannelOK' /\ StreamOK' /\ PeerOK' /\ LoopOK' /\ UserOK'
  BY <1>0, <1>3, ChannelSame, StreamSame, PeerSame, LoopSame, UserSame
<1>4. CASE NewConnection
  <2>1. ServerOK'
    BY <1>0, <1>4 DEF NewConnection, ServerOK
  <2>2. CASE IoIsBase
    BY <1>4, <1>2, <2>1, <2>2, TypeParts DEF NewConnection
  <2>3. CASE ~IoIsBase
    <3>1. pending' \in Seq(Tasks) /\ UNCHANGED <<userv>>
      BY <1>4, <1>T, <1>a, <2>3 DEF NewConnection, userv
    <3> QED
      BY <1>0, <1>3, <1>4, <2>1, <2>3, <3>1, ConnSame, TypeParts
         DEF NewConnection
  <2> QED
    BY <2>2, <2>3
<1>5. CASE RemoveConnectionInLoop
  <2>1. pending' \in Seq(Tasks)
        /\ base_pending' \in Seq({"RemoveConnectionInLoop"})
    BY <1>0, <1>5, <1>T, <1>a, HeadTailProperties DEF RemoveConnectionInLoop
  <2>2. ServerOK' /\ ConnOK'
    BY <1>0, <1>5, <2>1 DEF RemoveConnectionInLoop, ServerOK, ConnOK
  <2> QED
    BY <1>3, <1>5, <2>1, <2>2, TypeParts DEF RemoveConnectionInLoop
<1>6. CASE DestroyServer
  <2>1. ServerOK'
    BY <1>0, <1>6 DEF DestroyServer, ServerOK
  <2>2. CASE connections_ /\ IoIsBase
    BY <1>2, <1>6, <2>1, <2>2, TypeParts DEF DestroyServer
  <2>3. CASE ~(connections_ /\ IoIsBase)
    <3>1. /\ pending' \in Seq(Tasks) /\ UNCHANGED userv
          /\ UNCHANGED <<state_, reading_, channel, stream, todo, fault>>
      BY <1>0, <1>6, <1>T, <1>a, <2>3 DEF DestroyServer, userv
    <3> QED
      BY <1>0, <1>3, <1>6, <2>1, <3>1, ConnSame, TypeParts DEF DestroyServer
  <2> QED
    BY <2>2, <2>3
<1>7. CASE PeerSends \/ PeerCloses \/ PeerAborts
  <2>1. PeerOK'
    <3>1. CASE PeerSends
      BY <1>0, <3>1 DEF PeerSends, PeerOK
    <3>2. CASE PeerCloses
      BY <1>0, <3>2 DEF PeerCloses, PeerOK
    <3>3. CASE PeerAborts
      BY <1>0, <3>3 DEF PeerAborts, PeerOK
    <3> QED
      BY <1>7, <3>1, <3>2, <3>3
  <2>2. UserOK'
    <3>1. arrivals' \in 0..MaxArrivals
      BY <1>0, <1>7, BoundsAssumption
         DEF PeerSends, PeerCloses, PeerAborts, UserOK, bounds
    <3>2. UNCHANGED <<userv, calls>>
      BY <1>7 DEF PeerSends, PeerCloses, PeerAborts, bounds
    <3> QED
      BY <1>0, <3>1, <3>2 DEF UserOK, userv
  <2> QED
    BY <1>0, <1>7, <2>1, <2>2, ChannelSame, StreamSame, LoopSame, ServerSame,
       ConnSame, TypeParts DEF PeerSends, PeerCloses, PeerAborts
<1> QED
  BY <1>1, <1>4, <1>5, <1>6, <1>7

LEMMA TypeStep == TypeOK /\ [Next]_vars => TypeOK'
<1> SUFFICES ASSUME TypeOK, [Next]_vars PROVE TypeOK'
  OBVIOUS
<1>1. CASE UNCHANGED vars
  <2>1. UNCHANGED <<program, io_loop, state_, reading_, channel, stream, peer,
                    loop, todo, pending, serverv, delayed, userv, bounds, fault>>
    BY <1>1 DEF vars
  <2>2. todo' \in Seq(Steps) /\ pending' \in Seq(Tasks)
    BY <2>1, TypeParts DEF LoopOK
  <2> QED
    BY <2>1, <2>2, ChannelSame, StreamSame, PeerSame, LoopSame, ServerSame,
       UserSame, ConnSame, TypeParts
<1>2. CASE Next
  <2>1. \A op \in program.loop_ops : op \in Ops
    BY ProgramsAssumption DEF TypeOK
  <2> QED
    BY <1>2, <2>1, IoStepType, LoopCallType, UserStepType, OtherStepType DEF Next
<1> QED
  BY <1>1, <1>2

\* The connection, its loops, the server and the user threads are always in a
\* well-typed state, for every program.
THEOREM TypeCorrect == Spec => []TypeOK
<1>1. Init => TypeOK
  <2> SUFFICES ASSUME Init PROVE TypeOK
    OBVIOUS
  <2>1. ChannelOK /\ PeerOK
    BY DEF Init, ChannelOK, PeerOK
  <2>2. StreamOK /\ LoopOK
    BY EmptySeq DEF Init, StreamOK, LoopOK
  <2>3. program.calls \in Nat
    BY ProgramsAssumption DEF Init
  <2>4. ServerOK
    BY EmptySeq DEF Init, ServerOK
  <2>6. UserOK
    BY <2>3, BoundsAssumption DEF Init, UserOK, UserCalls
  <2>5. ConnOK
    BY DEF Init, ConnOK, States
  <2> QED
    BY <2>1, <2>2, <2>4, <2>5, <2>6, TypeParts
<1> QED
  BY <1>1, TypeStep, PTL DEF Spec

-----------------------------------------------------------------------------
(* The registration.                                                       *)

\* What a step may do to the Channel: nothing, an Update(), or a Remove() that
\* passes or fails the asserts of RemoveChannel.
ChannelStep ==
  \/ UNCHANGED channel
  \/ \E ev \in SUBSET {"R", "W"} : UpdateChannel(ev)
  \/ RemoveChannel /\ Assert(RemoveAsserts)

LEMMA SendChannel == ASSUME ChannelOK, SendInLoop PROVE ChannelStep
<1>1. ASSUME EnableWriting PROVE ChannelStep
  BY <1>1 DEF EnableWriting, ChannelStep, ChannelOK
<1>2. ASSUME UNCHANGED channel PROVE ChannelStep
  BY <1>2 DEF ChannelStep
<1>3. SendInLoop => EnableWriting \/ UNCHANGED channel
  BY Zenon DEF SendInLoop
<1> QED
  BY <1>1, <1>2, <1>3

LEMMA ReadingChannel ==
  ASSUME ChannelOK, StartReadInLoop \/ StopReadInLoop PROVE ChannelStep
BY DEF StartReadInLoop, StopReadInLoop, ChannelStep, ChannelOK

LEMMA RunTaskChannel ==
  ASSUME ChannelOK, NEW t \in Tasks, RunTask(t) PROVE ChannelStep
<1>1. CASE t = "ConnectEstablished"
  BY <1>1 DEF RunTask, ChannelStep
<1>2. CASE t = "ForceCloseInLoop"
  BY <1>2 DEF RunTask, ForceCloseInLoop, HandleClose, ChannelStep
<1>3. CASE t = "SendInLoop"
  BY <1>3, SendChannel DEF RunTask
<1>4. CASE t \in {"StartReadInLoop", "StopReadInLoop"}
  BY <1>4, ReadingChannel DEF RunTask
<1>5. CASE t \in {"ConnectDestroyed", "WriteComplete", "HighWatermark",
                  "ShutdownInLoop"}
  BY <1>5 DEF RunTask, ChannelStep
<1> QED
  BY <1>1, <1>2, <1>3, <1>4, <1>5 DEF Tasks, SharedTasks, RawTasks

LEMMA NextChannel == ASSUME TypeOK, [Next]_vars PROVE ChannelStep
<1>0. /\ ChannelOK /\ "ConnectEstablished" \in Tasks /\ "ConnectDestroyed" \in Tasks
      /\ functors \in Seq(Tasks)
  BY TypeParts DEF Tasks, SharedTasks, LoopOK
<1>1. CASE StepClose \/ StepRead \/ StepDisable
  <2>1. UpdateChannel({}) \/ UNCHANGED channel
    BY <1>1 DEF StepClose, StepRead, StepDisable, HandleClose
  <2> QED
    BY <2>1 DEF ChannelStep
<1>2. CASE StepWrite
  <2>1. UpdateChannel(events_ \ {"W"}) \/ UNCHANGED channel
    BY <1>2, Zenon DEF StepWrite
  <2> QED
    BY <1>0, <2>1 DEF ChannelStep, ChannelOK
<1>3. CASE StepRemove
  BY <1>3 DEF StepRemove, ChannelStep
<1>4. CASE RunFunctor
  <2>1. Head(functors) \in Tasks
    BY <1>0, <1>4, HeadTailProperties DEF RunFunctor
  <2>2. RunTask(Head(functors)) \/ UNCHANGED channel
    BY <1>4 DEF RunFunctor
  <2> QED
    BY <1>0, <2>1, <2>2, RunTaskChannel DEF ChannelStep
<1>5. CASE NewConnection \/ DestroyServer
  <2>1. \/ RunTask("ConnectEstablished") \/ RunTask("ConnectDestroyed")
        \/ UNCHANGED channel
    BY <1>5 DEF NewConnection, DestroyServer
  <2> QED
    BY <1>0, <2>1, RunTaskChannel DEF ChannelStep
<1>6. ASSUME NEW op \in program.loop_ops, LoopCall(op) PROVE ChannelStep
  <2>1. \/ SendInLoop \/ StartReadInLoop \/ StopReadInLoop \/ UNCHANGED channel
    BY <1>6 DEF LoopCall
  <2> QED
    BY <1>0, <2>1, SendChannel, ReadingChannel DEF ChannelStep
<1>7. CASE \/ Poll \/ HandleEvent \/ StepError \/ StepCallback
           \/ StepCloseCallback \/ SwapPending \/ PendingDone \/ DelayExpires
           \/ RemoveConnectionInLoop \/ PeerSends \/ PeerCloses \/ PeerAborts
  BY <1>7 DEF Poll, HandleEvent, StepError, StepCallback, StepCloseCallback,
              SwapPending, PendingDone, DelayExpires, RemoveConnectionInLoop,
              PeerSends, PeerCloses, PeerAborts, ChannelStep
<1>8. ASSUME NEW u \in Users, UserStep(u) PROVE ChannelStep
  BY <1>8 DEF UserStep, UserTests, UserSetsState, UserQueues, UserDropsRef,
              ChannelStep
<1>9. CASE UNCHANGED vars
  BY <1>9 DEF vars, ChannelStep
<1> QED
  BY <1>1, <1>2, <1>3, <1>4, <1>5, <1>6, <1>7, <1>8, <1>9
     DEF Next, IoStep, HandlerStep

\* Channel, EpollPoller and the kernel agree on the registration of the socket
\* in every state before a failed assert, whatever the program does and from
\* whichever threads it does it.
THEOREM RegistrationHolds == Spec => []RegistrationInv
<1>1. Init => RegistrationInv
  BY DEF Init, RegistrationInv
<1>2. TypeOK /\ RegistrationInv /\ [Next]_vars => RegistrationInv'
  <2> SUFFICES ASSUME TypeOK, RegistrationInv, [Next]_vars PROVE RegistrationInv'
    OBVIOUS
  <2>0. ChannelOK /\ (fault = "none" \/ UNCHANGED vars)
    BY TypeParts DEF Next
  <2>1. CASE UNCHANGED vars
    BY <2>1 DEF vars, channel, RegistrationInv
  <2>2. CASE fault = "none"
    <3>1. CASE UNCHANGED channel
      BY <2>2, <3>1 DEF channel, RegistrationInv
    <3>2. ASSUME NEW ev \in SUBSET {"R", "W"}, UpdateChannel(ev)
          PROVE  RegistrationInv'
      BY <2>0, <2>2, <3>2 DEF UpdateChannel, RegistrationInv, ChannelOK
    <3>3. CASE RemoveChannel /\ Assert(RemoveAsserts)
      BY <2>0, <2>2, <3>3
         DEF RemoveChannel, Assert, RemoveAsserts, RegistrationInv, ChannelOK
    <3> QED
      BY <3>1, <3>2, <3>3, NextChannel DEF ChannelStep
  <2> QED
    BY <2>0, <2>1, <2>2
<1> QED
  BY <1>1, <1>2, TypeCorrect, PTL DEF Spec

-----------------------------------------------------------------------------
(* The byte stream.                                                        *)

\* StreamInOrder, chunk by chunk: w is on the wire, o is buffered, n were sent.
InOrder(w, o, n) ==
  /\ Len(w) + Len(o) = n
  /\ \A i \in 1..Len(w) : w[i] = i
  /\ \A i \in 1..Len(o) : o[i] = Len(w) + i

LEMMA StreamPoints ==
  ASSUME NEW w \in Seq(Nat), NEW o \in Seq(Nat), NEW n \in Nat
  PROVE  w \o o = [i \in 1..n |-> i] <=> InOrder(w, o, n)
<1> DEFINE s == [i \in 1..n |-> i]
<1>1. s \in Seq(Nat) /\ Len(s) = n /\ \A i \in 1..n : s[i] = i
  OBVIOUS
<1>2. /\ w \o o \in Seq(Nat) /\ Len(w \o o) = Len(w) + Len(o)
      /\ \A i \in 1..(Len(w) + Len(o)) :
           (w \o o)[i] = IF i <= Len(w) THEN w[i] ELSE o[i - Len(w)]
  BY ConcatProperties
<1>3. Len(w) \in Nat /\ Len(o) \in Nat
  BY LenProperties
<1> HIDE DEF s
<1>4. ASSUME w \o o = s PROVE InOrder(w, o, n)
  <2>1. Len(w) + Len(o) = n
    BY <1>1, <1>2, <1>4
  <2>2. ASSUME NEW i \in 1..Len(w) PROVE w[i] = i
    BY <1>1, <1>2, <1>3, <1>4, <2>1
  <2>3. ASSUME NEW i \in 1..Len(o) PROVE o[i] = Len(w) + i
    <3>1. Len(w) + i \in 1..n /\ ~(Len(w) + i <= Len(w))
          /\ (Len(w) + i) - Len(w) = i
      BY <1>3, <2>1
    <3>2. (w \o o)[Len(w) + i] = o[i]
      BY <1>2, <2>1, <3>1
    <3> QED
      BY <1>1, <1>4, <3>1, <3>2
  <2> QED
    BY <2>1, <2>2, <2>3 DEF InOrder
<1>5. ASSUME InOrder(w, o, n) PROVE w \o o = s
  <2>1. Len(w) + Len(o) = n
    BY <1>5 DEF InOrder
  <2>2. ASSUME NEW i \in 1..n PROVE (w \o o)[i] = s[i]
    <3>1. CASE i <= Len(w)
      BY <1>1, <1>2, <1>3, <1>5, <2>1, <3>1 DEF InOrder
    <3>2. CASE ~(i <= Len(w))
      <4>1. i - Len(w) \in 1..Len(o) /\ Len(w) + (i - Len(w)) = i
        BY <1>3, <2>1, <3>2
      <4>2. o[i - Len(w)] = i
        BY <1>5, <4>1 DEF InOrder
      <4> QED
        BY <1>1, <1>2, <2>1, <3>2, <4>2
    <3> QED
      BY <3>1, <3>2
  <2> QED
    BY <1>1, <1>2, <2>1, <2>2, SeqEqual
<1> QED
  BY <1>4, <1>5 DEF s

\* A message of which the kernel takes n chunks directly, the rest buffered.
LEMMA SentInOrder ==
  ASSUME sent \in Nat, wire \in Seq(Nat), output_buffer_ \in Seq(Nat),
         InOrder(wire, output_buffer_, sent), NEW n \in 0..2,
         n = 0 \/ Len(output_buffer_) = 0
  PROVE  InOrder(wire \o SubSeq(NextMessage, 1, n),
                 output_buffer_ \o SubSeq(NextMessage, n + 1, 2), sent + 2)
<1> DEFINE a == SubSeq(NextMessage, 1, n)
           b == SubSeq(NextMessage, n + 1, 2)
<1>1. /\ a \in Seq(Nat) /\ b \in Seq(Nat) /\ Len(a) = n /\ Len(b) = 2 - n
      /\ \A i \in 1..n : a[i] = sent + i
      /\ \A i \in 1..(2 - n) : b[i] = sent + n + i
  BY MessageParts
<1>2. Len(wire) \in Nat /\ Len(output_buffer_) \in Nat
  BY LenProperties
<1> HIDE DEF a, b
<1>4. /\ Len(wire \o a) = Len(wire) + n
      /\ \A i \in 1..(Len(wire) + n) :
           (wire \o a)[i] = IF i <= Len(wire) THEN wire[i] ELSE a[i - Len(wire)]
  BY <1>1, ConcatProperties
<1>5. /\ Len(output_buffer_ \o b) = Len(output_buffer_) + Len(b)
      /\ \A i \in 1..(Len(output_buffer_) + Len(b)) :
           (output_buffer_ \o b)[i] =
             IF i <= Len(output_buffer_) THEN output_buffer_[i]
                                         ELSE b[i - Len(output_buffer_)]
  BY <1>1, ConcatProperties
<1>a. Len(wire) + Len(output_buffer_) = sent
  BY DEF InOrder
<1>6. /\ Len(wire) + Len(output_buffer_) = sent
      /\ \A i \in 1..Len(wire) : wire[i] = i
      /\ \A i \in 1..Len(output_buffer_) : output_buffer_[i] = Len(wire) + i
  BY DEF InOrder
<1>7. ASSUME NEW i \in 1..(Len(wire) + n) PROVE (wire \o a)[i] = i
  <2>1. CASE i <= Len(wire)
    BY <1>2, <1>4, <1>6, <2>1
  <2>2. CASE ~(i <= Len(wire))
    <3>1. i - Len(wire) \in 1..n /\ Len(wire) = sent
      BY <1>2, <1>6, <2>2
    <3>2. a[i - Len(wire)] = i
      BY <1>1, <1>2, <3>1
    <3> QED
      BY <1>4, <2>2, <3>2
  <2> QED
    BY <2>1, <2>2
<1>8. ASSUME NEW i \in 1..(Len(output_buffer_) + Len(b))
      PROVE  (output_buffer_ \o b)[i] = Len(wire) + n + i
  <2>1. CASE i <= Len(output_buffer_)
    <3>1. n = 0 /\ i \in 1..Len(output_buffer_)
      BY <1>2, <2>1
    <3>2. (output_buffer_ \o b)[i] = output_buffer_[i]
      BY <1>5, <2>1
    <3>3. output_buffer_[i] = Len(wire) + i /\ Len(wire) + n + i = Len(wire) + i
      BY <1>2, <1>6, <3>1
    <3> QED
      BY <3>2, <3>3
  <2>2. CASE ~(i <= Len(output_buffer_))
    <3>1. i - Len(output_buffer_) \in 1..(2 - n)
      BY <1>1, <1>2, <2>2
    <3>2. b[i - Len(output_buffer_)] = sent + n + (i - Len(output_buffer_))
      BY <1>1, <3>1
    <3>3. sent + n + (i - Len(output_buffer_)) = Len(wire) + n + i
      BY <1>a, <1>2
    <3> QED
      BY <1>5, <2>2, <3>2, <3>3
  <2> QED
    BY <2>1, <2>2
<1>b. Len(b) = 2 - n
  BY <1>1
<1>9. (Len(wire) + n) + (Len(output_buffer_) + Len(b)) = sent + 2
  BY <1>a, <1>b, <1>2
<1>10. InOrder(wire \o a, output_buffer_ \o b, sent + 2)
  BY <1>4, <1>5, <1>7, <1>8, <1>9 DEF InOrder
<1> QED
  BY <1>10 DEF a, b

\* HandleWrite moves the first n buffered chunks to the wire.
LEMMA WrittenInOrder ==
  ASSUME NEW w \in Seq(Nat), NEW o \in Seq(Nat), NEW m \in Nat,
         InOrder(w, o, m), NEW n \in 1..Len(o)
  PROVE  InOrder(w \o SubSeq(o, 1, n), SubSeq(o, n + 1, Len(o)), m)
<1> DEFINE a == SubSeq(o, 1, n)
           b == SubSeq(o, n + 1, Len(o))
<1>1. Len(w) \in Nat /\ Len(o) \in Nat /\ \A i \in 1..Len(o) : o[i] \in Nat
  BY LenProperties, ElementOfSeq
<1>2. a \in Seq(Nat) /\ Len(a) = n /\ \A i \in 1..n : a[i] = o[i]
  BY <1>1, SubSeqProperties
<1>3. Len(b) = Len(o) - n /\ \A i \in 1..(Len(o) - n) : b[i] = o[n + i]
  BY <1>1, SubSeqProperties
<1> HIDE DEF a, b
<1>4. /\ Len(w \o a) = Len(w) + n
      /\ \A i \in 1..(Len(w) + n) :
           (w \o a)[i] = IF i <= Len(w) THEN w[i] ELSE a[i - Len(w)]
  BY <1>2, ConcatProperties
<1>5. Len(w) + Len(o) = m
  BY DEF InOrder
<1>6. /\ \A i \in 1..Len(w) : w[i] = i
      /\ \A i \in 1..Len(o) : o[i] = Len(w) + i
  BY DEF InOrder
<1>7. ASSUME NEW i \in 1..(Len(w) + n) PROVE (w \o a)[i] = i
  <2>1. CASE i <= Len(w)
    BY <1>1, <1>4, <1>6, <2>1
  <2>2. CASE ~(i <= Len(w))
    <3>1. i - Len(w) \in 1..n /\ i - Len(w) \in 1..Len(o)
          /\ Len(w) + (i - Len(w)) = i
      BY <1>1, <2>2
    <3>2. a[i - Len(w)] = i
      BY <1>2, <1>6, <3>1
    <3> QED
      BY <1>4, <2>2, <3>2
  <2> QED
    BY <2>1, <2>2
<1>8. ASSUME NEW i \in 1..(Len(o) - n) PROVE b[i] = (Len(w) + n) + i
  <2>1. n + i \in 1..Len(o) /\ Len(w) + (n + i) = (Len(w) + n) + i
    BY <1>1
  <2> QED
    BY <1>3, <1>6, <2>1
<1>9. (Len(w) + n) + (Len(o) - n) = m
  BY <1>1, <1>5
<1>10. InOrder(w \o a, b, m)
  BY <1>3, <1>4, <1>7, <1>8, <1>9 DEF InOrder
<1> QED
  BY <1>10 DEF a, b

\* What a step may do to the chunks: nothing, SendInLoop's write and append, or
\* HandleWrite's write.
StreamStep ==
  \/ UNCHANGED <<wire, output_buffer_, sent>>
  \/ \E n \in 0..2 :
       /\ n = 0 \/ Len(output_buffer_) = 0
       /\ wire' = wire \o SubSeq(NextMessage, 1, n)
       /\ output_buffer_' = output_buffer_ \o SubSeq(NextMessage, n + 1, 2)
       /\ sent' = sent + 2
  \/ \E n \in 1..Len(output_buffer_) :
       /\ wire' = wire \o SubSeq(output_buffer_, 1, n)
       /\ output_buffer_' = SubSeq(output_buffer_, n + 1, Len(output_buffer_))
       /\ sent' = sent

LEMMA SendStream == ASSUME StreamOK, SendInLoop PROVE StreamStep
<1>1. ASSUME NEW n \in 0..2,
             IF MayWriteDirectly THEN ~WriteFails ELSE n = 0
      PROVE  n = 0 \/ Len(output_buffer_) = 0
  <2>1. output_buffer_ = <<>> => Len(output_buffer_) = 0
    OBVIOUS
  <2> QED
    BY <1>1, <2>1, Zenon DEF MayWriteDirectly
<1>2. \/ UNCHANGED <<wire, output_buffer_, sent>>
      \/ \E n \in 0..2 :
           /\ IF MayWriteDirectly THEN ~WriteFails ELSE n = 0
           /\ wire' = wire \o SubSeq(NextMessage, 1, n)
           /\ output_buffer_' = output_buffer_ \o SubSeq(NextMessage, n + 1, 2)
           /\ sent' = sent + 2
  <2>1. CASE state_ = "kDisconnected"
    BY <2>1 DEF SendInLoop, stream
  <2>2. CASE state_ # "kDisconnected"
    BY <2>2, Zenon DEF SendInLoop
  <2> QED
    BY <2>1, <2>2
<1> QED
  BY <1>1, <1>2, Zenon DEF StreamStep

LEMMA RunTaskStream ==
  ASSUME StreamOK, NEW t \in Tasks, RunTask(t) PROVE StreamStep
<1>1. CASE t = "SendInLoop"
  BY <1>1, SendStream DEF RunTask
<1>2. CASE t = "ShutdownInLoop"
  BY <1>2 DEF RunTask, StreamStep
<1>3. CASE t \in Tasks \ {"SendInLoop", "ShutdownInLoop"}
  <2>1. UNCHANGED stream
    BY <1>3 DEF RunTask
  <2> QED
    BY <2>1 DEF stream, StreamStep
<1> QED
  BY <1>1, <1>2, <1>3

LEMMA NextStream == ASSUME TypeOK, [Next]_vars PROVE StreamStep
<1>0. /\ StreamOK /\ "ConnectEstablished" \in Tasks /\ "ConnectDestroyed" \in Tasks
      /\ functors \in Seq(Tasks)
  BY TypeParts DEF Tasks, SharedTasks, LoopOK
<1>u. ASSUME UNCHANGED stream PROVE StreamStep
  BY <1>u DEF stream, StreamStep
<1>1. CASE StepWrite
  <2>1. \/ UNCHANGED <<wire, output_buffer_, sent>>
        \/ \E n \in 1..Len(output_buffer_) :
             /\ wire' = wire \o SubSeq(output_buffer_, 1, n)
             /\ output_buffer_' =
                  SubSeq(output_buffer_, n + 1, Len(output_buffer_))
             /\ sent' = sent
    BY <1>1, Zenon DEF StepWrite
  <2> QED
    BY <2>1, Zenon DEF StreamStep
<1>2. CASE RunFunctor
  <2>1. Head(functors) \in Tasks
    BY <1>0, <1>2, HeadTailProperties DEF RunFunctor
  <2>2. RunTask(Head(functors)) \/ UNCHANGED stream
    BY <1>2 DEF RunFunctor
  <2> QED
    BY <1>0, <1>u, <2>1, <2>2, RunTaskStream
<1>3. CASE NewConnection \/ DestroyServer
  <2>1. \/ RunTask("ConnectEstablished") \/ RunTask("ConnectDestroyed")
        \/ UNCHANGED stream
    BY <1>3 DEF NewConnection, DestroyServer
  <2> QED
    BY <1>0, <1>u, <2>1, RunTaskStream
<1>4. ASSUME NEW op \in program.loop_ops, LoopCall(op) PROVE StreamStep
  <2>1. \/ SendInLoop \/ UNCHANGED <<wire, output_buffer_, sent>>
        \/ UNCHANGED stream
    BY <1>4 DEF LoopCall
  <2> QED
    BY <1>0, <1>u, <2>1, SendStream DEF StreamStep
<1>5. CASE \/ Poll \/ HandleEvent \/ StepClose \/ StepError \/ StepRead
           \/ StepCallback \/ StepCloseCallback \/ StepDisable \/ StepRemove
           \/ SwapPending \/ PendingDone \/ DelayExpires
           \/ RemoveConnectionInLoop \/ PeerSends \/ PeerCloses \/ PeerAborts
  BY <1>5, <1>u DEF Poll, HandleEvent, StepClose, StepError, StepRead,
       StepCallback, StepCloseCallback, StepDisable, StepRemove, SwapPending,
       PendingDone, DelayExpires, RemoveConnectionInLoop, PeerSends, PeerCloses,
       PeerAborts
<1>6. ASSUME NEW u \in Users, UserStep(u) PROVE StreamStep
  BY <1>6, <1>u DEF UserStep, UserTests, UserSetsState, UserQueues, UserDropsRef
<1>7. CASE UNCHANGED vars
  BY <1>7, <1>u DEF vars
<1> QED
  BY <1>1, <1>2, <1>3, <1>4, <1>5, <1>6, <1>7 DEF Next, IoStep, HandlerStep

\* What the kernel has taken followed by what is buffered is what was sent, in
\* order and without gaps: for every program, with calls from any thread and
\* any split of the writes.
THEOREM StreamInOrderHolds == Spec => []StreamInOrder
<1>1. Init => StreamInOrder
  <2> SUFFICES ASSUME Init PROVE StreamInOrder
    OBVIOUS
  <2>1. wire = <<>> /\ output_buffer_ = <<>> /\ sent = 0
    BY DEF Init
  <2>2. InOrder(<<>>, <<>>, 0)
    BY DEF InOrder
  <2> QED
    BY <2>1, <2>2, StreamPoints, EmptySeq DEF StreamInOrder
<1>2. TypeOK /\ TypeOK' /\ StreamInOrder /\ [Next]_vars => StreamInOrder'
  <2> SUFFICES ASSUME TypeOK, TypeOK', StreamInOrder, [Next]_vars
               PROVE  StreamInOrder'
    OBVIOUS
  <2>1. /\ wire \in Seq(Nat) /\ output_buffer_ \in Seq(Nat) /\ sent \in Nat
        /\ wire' \in Seq(Nat) /\ output_buffer_' \in Seq(Nat) /\ sent' \in Nat
    BY TypeParts DEF StreamOK
  <2>2. InOrder(wire, output_buffer_, sent)
    BY <2>1, StreamPoints DEF StreamInOrder
  <2>3. InOrder(wire', output_buffer_', sent')
    <3>1. CASE UNCHANGED <<wire, output_buffer_, sent>>
      BY <2>2, <3>1
    <3>2. ASSUME NEW n \in 0..2, n = 0 \/ Len(output_buffer_) = 0,
                 wire' = wire \o SubSeq(NextMessage, 1, n),
                 output_buffer_' = output_buffer_ \o SubSeq(NextMessage, n + 1, 2),
                 sent' = sent + 2
          PROVE  InOrder(wire', output_buffer_', sent')
      BY <2>1, <2>2, <3>2, SentInOrder, Zenon
    <3>3. ASSUME NEW n \in 1..Len(output_buffer_),
                 wire' = wire \o SubSeq(output_buffer_, 1, n),
                 output_buffer_' =
                   SubSeq(output_buffer_, n + 1, Len(output_buffer_)),
                 sent' = sent
          PROVE  InOrder(wire', output_buffer_', sent')
      BY <2>1, <2>2, <3>3, WrittenInOrder, Zenon
    <3> QED
      BY <3>1, <3>2, <3>3, NextStream, Zenon DEF StreamStep
  <2> QED
    BY <2>1, <2>3, StreamPoints DEF StreamInOrder
<1> QED
  BY <1>1, <1>2, TypeCorrect, PTL DEF Spec

-----------------------------------------------------------------------------
(* The life of a connection that its program uses on the I/O loop only.     *)

\* No element of q, or at most one, is in S.
None(q, S) == \A i \in 1..Len(q) : q[i] \notin S
AtMostOne(q, S) ==
  \A i \in 1..Len(q), j \in 1..Len(q) : q[i] \in S /\ q[j] \in S => i = j

\* The same of the functors of the I/O loop, swapped or not.
NoneQueued(S) == None(functors, S) /\ None(pending, S)
OneQueued(S) ==
  /\ AtMostOne(functors, S) /\ AtMostOne(pending, S)
  /\ None(functors, S) \/ None(pending, S)

\* The functors that begin and end the life of the connection.
LifeTasks == {"ConnectEstablished", "ConnectDestroyed"}

\* No other thread has the connection, and the server stays.
Alone ==
  /\ \A u \in Users : user_call[u] = NoCall /\ ~user_ref[u]
  /\ server # "dead"

\* The I/O loop: the batch is run between Polls, events wait only for an open
\* connection, and every functor holds a reference.
QueueInv ==
  /\ phase # "run" => functors = <<>>
  /\ phase = "poll" => todo = <<>>
  /\ \A i \in 1..Len(functors) : functors[i] \in batch
  /\ NoneQueued(RawTasks) /\ OneQueued(LifeTasks)
  /\ revents_ # {} => phase = "handle" /\ todo = <<>> /\ state_ \in Open

\* What is left of a handler: HandleClose is reached once, and only while the
\* connection is open.
TodoInv ==
  /\ None(todo, {"disable"})
  /\ AtMostOne(todo, {"close", "read"}) /\ AtMostOne(todo, {"close_callback"})
  /\ None(todo, {"close", "read"}) \/ state_ \in Open
  /\ None(todo, {"remove"}) \/ todo = <<"remove">>

\* Before ConnectEstablished.
ConnectingInv ==
  /\ state_ = "kConnecting" =>
       /\ todo = <<>> /\ base_pending = <<>> /\ index_ = "kNew"
       /\ NoneQueued(Tasks \ {"ConnectEstablished"})
       /\ server = "alive" => connections_
  /\ server = "idle" =>
       state_ = "kConnecting" /\ NoneQueued({"ConnectEstablished"})
  /\ \/ NoneQueued({"ConnectEstablished"})
     \/ state_ = "kConnecting" /\ server = "alive"

\* Up to HandleClose.
OpenInv ==
  state_ \in Open =>
    /\ connections_ /\ "R" \in events_ /\ base_pending = <<>>
    /\ NoneQueued({"ConnectDestroyed"})
    /\ None(todo, {"close_callback"}) /\ None(todo, {"remove"})

\* After it, the teardown is under way in one place: the rest of HandleClose,
\* the base loop, a functor of the I/O loop, or ConnectDestroyed itself; and
\* until its end the channel is with the poller.
ClosedInv ==
  state_ = "kDisconnected" =>
    /\ events_ = {} /\ index_ # "kAdded" /\ Len(base_pending) <= 1
    /\ ~None(todo, {"close_callback"}) =>
         /\ channels_ /\ base_pending = <<>> /\ None(todo, {"remove"})
         /\ NoneQueued({"ConnectDestroyed"})
    /\ base_pending # <<>> =>
         /\ channels_ /\ None(todo, {"remove"})
         /\ NoneQueued({"ConnectDestroyed"})
    /\ ~NoneQueued({"ConnectDestroyed"}) => channels_ /\ None(todo, {"remove"})
    /\ ~None(todo, {"remove"}) => channels_
    /\ channels_ =>
         \/ ~None(todo, {"close_callback"}) \/ ~None(todo, {"remove"})
         \/ base_pending # <<>> \/ ~NoneQueued({"ConnectDestroyed"})

\* The inductive invariant, of a Disciplined program.
ConnLife ==
  /\ fault = "none" /\ Alone /\ QueueInv /\ TodoInv
  /\ ConnectingInv /\ OpenInv /\ ClosedInv

\* The first element taken, an element appended, two sequences put together.
LEMMA NoneTail ==
  ASSUME NEW R, NEW q \in Seq(R), q # <<>>, NEW S
  PROVE  /\ None(q, S) <=> Head(q) \notin S /\ None(Tail(q), S)
         /\ AtMostOne(q, S) => AtMostOne(Tail(q), S)
         /\ AtMostOne(q, S) /\ Head(q) \in S => None(Tail(q), S)
<1>1. /\ Len(q) \in Nat \ {0} /\ Head(q) = q[1] /\ Len(Tail(q)) = Len(q) - 1
      /\ \A i \in 1..(Len(q) - 1) : Tail(q)[i] = q[i + 1]
  BY HeadTailProperties, LenProperties, EmptySeq
<1>2. ASSUME Head(q) \notin S, None(Tail(q), S), NEW i \in 1..Len(q)
      PROVE  q[i] \notin S
  <2>1. CASE i = 1
    BY <1>1, <1>2, <2>1
  <2>2. CASE i # 1
    <3>1. i - 1 \in 1..(Len(q) - 1) /\ (i - 1) + 1 = i
      BY <1>1, <2>2
    <3>2. Tail(q)[i - 1] \notin S
      BY <1>1, <1>2, <3>1 DEF None
    <3> QED
      BY <1>1, <3>1, <3>2
  <2> QED
    BY <2>1, <2>2
<1>3. ASSUME NEW i \in 1..Len(Tail(q))
      PROVE  i + 1 \in 1..Len(q) /\ i + 1 # 1 /\ Tail(q)[i] = q[i + 1]
  BY <1>1
<1>4. None(q, S) => Head(q) \notin S /\ None(Tail(q), S)
  BY <1>1, <1>3 DEF None
<1>5. ASSUME AtMostOne(q, S), NEW i \in 1..Len(Tail(q)), NEW j \in 1..Len(Tail(q)),
             Tail(q)[i] \in S, Tail(q)[j] \in S
      PROVE  i = j
  <2>1. i + 1 = j + 1
    BY <1>3, <1>5 DEF AtMostOne
  <2> QED
    BY <1>1, <2>1
<1>6. ASSUME AtMostOne(q, S), Head(q) \in S, NEW i \in 1..Len(Tail(q))
      PROVE  Tail(q)[i] \notin S
  <2>1. 1 \in 1..Len(q)
    BY <1>1
  <2> QED
    BY <1>1, <1>3, <1>6, <2>1 DEF AtMostOne
<1>7. None(q, S) <=> Head(q) \notin S /\ None(Tail(q), S)
  BY <1>2, <1>4 DEF None
<1>8. AtMostOne(q, S) => AtMostOne(Tail(q), S)
  BY <1>5 DEF AtMostOne
<1>9. AtMostOne(q, S) /\ Head(q) \in S => None(Tail(q), S)
  BY <1>6 DEF None
<1> QED
  BY <1>7, <1>8, <1>9

LEMMA NoneAppend ==
  ASSUME NEW R, NEW q \in Seq(R), NEW e \in R, NEW S
  PROVE  /\ None(Append(q, e), S) <=> None(q, S) /\ e \notin S
         /\ AtMostOne(q, S) /\ (e \notin S \/ None(q, S))
              => AtMostOne(Append(q, e), S)
<1> DEFINE a == Append(q, e)
<1>1. /\ Len(q) \in Nat /\ Len(a) = Len(q) + 1 /\ a[Len(q) + 1] = e
      /\ \A i \in 1..Len(q) : a[i] = q[i]
  BY AppendProperties, LenProperties
<1> HIDE DEF a
<1>2. \A i \in 1..Len(a) : i \in 1..Len(q) \/ i = Len(q) + 1
  BY <1>1
<1>3. 1..Len(q) \subseteq 1..Len(a) /\ Len(q) + 1 \in 1..Len(a)
  BY <1>1
<1>4. None(a, S) <=> None(q, S) /\ e \notin S
  BY <1>1, <1>2, <1>3 DEF None
<1>5. ASSUME AtMostOne(q, S), e \notin S \/ None(q, S),
             NEW i \in 1..Len(a), NEW j \in 1..Len(a), a[i] \in S, a[j] \in S
      PROVE  i = j
  BY <1>1, <1>2, <1>5 DEF None, AtMostOne
<1>6. AtMostOne(q, S) /\ (e \notin S \/ None(q, S)) => AtMostOne(a, S)
  BY <1>5 DEF AtMostOne
<1> QED
  BY <1>4, <1>6 DEF a

LEMMA NoneConcat ==
  ASSUME NEW R, NEW p \in Seq(R), NEW q \in Seq(R), NEW S
  PROVE  /\ None(p \o q, S) <=> None(p, S) /\ None(q, S)
         /\ AtMostOne(p, S) /\ None(q, S) => AtMostOne(p \o q, S)
         /\ None(p, S) /\ AtMostOne(q, S) => AtMostOne(p \o q, S)
<1> DEFINE c == p \o q
<1>1. /\ Len(p) \in Nat /\ Len(q) \in Nat /\ Len(c) = Len(p) + Len(q)
      /\ \A i \in 1..(Len(p) + Len(q)) :
           c[i] = IF i <= Len(p) THEN p[i] ELSE q[i - Len(p)]
  BY ConcatProperties, LenProperties
<1> HIDE DEF c
<1>2. ASSUME NEW i \in 1..Len(c)
      PROVE  \/ i \in 1..Len(p) /\ c[i] = p[i]
             \/ i - Len(p) \in 1..Len(q) /\ c[i] = q[i - Len(p)]
  BY <1>1
<1>3. ASSUME NEW i \in 1..Len(p)
      PROVE  i \in 1..Len(c) /\ c[i] = p[i]
  BY <1>1
<1>4. ASSUME NEW i \in 1..Len(q)
      PROVE  Len(p) + i \in 1..Len(c) /\ c[Len(p) + i] = q[i]
  <2>1. Len(p) + i \in 1..(Len(p) + Len(q)) /\ ~(Len(p) + i <= Len(p))
        /\ (Len(p) + i) - Len(p) = i
    BY <1>1
  <2> QED
    BY <1>1, <2>1
<1>5. None(c, S) <=> None(p, S) /\ None(q, S)
  BY <1>2, <1>3, <1>4 DEF None
<1>6. ASSUME AtMostOne(p, S), None(q, S), NEW i \in 1..Len(c), NEW j \in 1..Len(c),
             c[i] \in S, c[j] \in S
      PROVE  i = j
  BY <1>2, <1>6 DEF None, AtMostOne
<1>7. ASSUME None(p, S), AtMostOne(q, S), NEW i \in 1..Len(c), NEW j \in 1..Len(c),
             c[i] \in S, c[j] \in S
      PROVE  i = j
  <2>1. i - Len(p) = j - Len(p)
    BY <1>2, <1>7 DEF None, AtMostOne
  <2> QED
    BY <1>1, <2>1
<1>8. /\ AtMostOne(p, S) /\ None(q, S) => AtMostOne(c, S)
      /\ None(p, S) /\ AtMostOne(q, S) => AtMostOne(c, S)
  BY <1>6, <1>7 DEF AtMostOne
<1> QED
  BY <1>5, <1>8 DEF c

LEMMA NoneEmpty == ASSUME NEW S PROVE None(<<>>, S) /\ AtMostOne(<<>>, S)
BY DEF None, AtMostOne

LEMMA NoneIsOne == ASSUME NEW q, NEW S, None(q, S) PROVE AtMostOne(q, S)
BY DEF None, AtMostOne

\* A functor is queued, or not.
LEMMA QueueIfNone ==
  ASSUME NEW c, NEW q \in Seq(Tasks), NEW t \in Tasks, NEW S, t \notin S
  PROVE  /\ None(QueueIf(c, q, t), S) <=> None(q, S)
         /\ AtMostOne(q, S) => AtMostOne(QueueIf(c, q, t), S)
BY NoneAppend DEF QueueIf

\* No step of the life of the connection is queued or run.
QuietQueue ==
  /\ NoneQueued(RawTasks) => NoneQueued(RawTasks)'
  /\ OneQueued(LifeTasks) => OneQueued(LifeTasks)'
  /\ NoneQueued({"ConnectEstablished"})' <=> NoneQueued({"ConnectEstablished"})
  /\ NoneQueued({"ConnectDestroyed"})' <=> NoneQueued({"ConnectDestroyed"})

QuietTodo ==
  /\ None(todo, {"close_callback"})' <=> None(todo, {"close_callback"})
  /\ None(todo, {"remove"})' <=> None(todo, {"remove"})

QuietStep ==
  /\ state_' = state_ \/ (state_ \in Open /\ state_' \in Open)
  /\ state_ \in Open => "R" \in events_'
  /\ state_ \notin Open => UNCHANGED channel
  /\ state_ = "kConnecting" =>
       /\ todo' = todo
       /\ NoneQueued(Tasks \ {"ConnectEstablished"})
            => NoneQueued(Tasks \ {"ConnectEstablished"})'
  /\ QuietQueue /\ QuietTodo /\ UNCHANGED serverv

LEMMA QuietLife ==
  ASSUME ConnOK, QuietStep, ConnectingInv, OpenInv, ClosedInv
  PROVE  ConnectingInv' /\ OpenInv' /\ ClosedInv'
<1>1. UNCHANGED <<base_pending, connections_, server>>
  BY DEF QuietStep, serverv
<1>2. state_ \in Open <=> state_' \in Open
  BY DEF QuietStep
<1>3. state_' \notin Open => state_' = state_ /\ UNCHANGED <<events_, index_, channels_>>
  BY <1>2 DEF QuietStep, channel
<1>4. ConnectingInv'
  <2>1. state_' = "kConnecting" <=> state_ = "kConnecting"
    BY DEF QuietStep, Open
  <2>2. state_ = "kConnecting" => todo' = todo /\ index_' = index_
    BY <1>3, <2>1 DEF QuietStep, Open
  <2> QED
    BY <1>1, <2>1, <2>2 DEF ConnectingInv, QuietStep, QuietQueue
<1>5. OpenInv'
  BY <1>1, <1>2 DEF OpenInv, QuietStep, QuietQueue, QuietTodo
<1>6. ClosedInv'
  <2>1. state_' = "kDisconnected" => state_ = "kDisconnected"
          /\ UNCHANGED <<events_, index_, channels_>>
    BY <1>3 DEF Open
  <2> QED
    BY <1>1, <2>1 DEF ClosedInv, QuietStep, QuietQueue, QuietTodo
<1> QED
  BY <1>4, <1>5, <1>6

\* Ways to leave the queue quiet: leave it alone, swap it, queue or run a
\* functor that is not of the life of the connection.
LEMMA QueueSame == ASSUME UNCHANGED <<functors, pending>> PROVE QuietQueue
BY DEF QuietQueue, NoneQueued, OneQueued

LEMMA QueueSwap ==
  ASSUME functors = <<>>, functors' = pending, pending' = <<>>
  PROVE  QuietQueue /\ \A S : NoneQueued(S)' <=> NoneQueued(S)
<1>1. ASSUME NEW S PROVE NoneQueued(S)' <=> NoneQueued(S)
  BY NoneEmpty DEF NoneQueued
<1>2. ASSUME NEW S PROVE OneQueued(S) => OneQueued(S)'
  BY NoneEmpty DEF OneQueued
<1> QED
  BY <1>1, <1>2 DEF QuietQueue

LEMMA QueueTwo ==
  ASSUME LoopOK, UNCHANGED functors, NEW c, NEW d,
         NEW t \in SharedTasks \ LifeTasks, NEW u \in SharedTasks \ LifeTasks,
         pending' = QueueIf(c, QueueIf(d, pending, t), u)
  PROVE  QuietQueue
<1>1. /\ pending \in Seq(Tasks) /\ QueueIf(d, pending, t) \in Seq(Tasks)
      /\ t \in Tasks /\ u \in Tasks
  BY QueueIfType DEF LoopOK, Tasks
<1>2. t \notin RawTasks /\ u \notin RawTasks /\ t \notin LifeTasks /\ u \notin LifeTasks
  BY DEF SharedTasks, RawTasks
<1>3. ASSUME NEW S, t \notin S, u \notin S
      PROVE  /\ None(pending', S) <=> None(pending, S)
             /\ AtMostOne(pending, S) => AtMostOne(pending', S)
  BY <1>1, <1>3, QueueIfNone
<1>4. ASSUME NEW S, t \notin S, u \notin S
      PROVE  /\ NoneQueued(S)' <=> NoneQueued(S)
             /\ OneQueued(S) => OneQueued(S)'
  BY <1>3, <1>4 DEF NoneQueued, OneQueued
<1>5. /\ t \notin {"ConnectEstablished"} /\ u \notin {"ConnectEstablished"}
      /\ t \notin {"ConnectDestroyed"} /\ u \notin {"ConnectDestroyed"}
  BY <1>2 DEF LifeTasks
<1> QED
  BY <1>2, <1>4, <1>5, Zenon DEF QuietQueue

LEMMA QueueOne ==
  ASSUME LoopOK, UNCHANGED functors, NEW c, NEW t \in SharedTasks \ LifeTasks,
         pending' = QueueIf(c, pending, t)
  PROVE  QuietQueue
<1>1. pending' = QueueIf(FALSE, QueueIf(c, pending, t), t)
  BY DEF QueueIf
<1> QED
  BY <1>1, QueueTwo

LEMMA QueueRun ==
  ASSUME LoopOK, functors # <<>>, Head(functors) \in SharedTasks \ LifeTasks,
         functors' = Tail(functors), UNCHANGED pending
  PROVE  QuietQueue
<1>1. functors \in Seq(Tasks)
  BY DEF LoopOK
<1>2. ASSUME NEW S, Head(functors) \notin S
      PROVE  /\ NoneQueued(S)' <=> NoneQueued(S)
             /\ OneQueued(S) => OneQueued(S)'
  BY <1>1, <1>2, NoneTail DEF NoneQueued, OneQueued
<1>3. /\ Head(functors) \notin RawTasks /\ Head(functors) \notin LifeTasks
      /\ Head(functors) \notin {"ConnectEstablished"}
      /\ Head(functors) \notin {"ConnectDestroyed"}
  BY DEF SharedTasks, RawTasks, LifeTasks
<1> QED
  BY <1>2, <1>3, Zenon DEF QuietQueue

\* The asserts of UpdateChannel hold as long as none failed.
LEMMA AssertsHold == ASSUME RegistrationInv, fault = "none" PROVE UpdateAsserts
BY DEF RegistrationInv, UpdateAsserts

\* A part of todo that has been done is dropped, and perhaps a user callback is
\* next.
LEMMA TodoPops ==
  ASSUME LoopOK, TodoInv, todo # <<>>,
         Head(todo) \notin {"close_callback", "remove"},
         todo' = Tail(todo) \/ todo' = <<"callback">> \o Tail(todo),
         state_ \in Open => state_' \in Open
  PROVE  QuietTodo /\ TodoInv'
<1>1. todo \in Seq(Steps) /\ Tail(todo) \in Seq(Steps) /\ <<"callback">> \in Seq(Steps)
  BY HeadTailProperties DEF LoopOK, Steps
<1>2. ASSUME NEW S, "callback" \notin S
      PROVE  /\ None(todo', S) <=> None(Tail(todo), S)
             /\ AtMostOne(Tail(todo), S) => AtMostOne(todo', S)
  <2>1. None(<<"callback">>, S)
    BY <1>2 DEF None
  <2>2. /\ None(<<"callback">> \o Tail(todo), S) <=> None(Tail(todo), S)
        /\ AtMostOne(Tail(todo), S) => AtMostOne(<<"callback">> \o Tail(todo), S)
    BY <1>1, <2>1, NoneConcat
  <2> QED
    BY <2>2, Zenon
<1>3. /\ None(todo', {"close_callback"}) <=> None(todo, {"close_callback"})
      /\ None(todo', {"remove"}) <=> None(todo, {"remove"})
  BY <1>1, <1>2, NoneTail
<1>4. None(todo, {"remove"})
  BY DEF TodoInv
<1>5. /\ None(todo', {"disable"})
      /\ AtMostOne(todo', {"close", "read"}) /\ AtMostOne(todo', {"close_callback"})
      /\ None(todo, {"close", "read"}) => None(todo', {"close", "read"})
  BY <1>1, <1>2, NoneTail DEF TodoInv
<1> QED
  BY <1>3, <1>4, <1>5 DEF QuietTodo, TodoInv

\* Nothing of the loop moves except its queue and, in a handler, todo.
LEMMA QueueStays ==
  ASSUME QueueInv, QuietQueue, UNCHANGED loop,
         phase = "poll" => todo' = todo,
         revents_ # {} => todo' = todo /\ state_' \in Open
  PROVE  QueueInv'
BY DEF QueueInv, QuietQueue, loop

\* A handler goes on without ending the life of the connection.
LEMMA PopLife ==
  ASSUME TypeOK, ConnLife, todo # <<>>,
         Head(todo) \notin {"close_callback", "remove"},
         todo' = Tail(todo) \/ todo' = <<"callback">> \o Tail(todo),
         UNCHANGED <<state_, loop, serverv, userv>>, fault' = "none", QuietQueue,
         state_ \in Open => "R" \in events_',
         state_ \notin Open => UNCHANGED channel
  PROVE  ConnLife'
<1>0. LoopOK /\ ConnOK /\ Alone /\ QueueInv /\ TodoInv /\ ConnectingInv
      /\ OpenInv /\ ClosedInv
  BY TypeParts DEF ConnLife
<1>1. QuietTodo /\ TodoInv'
  BY <1>0, TodoPops
<1>2. phase # "poll" /\ revents_ = {} /\ state_ # "kConnecting"
  BY <1>0 DEF QueueInv, ConnectingInv
<1>3. QueueInv'
  BY <1>0, <1>2, QueueStays
<1>4. Alone'
  BY <1>0 DEF Alone, userv, serverv
<1>5. QuietStep
  BY <1>1, <1>2 DEF QuietStep
<1> QED
  BY <1>0, <1>1, <1>3, <1>4, <1>5, QuietLife DEF ConnLife

LEMMA HandlerQuiet ==
  ASSUME TypeOK, RegistrationInv, ConnLife, StepError \/ StepWrite \/ StepCallback
  PROVE  ConnLife'
<1>0. LoopOK /\ ChannelOK /\ fault = "none" /\ OpenInv /\ ClosedInv
      /\ ConnectingInv /\ ConnOK
  BY TypeParts DEF ConnLife
<1>1. ASSUME UNCHANGED <<channel, loop, pending, fault, state_, serverv, userv>>,
             todo # <<>>, todo' = Tail(todo),
             Head(todo) \in {"error", "write", "callback"}
      PROVE  ConnLife'
  <2>1. QuietQueue
    BY <1>1, QueueSame DEF loop
  <2>2. state_ \in Open => "R" \in events_'
    BY <1>0, <1>1 DEF OpenInv, channel
  <2>3. Head(todo) \notin {"close_callback", "remove"} /\ fault' = "none"
    BY <1>0, <1>1
  <2> QED
    BY <1>1, <2>1, <2>2, <2>3, PopLife
<1>2. CASE StepError \/ StepCallback
  BY <1>1, <1>2 DEF StepError, StepCallback
<1>3. CASE StepWrite
  <2>1. /\ todo # <<>> /\ Head(todo) = "write" /\ todo' = Tail(todo)
        /\ UNCHANGED <<state_, loop, serverv, userv>>
    BY <1>3 DEF StepWrite
  <2>2. CASE UNCHANGED <<channel, pending, fault>>
    BY <1>1, <2>1, <2>2
  <2>3. CASE /\ IsWriting /\ UpdateChannel(events_ \ {"W"}) /\ Assert(UpdateAsserts)
             /\ pending' = QueueIf(HasCallbacks, pending, "WriteComplete")
    <3>1. state_ \in Open /\ "R" \in events_'
      <4>1. state_ # "kConnecting"
        BY <1>0, <2>1 DEF ConnectingInv
      <4>2. state_ # "kDisconnected"
        BY <1>0, <2>3 DEF ClosedInv, IsWriting
      <4>3. state_ \in Open
        BY <1>0, <4>1, <4>2 DEF Open, ConnOK, States
      <4> QED
        BY <1>0, <2>3, <4>3 DEF OpenInv, UpdateChannel
    <3>2. fault' = "none"
      BY <1>0, <2>3, AssertsHold DEF Assert
    <3>3. QuietQueue
      <4>1. "WriteComplete" \in SharedTasks \ LifeTasks
        BY DEF SharedTasks, LifeTasks
      <4>2. UNCHANGED functors
        BY <2>1 DEF loop
      <4> QED
        BY <1>0, <2>3, <4>1, <4>2, QueueOne
    <3> QED
      BY <2>1, <3>1, <3>2, <3>3, PopLife
  <2> QED
    BY <1>3, <2>2, <2>3, Zenon DEF StepWrite
<1> QED
  BY <1>2, <1>3

LEMMA NoneSub == ASSUME NEW q, NEW S, None(q, S), NEW T, T \subseteq S PROVE None(q, T)
BY DEF None

\* HandleClose of an open connection, wherever it is called from.
LEMMA CloseLife ==
  ASSUME TypeOK, RegistrationInv, ConnLife, state_ \in Open,
         NEW rest \in Seq(Steps), HandleClose(rest),
         None(rest, {"close", "read"}), None(rest, {"close_callback"}),
         None(rest, {"remove"}), None(rest, {"disable"}),
         QuietQueue, QueueInv', UNCHANGED <<serverv, userv>>
  PROVE  ConnLife'
<1>0. /\ ChannelOK /\ fault = "none" /\ Alone /\ QueueInv /\ TodoInv
      /\ ConnectingInv /\ OpenInv /\ UNCHANGED <<base_pending, connections_, server>>
      /\ UNCHANGED <<user_call, user_ref>>
  BY TypeParts DEF ConnLife, serverv, userv
<1>1. /\ state_' = "kDisconnected" /\ UpdateChannel({}) /\ Assert(state_ \in Open /\ UpdateAsserts)
      /\ todo' = <<"callback", "close_callback">> \o rest
  BY DEF HandleClose
<1>2. fault' = "none"
  BY <1>0, <1>1, AssertsHold DEF Assert
<1>3. Alone'
  BY <1>0 DEF Alone
<1>4. <<"callback", "close_callback">> \in Seq(Steps)
  BY DEF Steps
<1>5. ASSUME NEW S, "callback" \notin S, "close_callback" \notin S, None(rest, S)
      PROVE  None(todo', S)
  <2>1. None(<<"callback", "close_callback">>, S)
    BY <1>5 DEF None
  <2> QED
    BY <1>1, <1>4, <1>5, <2>1, NoneConcat
<1>6. AtMostOne(todo', {"close_callback"})
  <2>1. AtMostOne(<<"callback", "close_callback">>, {"close_callback"})
    BY DEF AtMostOne
  <2> QED
    BY <1>1, <1>4, <2>1, NoneConcat
<1>7. ~None(todo', {"close_callback"})
  <2>1. ~None(<<"callback", "close_callback">>, {"close_callback"})
    BY DEF None
  <2> QED
    BY <1>1, <1>4, <2>1, NoneConcat
<1>8. /\ None(todo', {"disable"}) /\ None(todo', {"remove"})
      /\ None(todo', {"close", "read"})
  BY <1>5
<1>9. TodoInv'
  <2>1. AtMostOne(todo', {"close", "read"})
    BY <1>8, NoneIsOne
  <2> QED
    BY <1>6, <1>8, <2>1 DEF TodoInv
<1>10. ConnectingInv' /\ OpenInv'
  <2>1. /\ state_ # "kConnecting" /\ state_' # "kConnecting" /\ state_' \notin Open
    BY <1>1 DEF Open
  <2> QED
    BY <1>0, <2>1 DEF ConnectingInv, OpenInv, QuietQueue
<1>11. ClosedInv'
  <2>1. index_ = "kAdded" /\ channels_
    BY <1>0 DEF OpenInv, RegistrationInv
  <2>2. events_' = {} /\ index_' = "kDeleted" /\ channels_'
    BY <1>1, <2>1 DEF UpdateChannel
  <2>3. base_pending' = <<>> /\ NoneQueued({"ConnectDestroyed"})'
    BY <1>0 DEF OpenInv, QuietQueue
  <2>4. Len(base_pending') <= 1
    BY <2>3
  <2> QED
    BY <1>7, <1>8, <2>2, <2>3, <2>4 DEF ClosedInv
<1> QED
  BY <1>2, <1>3, <1>9, <1>10, <1>11 DEF ConnLife

\* close_callback_ and read_callback_ of the channel.
LEMMA ReadLife ==
  ASSUME TypeOK, RegistrationInv, ConnLife, StepClose \/ StepRead
  PROVE  ConnLife'
<1>0. /\ LoopOK /\ fault = "none" /\ QueueInv /\ TodoInv /\ OpenInv
      /\ ConnectingInv /\ todo \in Seq(Steps)
  BY TypeParts DEF ConnLife, LoopOK
<1>1. /\ todo # <<>> /\ Head(todo) \in {"close", "read"}
      /\ UNCHANGED <<loop, pending, serverv, userv>>
  BY DEF StepClose, StepRead
<1>2. QuietQueue
  BY <1>1, QueueSame DEF loop
<1>3. state_ \in Open
  BY <1>0, <1>1, NoneTail DEF TodoInv
<1>4. CASE HandleClose(Tail(todo))
  <2>1. /\ Tail(todo) \in Seq(Steps) /\ None(Tail(todo), {"close", "read"})
        /\ None(Tail(todo), {"close_callback"}) /\ None(Tail(todo), {"remove"})
        /\ None(Tail(todo), {"disable"})
    BY <1>0, <1>1, <1>3, NoneTail, HeadTailProperties DEF TodoInv, OpenInv
  <2>2. QueueInv'
    <3>1. phase # "poll" /\ revents_ = {}
      BY <1>0, <1>1 DEF QueueInv
    <3> QED
      BY <1>0, <1>1, <1>2, <3>1, QueueStays
  <2> QED
    BY <1>1, <1>2, <1>3, <1>4, <2>1, <2>2, CloseLife
<1>5. CASE /\ todo' = Tail(todo) \/ todo' = <<"callback">> \o Tail(todo)
           /\ UNCHANGED <<state_, channel, fault>>
  <2>1. "R" \in events_'
    BY <1>0, <1>3, <1>5 DEF OpenInv, channel
  <2>2. Head(todo) \notin {"close_callback", "remove"} /\ fault' = "none"
    BY <1>0, <1>1, <1>5
  <2>3. UNCHANGED <<state_, loop, serverv, userv>>
    BY <1>1, <1>5
  <2> QED
    BY <1>1, <1>2, <1>3, <1>5, <2>1, <2>2, <2>3, PopLife
<1> QED
  BY <1>4, <1>5 DEF StepClose, StepRead

\* A functor runs: it holds a reference, and what is left of the queue.
LEMMA RunQueue ==
  ASSUME TypeOK, ConnLife, RunFunctor
  PROVE  /\ RunTask(Head(functors)) /\ Head(functors) \in SharedTasks
         /\ pending' = pending /\ QueueInv'
<1>0. LoopOK /\ QueueInv /\ functors \in Seq(Tasks) /\ pending \in Seq(Tasks)
  BY TypeParts DEF ConnLife, LoopOK
<1>1. /\ phase = "run" /\ todo = <<>> /\ functors # <<>>
      /\ functors' = Tail(functors)
      /\ UNCHANGED <<phase, revents_, batch>>
  BY DEF RunFunctor
<1>2. /\ Len(functors) \in Nat \ {0} /\ Head(functors) = functors[1]
      /\ Head(functors) \in Tasks
      /\ Len(Tail(functors)) = Len(functors) - 1
      /\ \A i \in 1..(Len(functors) - 1) : Tail(functors)[i] = functors[i + 1]
  BY <1>0, <1>1, HeadTailProperties, LenProperties, EmptySeq
<1>3. Head(functors) \in SharedTasks /\ Head(functors) \in batch
  <2>1. Head(functors) \notin RawTasks
    BY <1>0, <1>1, NoneTail DEF QueueInv, NoneQueued
  <2>2. functors[1] \in batch
    BY <1>0, <1>2 DEF QueueInv
  <2> QED
    BY <1>2, <2>1, <2>2 DEF Tasks
<1>4. Alive
  BY <1>3 DEF Alive
<1>5. RunTask(Head(functors))
  BY <1>4 DEF RunFunctor
<1>6. pending' = pending
  BY <1>3, <1>5 DEF RunTask, SharedTasks
<1>7. \A i \in 1..Len(functors') : functors'[i] \in batch'
  BY <1>0, <1>1, <1>2 DEF QueueInv
<1>8. NoneQueued(RawTasks)' /\ OneQueued(LifeTasks)'
  BY <1>0, <1>1, <1>6, NoneTail DEF QueueInv, NoneQueued, OneQueued
<1>9. QueueInv'
  BY <1>0, <1>1, <1>7, <1>8 DEF QueueInv
<1> QED
  BY <1>3, <1>5, <1>6, <1>9

\* todo with one entry.
LEMMA NoneSingle ==
  ASSUME NEW e, NEW S
  PROVE  /\ None(<<e>>, S) <=> e \notin S
         /\ AtMostOne(<<e>>, S)
BY DEF None, AtMostOne

\* ConnectEstablished, run by the I/O loop or in place by NewConnection.
LEMMA EstablishLife ==
  ASSUME TypeOK, RegistrationInv, Disciplined, ConnLife, state_ = "kConnecting",
         RunTask("ConnectEstablished"), connections_', server' = "alive",
         UNCHANGED <<base_pending, user_call>>, QueueInv', NoneQueued(LifeTasks)'
  PROVE  ConnLife'
<1>0. /\ ChannelOK /\ fault = "none" /\ Alone /\ ConnectingInv
  BY TypeParts DEF ConnLife
<1>1. /\ state_' = "kConnected" /\ UpdateChannel({"R"}) /\ Assert(UpdateAsserts)
      /\ todo' = <<"callback">>
      /\ user_ref' = [u \in Users |-> program.cross_ops # {}]
  BY DEF RunTask
<1>2. fault' = "none"
  BY <1>0, <1>1, AssertsHold DEF Assert
<1>3. Alone'
  BY <1>0, <1>1 DEF Alone, Disciplined
<1>4. TodoInv'
  BY <1>1, NoneSingle DEF TodoInv
<1>5. NoneQueued({"ConnectEstablished"})' /\ NoneQueued({"ConnectDestroyed"})'
  BY NoneSub DEF NoneQueued, LifeTasks
<1>6. ConnectingInv' /\ ClosedInv'
  BY <1>1, <1>5 DEF ConnectingInv, ClosedInv
<1>7. OpenInv'
  <2>1. "R" \in events_'
    BY <1>1 DEF UpdateChannel
  <2>2. base_pending' = <<>>
    BY <1>0 DEF ConnectingInv
  <2>3. None(todo', {"close_callback"}) /\ None(todo', {"remove"})
    BY <1>1, NoneSingle
  <2> QED
    BY <1>5, <2>1, <2>2, <2>3 DEF OpenInv
<1> QED
  BY <1>2, <1>3, <1>4, <1>6, <1>7 DEF ConnLife

\* A functor of the batch.
LEMMA RunLife ==
  ASSUME TypeOK, RegistrationInv, Disciplined, ConnLife, RunFunctor
  PROVE  ConnLife'
<1>0. /\ LoopOK /\ fault = "none" /\ Alone /\ QueueInv /\ TodoInv
      /\ ConnectingInv /\ OpenInv /\ ClosedInv /\ ConnOK
      /\ functors \in Seq(Tasks) /\ pending \in Seq(Tasks)
  BY TypeParts DEF ConnLife, LoopOK
<1>1. /\ RunTask(Head(functors)) /\ Head(functors) \in SharedTasks
      /\ pending' = pending /\ QueueInv'
  BY RunQueue
<1>2. /\ phase = "run" /\ todo = <<>> /\ functors # <<>>
      /\ functors' = Tail(functors)
      /\ UNCHANGED <<base_pending, connections_, server, user_call, serverv>>
  BY DEF RunFunctor, serverv
<1>e. \A S : None(todo, S)
  BY <1>2, NoneEmpty
<1>3. ASSUME Head(functors) \in LifeTasks PROVE NoneQueued(LifeTasks)'
  <2>1. ~None(functors, LifeTasks) /\ None(Tail(functors), LifeTasks)
    BY <1>0, <1>2, <1>3, NoneTail DEF QueueInv, OneQueued
  <2> QED
    BY <1>0, <1>1, <1>2, <2>1 DEF QueueInv, OneQueued, NoneQueued
<1>4. CASE Head(functors) = "ConnectEstablished"
  <2>1. ~NoneQueued({"ConnectEstablished"})
    BY <1>0, <1>2, <1>4, NoneTail DEF NoneQueued
  <2>2. state_ = "kConnecting" /\ server = "alive" /\ connections_
    BY <1>0, <2>1 DEF ConnectingInv
  <2>3. connections_' /\ server' = "alive" /\ RunTask("ConnectEstablished")
        /\ UNCHANGED <<base_pending, user_call>>
    BY <1>1, <1>2, <1>4, <2>2
  <2>4. NoneQueued(LifeTasks)'
    BY <1>3, <1>4 DEF LifeTasks
  <2> QED
    BY <1>1, <2>2, <2>3, <2>4, EstablishLife
<1>5. CASE Head(functors) = "ConnectDestroyed"
  <2>1. ~NoneQueued({"ConnectDestroyed"})
    BY <1>0, <1>2, <1>5, NoneTail DEF NoneQueued
  <2>2. state_ # "kConnecting"
    <3>1. ASSUME NoneQueued(Tasks \ {"ConnectEstablished"}) PROVE FALSE
      <4>1. {"ConnectDestroyed"} \subseteq Tasks \ {"ConnectEstablished"}
        BY DEF Tasks, SharedTasks
      <4> QED
        BY <2>1, <3>1, <4>1, NoneSub DEF NoneQueued
    <3> QED
      BY <1>0, <3>1 DEF ConnectingInv
  <2>3. state_ = "kDisconnected"
    BY <1>0, <2>1, <2>2 DEF OpenInv, Open, ConnOK, States
  <2>4. /\ todo' = <<"remove">> /\ UNCHANGED <<state_, channel, fault, user_ref>>
    BY <1>1, <1>5, <2>3 DEF RunTask
  <2>5. NoneQueued({"ConnectDestroyed"})' /\ NoneQueued({"ConnectEstablished"})'
    BY <1>3, <1>5, NoneSub DEF NoneQueued, LifeTasks
  <2>6. TodoInv'
    BY <2>4, NoneSingle DEF TodoInv
  <2>7. ConnectingInv' /\ OpenInv'
    BY <1>0, <1>2, <2>3, <2>4, <2>5 DEF ConnectingInv, OpenInv, Open
  <2>8. ClosedInv'
    <3>1. /\ channels_ /\ base_pending = <<>> /\ events_ = {} /\ index_ # "kAdded"
      BY <1>0, <2>1, <2>3 DEF ClosedInv
    <3>2. Len(base_pending') <= 1
      BY <1>2, <3>1
    <3>3. None(todo', {"close_callback"}) /\ ~None(todo', {"remove"})
      BY <2>4, NoneSingle
    <3> QED
      BY <1>2, <2>4, <2>5, <3>1, <3>2, <3>3 DEF ClosedInv, channel
  <2>9. Alone'
    BY <1>0, <1>2, <2>4 DEF Alone
  <2> QED
    BY <1>0, <1>1, <2>4, <2>6, <2>7, <2>8, <2>9 DEF ConnLife
<1>6. CASE Head(functors) \in SharedTasks \ LifeTasks
  <2>1. QuietQueue
    BY <1>0, <1>1, <1>2, <1>6, QueueRun
  <2>2. state_ # "kConnecting"
    <3>1. Head(functors) \in Tasks \ {"ConnectEstablished"}
      BY <1>6 DEF Tasks, LifeTasks
    <3>2. ~None(functors, Tasks \ {"ConnectEstablished"})
      BY <1>0, <1>2, <3>1, NoneTail
    <3> QED
      BY <1>0, <3>2 DEF ConnectingInv, NoneQueued
  <2>3. ASSUME todo' = <<>> \/ todo' = <<"callback">>,
               UNCHANGED <<state_, channel, fault, user_ref>>
        PROVE  ConnLife'
    <3>1. \A S : "callback" \notin S => None(todo', S) /\ AtMostOne(todo', S)
      BY <2>3, NoneSingle, NoneEmpty, Zenon
    <3>2. TodoInv' /\ QuietTodo
      BY <1>e, <3>1 DEF TodoInv, QuietTodo
    <3>3. QuietStep
      BY <1>0, <1>2, <2>1, <2>2, <2>3, <3>2 DEF QuietStep, OpenInv, channel
    <3>4. Alone' /\ fault' = "none"
      BY <1>0, <1>2, <2>3 DEF Alone
    <3> QED
      BY <1>0, <1>1, <3>2, <3>3, <3>4, QuietLife DEF ConnLife
  <2>4. CASE Head(functors) = "ForceCloseInLoop" /\ state_ \in Open
    <3>1. HandleClose(<<>>) /\ UNCHANGED <<serverv, userv>>
      BY <1>1, <1>2, <2>4 DEF RunTask, ForceCloseInLoop, userv
    <3>2. <<>> \in Seq(Steps)
      BY EmptySeq
    <3> QED
      BY <1>1, <2>1, <2>4, <3>1, <3>2, NoneEmpty, CloseLife
  <2>5. CASE Head(functors) = "ForceCloseInLoop" /\ state_ \notin Open
    BY <1>1, <1>2, <2>3, <2>5 DEF RunTask, ForceCloseInLoop
  <2>6. CASE Head(functors) \in {"WriteComplete", "HighWatermark"}
    BY <1>1, <2>3, <2>6 DEF RunTask
  <2> QED
    BY <1>6, <2>4, <2>5, <2>6 DEF SharedTasks, LifeTasks
<1> QED
  BY <1>1, <1>4, <1>5, <1>6 DEF LifeTasks

\* One functor of the life of the connection is queued.
LEMMA QueueLife ==
  ASSUME LoopOK, QueueInv, NEW t \in LifeTasks, UNCHANGED functors,
         pending' = Append(pending, t), NoneQueued({"ConnectEstablished"}),
         NoneQueued({"ConnectDestroyed"})
  PROVE  /\ NoneQueued(RawTasks)' /\ OneQueued(LifeTasks)' /\ ~NoneQueued({t})'
         /\ \A S : t \notin S /\ NoneQueued(S) => NoneQueued(S)'
<1>1. /\ pending \in Seq(Tasks) /\ t \in Tasks /\ t \notin RawTasks
  BY DEF LoopOK, Tasks, LifeTasks, SharedTasks, RawTasks
<1>2. None(functors, LifeTasks) /\ None(pending, LifeTasks)
  BY DEF NoneQueued, None, LifeTasks
<1>3. \A S : None(pending', S) <=> None(pending, S) /\ t \notin S
  BY <1>1, NoneAppend
<1>4. AtMostOne(pending', LifeTasks)
  BY <1>1, <1>2, NoneAppend, NoneIsOne
<1>5. AtMostOne(functors', LifeTasks) /\ None(functors', LifeTasks)
  BY <1>2, NoneIsOne
<1>6. NoneQueued(RawTasks)'
  BY <1>1, <1>3 DEF QueueInv, NoneQueued
<1>7. OneQueued(LifeTasks)'
  BY <1>4, <1>5 DEF OneQueued
<1>8. ~NoneQueued({t})'
  BY <1>3 DEF NoneQueued
<1>9. \A S : t \notin S /\ NoneQueued(S) => NoneQueued(S)'
  BY <1>3 DEF NoneQueued
<1> QED
  BY <1>6, <1>7, <1>8, <1>9

\* TcpServer::RemoveConnection, and what it leaves for the base loop.
LEMMA RemovalLife ==
  ASSUME TypeOK, ConnLife, StepCloseCallback \/ RemoveConnectionInLoop
  PROVE  ConnLife'
<1>0. /\ LoopOK /\ fault = "none" /\ Alone /\ QueueInv /\ TodoInv
      /\ ConnectingInv /\ OpenInv /\ ClosedInv /\ ConnOK /\ todo \in Seq(Steps)
      /\ base_pending \in Seq({"RemoveConnectionInLoop"})
  BY TypeParts DEF ConnLife, LoopOK, ServerOK
<1>1. UNCHANGED <<state_, channel, loop, server, userv>> /\ fault' = "none"
  BY <1>0 DEF StepCloseCallback, RemoveConnectionInLoop, Alone
<1>2. UNCHANGED <<phase, revents_, functors, batch, events_, index_, channels_,
                  user_call, user_ref>>
  BY <1>1 DEF loop, channel, userv
<1>3. Alone'
  BY <1>0, <1>1, <1>2 DEF Alone
<1>4. /\ state_ = "kDisconnected" /\ channels_ /\ NoneQueued({"ConnectDestroyed"})
      /\ None(todo, {"remove"})
  <2>1. \/ todo # <<>> /\ Head(todo) = "close_callback"
        \/ base_pending # <<>>
    BY DEF StepCloseCallback, RemoveConnectionInLoop
  <2>2. ~None(todo, {"close_callback"}) \/ base_pending # <<>>
    BY <1>0, <2>1, NoneTail
  <2>3. state_ # "kConnecting" /\ state_ \notin Open
    BY <1>0, <2>1, <2>2 DEF ConnectingInv, OpenInv
  <2>4. state_ = "kDisconnected"
    BY <1>0, <2>3 DEF Open, ConnOK, States
  <2> QED
    BY <1>0, <2>2, <2>4 DEF ClosedInv
<1>5. server # "idle" /\ NoneQueued({"ConnectEstablished"})
  BY <1>0, <1>4 DEF ConnectingInv
<1>6. events_ = {} /\ index_ # "kAdded"
  BY <1>0, <1>4 DEF ClosedInv
<1>7. CASE pending' = Append(pending, "ConnectDestroyed")
  <2>1. /\ NoneQueued(RawTasks)' /\ OneQueued(LifeTasks)'
        /\ ~NoneQueued({"ConnectDestroyed"})' /\ NoneQueued({"ConnectEstablished"})'
    <3>1. "ConnectDestroyed" \in LifeTasks
          /\ "ConnectDestroyed" \notin {"ConnectEstablished"}
      BY DEF LifeTasks
    <3> QED
      BY <1>0, <1>2, <1>4, <1>5, <1>7, <3>1, QueueLife
  <2>2. /\ base_pending' = <<>> /\ TodoInv' /\ None(todo', {"close_callback"})
        /\ None(todo', {"remove"})
        /\ todo = <<>> => todo' = <<>>
    <3>1. CASE StepCloseCallback
      <4>1. /\ todo # <<>> /\ Head(todo) = "close_callback" /\ todo' = Tail(todo)
        BY <3>1 DEF StepCloseCallback
      <4>2. ~None(todo, {"close_callback"}) /\ None(todo', {"close_callback"})
        BY <1>0, <4>1, NoneTail DEF TodoInv
      <4>3. base_pending = <<>>
        BY <1>0, <1>4, <4>2 DEF ClosedInv
      <4>4. base_pending' = base_pending
        <5>1. CASE IoIsBase
          BY <3>1, <5>1 DEF StepCloseCallback
        <5>2. CASE ~IoIsBase
          <6>1. pending' = pending
            BY <3>1, <5>2 DEF StepCloseCallback
          <6>2. pending \in Seq(Tasks) /\ "ConnectDestroyed" \in Tasks
            BY <1>0 DEF LoopOK, Tasks, SharedTasks
          <6>3. Len(Append(pending, "ConnectDestroyed")) = Len(pending) + 1
                /\ Len(pending) \in Nat
            BY <6>2, AppendProperties, LenProperties
          <6> QED
            BY <1>7, <6>1, <6>3
        <5> QED
          BY <5>1, <5>2
      <4>5. /\ None(todo', {"disable"}) /\ AtMostOne(todo', {"close", "read"})
            /\ AtMostOne(todo', {"close_callback"}) /\ None(todo', {"remove"})
            /\ None(todo', {"close", "read"})
        BY <1>0, <1>4, <4>1, NoneTail DEF TodoInv, Open
      <4>6. TodoInv'
        BY <4>5 DEF TodoInv
      <4> QED
        BY <4>1, <4>2, <4>3, <4>4, <4>5, <4>6
    <3>2. CASE RemoveConnectionInLoop
      <4>1. base_pending # <<>> /\ base_pending' = Tail(base_pending)
            /\ todo' = todo
        BY <3>2 DEF RemoveConnectionInLoop
      <4>2. Len(base_pending) <= 1 /\ None(todo, {"close_callback"})
        BY <1>0, <1>4, <4>1 DEF ClosedInv
      <4>3. /\ Tail(base_pending) \in Seq({"RemoveConnectionInLoop"})
            /\ Len(Tail(base_pending)) = Len(base_pending) - 1
            /\ Len(base_pending) \in Nat /\ Len(Tail(base_pending)) \in Nat
        <5>1. base_pending \in Seq({"RemoveConnectionInLoop"})
          BY <1>0
        <5> QED
          BY <5>1, <4>1, HeadTailProperties, LenProperties
      <4>4. base_pending' = <<>>
        <5>1. Len(Tail(base_pending)) = 0
          BY <4>2, <4>3
        <5> QED
          BY <4>1, <4>3, <5>1, EmptySeq
      <4>5. TodoInv'
        BY <1>0, <1>1, <4>1 DEF TodoInv
      <4> QED
        BY <1>4, <4>1, <4>2, <4>4, <4>5
    <3> QED
      BY <3>1, <3>2
  <2>3. QueueInv'
    BY <1>0, <1>1, <1>2, <1>4, <2>1, <2>2 DEF QueueInv, Open
  <2>4. ConnectingInv' /\ OpenInv'
    BY <1>1, <1>4, <1>5, <2>1 DEF ConnectingInv, OpenInv, Open
  <2>5. ClosedInv'
    <3>1. Len(base_pending') <= 1
      BY <2>2
    <3> QED
      BY <1>2, <1>4, <1>6, <2>1, <2>2, <3>1 DEF ClosedInv
  <2> QED
    BY <1>1, <1>3, <2>2, <2>3, <2>4, <2>5 DEF ConnLife
<1>8. CASE /\ StepCloseCallback /\ pending' = pending
           /\ base_pending' = Append(base_pending, "RemoveConnectionInLoop")
  <2>1. /\ todo # <<>> /\ Head(todo) = "close_callback" /\ todo' = Tail(todo)
    BY <1>8 DEF StepCloseCallback
  <2>2. ~None(todo, {"close_callback"}) /\ None(todo', {"close_callback"})
    BY <1>0, <2>1, NoneTail DEF TodoInv
  <2>3. base_pending = <<>>
    BY <1>0, <1>4, <2>2 DEF ClosedInv
  <2>4. base_pending' # <<>> /\ Len(base_pending') <= 1
    BY <1>8, <2>3
  <2>5. /\ None(todo', {"disable"}) /\ AtMostOne(todo', {"close", "read"})
        /\ AtMostOne(todo', {"close_callback"}) /\ None(todo', {"remove"})
        /\ None(todo', {"close", "read"})
    BY <1>0, <1>4, <2>1, NoneTail DEF TodoInv, Open
  <2>6. TodoInv'
    BY <2>5 DEF TodoInv
  <2>7. QuietQueue
    BY <1>2, <1>8, QueueSame
  <2>8. QueueInv'
    BY <1>0, <1>1, <2>1, <2>7, QueueStays DEF QueueInv
  <2>9. ConnectingInv' /\ OpenInv'
    BY <1>1, <1>4, <1>5, <2>7 DEF ConnectingInv, OpenInv, Open, QuietQueue
  <2>10. ClosedInv'
    BY <1>2, <1>4, <1>6, <2>2, <2>4, <2>5, <2>7 DEF ClosedInv, QuietQueue
  <2> QED
    BY <1>1, <1>3, <2>6, <2>8, <2>9, <2>10 DEF ConnLife
<1> QED
  BY <1>7, <1>8 DEF StepCloseCallback, RemoveConnectionInLoop

\* The end: Channel::Remove.
LEMMA RemoveLife == ASSUME TypeOK, RegistrationInv, ConnLife, StepRemove PROVE ConnLife'
<1>0. /\ LoopOK /\ ChannelOK /\ fault = "none" /\ Alone /\ QueueInv /\ TodoInv
      /\ ConnectingInv /\ OpenInv /\ ClosedInv /\ ConnOK /\ todo \in Seq(Steps)
  BY TypeParts DEF ConnLife, LoopOK
<1>1. /\ todo # <<>> /\ Head(todo) = "remove" /\ todo' = Tail(todo)
      /\ RemoveChannel /\ Assert(RemoveAsserts)
      /\ UNCHANGED <<state_, loop, pending, serverv, userv>>
  BY DEF StepRemove
<1>2. UNCHANGED <<phase, revents_, functors, batch, base_pending, connections_,
                  server, user_call, user_ref>>
  BY <1>1 DEF loop, serverv, userv
<1>3. ~None(todo, {"remove"}) /\ todo = <<"remove">> /\ todo' = <<>>
  <2>1. ~None(todo, {"remove"})
    BY <1>0, <1>1, NoneTail
  <2>2. todo = <<"remove">>
    BY <1>0, <2>1 DEF TodoInv
  <2> QED
    BY <1>1, <2>1, <2>2
<1>4. state_ = "kDisconnected"
  BY <1>0, <1>1, <1>3 DEF ConnectingInv, OpenInv, Open, ConnOK, States
<1>5. /\ channels_ /\ events_ = {} /\ base_pending = <<>> /\ index_ # "kAdded"
      /\ NoneQueued({"ConnectDestroyed"})
  BY <1>0, <1>3, <1>4 DEF ClosedInv
<1>6. fault' = "none" /\ ~channels_' /\ events_' = {} /\ index_' # "kAdded"
  <2>1. index_ = "kDeleted"
    BY <1>0, <1>5 DEF RegistrationInv, ChannelOK
  <2> QED
    BY <1>1, <1>5, <2>1 DEF RemoveChannel, Assert, RemoveAsserts
<1>7. QuietQueue
  BY <1>1, <1>2, QueueSame
<1>8. QueueInv'
  BY <1>0, <1>1, <1>7, QueueStays DEF QueueInv
<1>9. \A S : None(todo', S) /\ AtMostOne(todo', S)
  BY <1>3, NoneEmpty
<1>10. TodoInv'
  BY <1>9 DEF TodoInv
<1>11. ConnectingInv' /\ OpenInv'
  BY <1>0, <1>1, <1>2, <1>4, <1>7 DEF ConnectingInv, OpenInv, Open, QuietQueue
<1>12. ClosedInv'
  <2>1. Len(base_pending') <= 1
    BY <1>2, <1>5
  <2> QED
    BY <1>2, <1>5, <1>6, <1>7, <1>9, <2>1 DEF ClosedInv, QuietQueue
<1>13. Alone'
  BY <1>0, <1>2 DEF Alone
<1> QED
  BY <1>6, <1>8, <1>10, <1>11, <1>12, <1>13 DEF ConnLife

\* Steps that do not touch the connection's handlers.
LEMMA OutsideLife ==
  ASSUME TypeOK, ConnLife, UNCHANGED <<todo, serverv, userv>>, fault' = "none",
         state_' = state_ \/ (state_ \in Open /\ state_' \in Open),
         state_ \in Open => "R" \in events_',
         state_ \notin Open => UNCHANGED channel,
         state_ = "kConnecting" => (NoneQueued(Tasks \ {"ConnectEstablished"})
                                     => NoneQueued(Tasks \ {"ConnectEstablished"})'),
         QuietQueue, QueueInv'
  PROVE  ConnLife'
<1>0. /\ Alone /\ TodoInv /\ ConnectingInv /\ OpenInv /\ ClosedInv /\ ConnOK
  BY TypeParts DEF ConnLife
<1>1. QuietTodo
  BY DEF QuietTodo
<1>2. QuietStep
  BY <1>1 DEF QuietStep
<1>3. TodoInv'
  BY <1>0 DEF TodoInv
<1>4. Alone'
  BY <1>0 DEF Alone, userv, serverv
<1> QED
  BY <1>0, <1>2, <1>3, <1>4, QuietLife DEF ConnLife

\* Poll, the swap, the end of the batch, and the peer.
LEMMA LoopLife ==
  ASSUME TypeOK, RegistrationInv, ConnLife,
         Poll \/ SwapPending \/ PendingDone \/ PeerSends \/ PeerCloses \/ PeerAborts
  PROVE  ConnLife'
<1>0. /\ LoopOK /\ fault = "none" /\ QueueInv /\ ConnectingInv /\ OpenInv
      /\ ClosedInv /\ ConnOK /\ pending \in Seq(Tasks)
  BY TypeParts DEF ConnLife, LoopOK
<1>1. UNCHANGED <<state_, channel, todo, serverv, userv, fault>>
  BY DEF Poll, SwapPending, PendingDone, PeerSends, PeerCloses, PeerAborts
<1>2. /\ state_ \in Open => "R" \in events_'
      /\ fault' = "none"
  BY <1>0, <1>1 DEF OpenInv, channel
<1>q. ASSUME QuietQueue, QueueInv', \A S : NoneQueued(S)' <=> NoneQueued(S)
      PROVE  ConnLife'
  BY <1>1, <1>2, <1>q, OutsideLife
<1>s. ASSUME UNCHANGED <<functors, pending>>
      PROVE  QuietQueue /\ \A S : NoneQueued(S)' <=> NoneQueued(S)
  BY <1>s, QueueSame DEF NoneQueued
<1>3. CASE Poll
  <2>1. /\ phase = "poll" /\ phase' = "handle" /\ UNCHANGED <<functors, pending, batch>>
    BY <1>3 DEF Poll
  <2>2. revents_' # {} => state_ \in Open
    <3>1. revents_' # {} => epoll
      BY <1>3 DEF Poll, Reports
    <3>2. epoll => index_ = "kAdded"
      BY <1>0 DEF RegistrationInv
    <3>3. index_ = "kAdded" => state_ \in Open
      BY <1>0 DEF ConnectingInv, ClosedInv, ConnOK, States, Open
    <3> QED
      BY <3>1, <3>2, <3>3
  <2>3. QueueInv'
    BY <1>0, <1>1, <1>s, <2>1, <2>2 DEF QueueInv, QuietQueue
  <2> QED
    BY <1>q, <1>s, <2>1, <2>3
<1>4. CASE SwapPending
  <2>1. /\ phase = "handle" /\ todo = <<>> /\ revents_ = {} /\ phase' = "run"
        /\ functors' = pending /\ pending' = <<>> /\ revents_' = revents_
        /\ batch' = {pending[i] : i \in DOMAIN pending}
    BY <1>4 DEF SwapPending
  <2>2. functors = <<>>
    BY <1>0, <2>1 DEF QueueInv
  <2>3. QuietQueue /\ \A S : NoneQueued(S)' <=> NoneQueued(S)
    BY <2>1, <2>2, QueueSwap
  <2>4. \A i \in 1..Len(functors') : functors'[i] \in batch'
    BY <1>0, <2>1, LenProperties
  <2>5. QueueInv'
    BY <1>0, <2>1, <2>3, <2>4 DEF QueueInv, QuietQueue
  <2> QED
    BY <1>q, <2>3, <2>5
<1>5. CASE PendingDone
  <2>1. /\ phase = "run" /\ todo = <<>> /\ functors = <<>> /\ phase' = "poll"
        /\ UNCHANGED <<functors, pending, revents_>>
    BY <1>5 DEF PendingDone
  <2>2. \A i \in 1..Len(functors') : functors'[i] \in batch'
    BY <2>1
  <2>3. QueueInv'
    BY <1>0, <1>1, <1>s, <2>1, <2>2 DEF QueueInv, QuietQueue
  <2> QED
    BY <1>q, <1>s, <2>1, <2>3
<1>6. CASE PeerSends \/ PeerCloses \/ PeerAborts
  <2>1. UNCHANGED <<loop, functors, pending>>
    BY <1>6 DEF PeerSends, PeerCloses, PeerAborts, loop
  <2>2. revents_ # {} => state_' \in Open
    BY <1>0, <1>1 DEF QueueInv
  <2>3. QueueInv'
    BY <1>0, <1>1, <1>s, <2>1, <2>2, QueueStays
  <2> QED
    BY <1>q, <1>s, <2>1, <2>3
<1> QED
  BY <1>3, <1>4, <1>5, <1>6

\* Channel::HandleEvent.
LEMMA EventLife == ASSUME TypeOK, ConnLife, HandleEvent PROVE ConnLife'
<1> DEFINE has(cond, s) == IF cond THEN <<s>> ELSE <<>>
           c == has("HUP" \in revents_ /\ "IN" \notin revents_, "close")
           e == has("ERR" \in revents_, "error")
           r == has("IN" \in revents_, "read")
           w == has("OUT" \in revents_, "write")
<1>0. /\ LoopOK /\ fault = "none" /\ QueueInv /\ TodoInv /\ ConnectingInv /\ OpenInv
      /\ ClosedInv /\ ConnOK /\ Alone
  BY TypeParts DEF ConnLife
<1>1. todo' = c \o e \o r \o w
  BY DEF HandleEvent
<1>2. /\ phase = "handle" /\ todo = <<>> /\ revents_ # {} /\ revents_' = {}
      /\ fault' = IF Alive THEN "none" ELSE "use_after_free"
      /\ UNCHANGED <<state_, channel, phase, functors, batch, pending, serverv, userv>>
  BY DEF HandleEvent
<1>3. state_ \in Open /\ fault' = "none"
  <2>1. state_ \in Open
    BY <1>0, <1>2 DEF QueueInv
  <2>2. Alive
    BY <1>0, <2>1 DEF OpenInv, Alive
  <2> QED
    BY <1>2, <2>1, <2>2
<1>4. c \in Seq(Steps) /\ e \in Seq(Steps) /\ r \in Seq(Steps) /\ w \in Seq(Steps)
  <2>1. \A s \in Steps : <<s>> \in Seq(Steps) /\ <<>> \in Seq(Steps)
    OBVIOUS
  <2>2. {"close", "error", "read", "write"} \subseteq Steps
    BY DEF Steps
  <2> QED
    BY <2>1, <2>2, Zenon
<1>5. ASSUME NEW S, "close" \notin S, "error" \notin S, "read" \notin S, "write" \notin S
      PROVE  None(c, S) /\ None(e, S) /\ None(r, S) /\ None(w, S)
  BY <1>5, NoneSingle, NoneEmpty, Zenon
<1>6. /\ AtMostOne(c, {"close", "read"}) /\ AtMostOne(r, {"close", "read"})
      /\ None(e, {"close", "read"}) /\ None(w, {"close", "read"})
      /\ None(c, {"close", "read"}) \/ None(r, {"close", "read"})
  <2>1. "error" \notin {"close", "read"} /\ "write" \notin {"close", "read"}
    OBVIOUS
  <2> QED
    BY <2>1, NoneSingle, NoneEmpty, Zenon
<1> HIDE DEF c, e, r, w
<1>7. c \o e \in Seq(Steps) /\ (c \o e) \o r \in Seq(Steps)
  <2>1. c \o e \in Seq(Steps)
    BY <1>4, ConcatProperties
  <2> QED
    BY <1>4, <2>1, ConcatProperties
<1>8. ASSUME NEW S, "close" \notin S, "error" \notin S, "read" \notin S, "write" \notin S
      PROVE  None(todo', S)
  <2>1. None(c \o e, S)
    BY <1>4, <1>5, <1>8, NoneConcat
  <2>2. None((c \o e) \o r, S)
    BY <1>4, <1>5, <1>7, <1>8, <2>1, NoneConcat
  <2> QED
    BY <1>1, <1>4, <1>5, <1>7, <1>8, <2>2, NoneConcat
<1>9. AtMostOne(todo', {"close", "read"})
  <2> DEFINE S == {"close", "read"}
  <2>1. AtMostOne(c \o e, S) /\ (None(c, S) => None(c \o e, S))
    BY <1>4, <1>6, NoneConcat
  <2>2. AtMostOne((c \o e) \o r, S)
    BY <1>4, <1>6, <1>7, <2>1, NoneConcat
  <2> QED
    BY <1>1, <1>4, <1>6, <1>7, <2>2, NoneConcat
<1>10. /\ None(todo', {"close_callback"}) /\ None(todo', {"remove"})
       /\ None(todo', {"disable"})
  BY <1>8
<1>11. TodoInv'
  <2>1. AtMostOne(todo', {"close_callback"})
    BY <1>10, NoneIsOne
  <2> QED
    BY <1>2, <1>3, <1>9, <1>10, <2>1 DEF TodoInv
<1>12. QuietQueue /\ QuietTodo
  BY <1>2, <1>10, QueueSame, NoneEmpty DEF QuietTodo
<1>13. QueueInv'
  BY <1>0, <1>2, <1>12 DEF QueueInv, QuietQueue
<1>14. QuietStep
  BY <1>0, <1>2, <1>3, <1>12 DEF QuietStep, OpenInv, channel, Open
<1>15. Alone'
  BY <1>0, <1>2 DEF Alone, userv, serverv
<1> QED
  BY <1>0, <1>3, <1>11, <1>13, <1>14, <1>15, QuietLife DEF ConnLife

\* SendInLoop on an open connection keeps it registered for reading.
LEMMA SendLife ==
  ASSUME LoopOK, RegistrationInv, OpenInv, fault = "none", state_ \in Open, SendInLoop,
         UNCHANGED functors
  PROVE  "R" \in events_' /\ fault' = "none" /\ QuietQueue
<1>0. "R" \in events_ /\ state_ # "kDisconnected"
  BY DEF OpenInv, Open
<1>1. ASSUME UNCHANGED <<channel, fault>> PROVE "R" \in events_' /\ fault' = "none"
  BY <1>0, <1>1 DEF channel
<1>2. ASSUME EnableWriting, Assert(UpdateAsserts)
      PROVE  "R" \in events_' /\ fault' = "none"
  BY <1>0, <1>2, AssertsHold DEF EnableWriting, UpdateChannel, Assert
<1>3. ASSUME UNCHANGED pending PROVE QuietQueue
  BY <1>3, QueueSame
<1>4. ASSUME NEW c, NEW d,
             pending' = QueueIf(c, QueueIf(d, pending, "WriteComplete"),
                                "HighWatermark")
      PROVE  QuietQueue
  <2>1. /\ "WriteComplete" \in SharedTasks \ LifeTasks
        /\ "HighWatermark" \in SharedTasks \ LifeTasks
    BY DEF SharedTasks, LifeTasks
  <2> QED
    BY <1>4, <2>1, QueueTwo
<1> QED
  BY <1>0, <1>1, <1>2, <1>3, <1>4, Zenon DEF SendInLoop

\* User code on the I/O loop, and the timer of ForceCloseWithDelay.
LEMMA CallLife ==
  ASSUME TypeOK, RegistrationInv, Disciplined, ConnLife,
         DelayExpires \/ \E op \in program.loop_ops : LoopCall(op)
  PROVE  ConnLife'
<1>0. /\ LoopOK /\ ChannelOK /\ fault = "none" /\ QueueInv /\ ConnectingInv /\ OpenInv
      /\ ConnOK /\ \A op \in program.loop_ops : op \in Ops \ {"StopRead"}
  BY TypeParts, ProgramsAssumption DEF ConnLife, Disciplined, ServerOK
<1>q. ASSUME state_ \in Open, state_' \in Open, "R" \in events_', fault' = "none",
             QuietQueue, UNCHANGED <<todo, loop, serverv, userv>>
      PROVE  ConnLife'
  <2>1. QueueInv'
    BY <1>0, <1>q, QueueStays
  <2>2. state_ # "kConnecting"
    BY <1>q DEF Open
  <2> QED
    BY <1>q, <2>1, <2>2, OutsideLife
<1>o. ASSUME UNCHANGED channel, state_ \in Open PROVE "R" \in events_'
  BY <1>0, <1>o DEF OpenInv, channel
<1>f. ASSUME pending' = Append(pending, "ForceCloseInLoop"), UNCHANGED functors
      PROVE  QuietQueue
  <2>1. "ForceCloseInLoop" \in SharedTasks \ LifeTasks
    BY DEF SharedTasks, LifeTasks
  <2>2. pending' = QueueIf(TRUE, pending, "ForceCloseInLoop")
    BY <1>f DEF QueueIf
  <2> QED
    BY <1>0, <1>f, <2>1, <2>2, QueueOne
<1>1. CASE DelayExpires
  <2>1. UNCHANGED <<channel, todo, loop, serverv, userv, fault, functors>>
    BY <1>1 DEF DelayExpires, loop
  <2>2. CASE state_ \in Open /\ ForceCloseBody
    <3>1. state_' \in Open /\ pending' = Append(pending, "ForceCloseInLoop")
      BY <2>2 DEF ForceCloseBody, Open
    <3> QED
      BY <1>0, <1>q, <1>o, <1>f, <2>1, <2>2, <3>1
  <2>3. CASE UNCHANGED <<state_, pending>>
    <3>1. QuietQueue
      BY <2>1, <2>3, QueueSame
    <3>2. revents_ # {} => state_' \in Open
      BY <1>0, <2>3 DEF QueueInv
    <3>3. QueueInv'
      BY <1>0, <2>1, <3>1, <3>2, QueueStays
    <3>4. NoneQueued(Tasks \ {"ConnectEstablished"})
            => NoneQueued(Tasks \ {"ConnectEstablished"})'
      BY <2>1, <2>3 DEF NoneQueued
    <3> QED
      BY <1>0, <1>o, <2>1, <2>3, <3>1, <3>3, <3>4, OutsideLife
  <2> QED
    BY <1>1, <2>2, <2>3 DEF DelayExpires, MayForceClose
<1>2. ASSUME NEW op \in program.loop_ops, LoopCall(op) PROVE ConnLife'
  <2>0. op \in Ops \ {"StopRead"} /\ UNCHANGED <<todo, loop, serverv, userv, functors>>
    BY <1>0, <1>2 DEF LoopCall, loop
  <2>1. CASE op = "Send"
    <3>1. state_ = "kConnected" /\ SendInLoop /\ state_' = state_
      BY <1>2, <2>1 DEF LoopCall, MaySend
    <3>2. state_ \in Open
      BY <3>1 DEF Open
    <3>3. "R" \in events_' /\ fault' = "none" /\ QuietQueue
      BY <1>0, <2>0, <3>1, <3>2, SendLife
    <3> QED
      BY <1>q, <2>0, <3>1, <3>2, <3>3
  <2>2. CASE op \in {"Shutdown", "ForceCloseWithDelay"}
    <3>1. state_ \in Open /\ state_' \in Open /\ UNCHANGED <<channel, pending, fault>>
      BY <1>2, <2>2 DEF LoopCall, MaySend, MayForceClose, Open
    <3>2. QuietQueue
      BY <2>0, <3>1, QueueSame
    <3> QED
      BY <1>0, <1>q, <1>o, <2>0, <3>1, <3>2
  <2>3. CASE op = "ForceClose"
    <3>1. /\ state_ \in Open /\ state_' \in Open /\ UNCHANGED <<channel, fault>>
          /\ pending' = Append(pending, "ForceCloseInLoop")
      BY <1>2, <2>3 DEF LoopCall, MayForceClose, ForceCloseBody, Open
    <3> QED
      BY <1>0, <1>q, <1>o, <1>f, <2>0, <3>1
  <2>4. CASE op = "StartRead"
    <3>1. state_ = "kConnected" /\ StartReadInLoop /\ UNCHANGED <<state_, pending>>
      BY <1>2, <2>4 DEF LoopCall, Disciplined
    <3>2. state_ \in Open /\ "R" \in events_
      BY <1>0, <3>1 DEF Open, OpenInv
    <3>3. "R" \in events_' /\ fault' = "none"
      BY <1>0, <3>1, <3>2, AssertsHold
         DEF StartReadInLoop, UpdateChannel, Assert, channel
    <3>4. QuietQueue
      BY <2>0, <3>1, QueueSame
    <3> QED
      BY <1>q, <2>0, <3>1, <3>2, <3>3, <3>4
  <2> QED
    BY <2>0, <2>1, <2>2, <2>3, <2>4 DEF Ops
<1> QED
  BY <1>1, <1>2

\* TcpServer::NewConnection.
LEMMA NewLife ==
  ASSUME TypeOK, RegistrationInv, Disciplined, ConnLife, NewConnection
  PROVE  ConnLife'
<1>0. /\ LoopOK /\ fault = "none" /\ Alone /\ QueueInv /\ TodoInv /\ ConnectingInv
  BY TypeParts DEF ConnLife
<1>1. /\ server = "idle" /\ server' = "alive" /\ connections_'
      /\ UNCHANGED <<loop, phase, revents_, functors, batch, base_pending, user_call>>
  BY DEF NewConnection, loop
<1>2. /\ state_ = "kConnecting" /\ NoneQueued({"ConnectEstablished"})
      /\ todo = <<>> /\ base_pending = <<>> /\ index_ = "kNew"
      /\ NoneQueued(Tasks \ {"ConnectEstablished"})
  BY <1>0, <1>1 DEF ConnectingInv
<1>3. NoneQueued({"ConnectDestroyed"}) /\ NoneQueued(LifeTasks)
  <2>1. {"ConnectDestroyed"} \subseteq Tasks \ {"ConnectEstablished"}
    BY DEF Tasks, SharedTasks
  <2>2. NoneQueued({"ConnectDestroyed"})
    BY <1>2, <2>1, NoneSub DEF NoneQueued
  <2> QED
    BY <1>2, <2>2 DEF NoneQueued, None, LifeTasks
<1>4. revents_ = {}
  BY <1>0, <1>2 DEF QueueInv, Open
<1>5. CASE IoIsBase
  <2>1. RunTask("ConnectEstablished") /\ phase = "handle"
    BY <1>5 DEF NewConnection
  <2>2. pending' = pending
    BY <2>1 DEF RunTask
  <2>3. NoneQueued(LifeTasks)' /\ QuietQueue
    BY <1>1, <1>3, <2>2, QueueSame DEF NoneQueued
  <2>4. QueueInv'
    BY <1>0, <1>1, <1>4, <2>1, <2>3, QueueStays
  <2> QED
    BY <1>1, <1>2, <2>1, <2>3, <2>4, EstablishLife
<1>6. CASE ~IoIsBase
  <2>1. /\ pending' = Append(pending, "ConnectEstablished")
        /\ UNCHANGED <<state_, channel, todo, user_ref, fault>>
    BY <1>6 DEF NewConnection
  <2>2. "ConnectEstablished" \in LifeTasks
    BY DEF LifeTasks
  <2>3. /\ NoneQueued(RawTasks)' /\ OneQueued(LifeTasks)'
        /\ NoneQueued(Tasks \ {"ConnectEstablished"})'
    <3>1. "ConnectEstablished" \notin Tasks \ {"ConnectEstablished"}
      OBVIOUS
    <3> QED
      BY <1>0, <1>1, <1>2, <1>3, <2>1, <2>2, <3>1, QueueLife
  <2>4. QueueInv'
    BY <1>0, <1>1, <1>4, <2>1, <2>3 DEF QueueInv
  <2>5. TodoInv'
    BY <1>0, <2>1 DEF TodoInv
  <2>6. ConnectingInv'
    BY <1>1, <1>2, <2>1, <2>3 DEF ConnectingInv, channel
  <2>7. OpenInv' /\ ClosedInv'
    BY <1>2, <2>1 DEF OpenInv, ClosedInv, Open
  <2>8. Alone'
    BY <1>0, <1>1, <2>1 DEF Alone
  <2> QED
    BY <1>0, <2>1, <2>4, <2>5, <2>6, <2>7, <2>8 DEF ConnLife
<1> QED
  BY <1>5, <1>6

\* What a Disciplined program does not do.
LEMMA NeverLife ==
  ASSUME TypeOK, Disciplined, ConnLife,
         StepDisable \/ DestroyServer \/ \E u \in Users : UserStep(u)
  PROVE  FALSE
<1>0. Alone /\ TodoInv /\ todo \in Seq(Steps)
  BY TypeParts DEF ConnLife, LoopOK
<1>1. ~StepDisable
  BY <1>0, NoneTail DEF StepDisable, TodoInv
<1>2. ~DestroyServer
  BY DEF DestroyServer, Disciplined
<1>3. ASSUME NEW u \in Users, UserStep(u) PROVE FALSE
  <2>1. user_call[u].op = "none" /\ user_call[u].at = "none" /\ ~user_ref[u]
    BY <1>0 DEF Alone, NoCall
  <2> QED
    BY <1>3, <2>1 DEF UserStep, UserTests, UserSetsState, UserQueues, UserDropsRef
<1> QED
  BY <1>1, <1>2, <1>3

\* The life of the connection, step by step.
LEMMA ConnLifeStep ==
  TypeOK /\ RegistrationInv /\ (Disciplined => ConnLife) /\ [Next]_vars
    => (Disciplined => ConnLife)'
<1> SUFFICES ASSUME TypeOK, RegistrationInv, Disciplined => ConnLife, [Next]_vars,
                    Disciplined'
             PROVE  ConnLife'
  OBVIOUS
<1>1. program' = program
  BY DEF Next, vars
<1>2. Disciplined /\ ConnLife
  BY <1>1 DEF Disciplined
<1>3. CASE UNCHANGED vars
  <2>1. UNCHANGED <<state_, channel, todo, functors, pending, phase, revents_,
                    batch, serverv, userv, fault>>
    BY <1>3 DEF vars, loop
  <2>2. UNCHANGED <<events_, index_, channels_, base_pending, connections_, server,
                    user_call, user_ref>>
    BY <2>1 DEF channel, serverv, userv
  <2>3. QueueInv' /\ TodoInv' /\ Alone'
    BY <1>2, <2>1, <2>2 DEF ConnLife, QueueInv, TodoInv, Alone, NoneQueued, OneQueued
  <2>4. ConnectingInv' /\ OpenInv' /\ ClosedInv'
    BY <1>2, <2>1, <2>2
       DEF ConnLife, ConnectingInv, OpenInv, ClosedInv, NoneQueued
  <2> QED
    BY <1>2, <2>1, <2>3, <2>4 DEF ConnLife
<1>4. CASE Next
  BY <1>2, <1>4, HandlerQuiet, ReadLife, RunLife, RemovalLife, RemoveLife, LoopLife,
     EventLife, CallLife, NewLife, NeverLife DEF Next, IoStep, HandlerStep
<1> QED
  BY <1>3, <1>4

\* While a Disciplined program runs, the connection is before
\* ConnectEstablished, open, or in exactly one place of its teardown, and no
\* functor or event is left behind by a phase it belongs to.
THEOREM ConnLifeHolds == Spec => [](Disciplined => ConnLife)
<1>1. Init => (Disciplined => ConnLife)
  <2> SUFFICES ASSUME Init PROVE ConnLife
    OBVIOUS
  <2>1. \A S : None(todo, S) /\ AtMostOne(todo, S) /\ NoneQueued(S) /\ OneQueued(S)
    BY NoneEmpty DEF Init, NoneQueued, OneQueued
  <2>2. QueueInv
    BY <2>1 DEF Init, QueueInv
  <2>3. TodoInv
    BY <2>1 DEF TodoInv
  <2>4. ConnectingInv /\ OpenInv /\ ClosedInv
    BY <2>1 DEF Init, ConnectingInv, OpenInv, ClosedInv, Open
  <2>5. Alone /\ fault = "none"
    BY DEF Init, Alone
  <2> QED
    BY <2>2, <2>3, <2>4, <2>5 DEF ConnLife
<1> QED
  BY <1>1, ConnLifeStep, TypeCorrect, RegistrationHolds, PTL DEF Spec

\* A program that uses the connection on its I/O loop only never fails an
\* assert of HandleClose, UpdateChannel or RemoveChannel and never reaches a
\* destroyed connection or server: for any number of calls, events and
\* functors, and whatever the peer does.
THEOREM NoFaultHolds == Spec => []NoFault
<1>1. (Disciplined => ConnLife) => NoFault
  BY DEF ConnLife, NoFault
<1> QED
  BY <1>1, ConnLifeHolds, PTL

-----------------------------------------------------------------------------
(* Output and shutdown.                                                    *)

\* The strengthening of OutputInv: EPOLLOUT is asked for exactly while an open
\* connection has output, and the write side is shut only after Shutdown.
WriteInv ==
  /\ state_ \in Open => (output_buffer_ # <<>> <=> "W" \in events_)
  /\ state_ \notin Open => "W" \notin events_
  /\ write_shut =>
       output_buffer_ = <<>> /\ state_ \in {"kDisconnecting", "kDisconnected"}
  /\ state_ = "kConnecting" => output_buffer_ = <<>>
  /\ ~late_write

\* A step that leaves the output alone.
LEMMA WriteSame ==
  ASSUME WriteInv, UNCHANGED stream, "W" \in events_' <=> "W" \in events_,
         state_' = state_ \/ (state_ \in Open /\ state_' = "kDisconnecting")
  PROVE  WriteInv'
BY DEF WriteInv, stream, Open

\* SendInLoop of a connected connection.
LEMMA SendWrites ==
  ASSUME StreamOK, WriteInv, state_ = "kConnected", SendInLoop, state_' = state_
  PROVE  WriteInv'
<1>0. /\ ~write_shut /\ ~late_write /\ (output_buffer_ # <<>> <=> IsWriting)
      /\ state_ \in Open /\ output_buffer_ \in Seq(Nat) /\ sent \in Nat
  BY DEF WriteInv, Open, IsWriting, StreamOK
<1>w. ASSUME output_buffer_' # <<>> <=> "W" \in events_',
             ~write_shut', ~late_write'
      PROVE  WriteInv'
  BY <1>0, <1>w DEF WriteInv, Open
<1>1. CASE /\ late_write' = (late_write \/ write_shut)
           /\ UNCHANGED <<output_buffer_, write_shut, channel>>
  BY <1>0, <1>1, <1>w DEF channel, IsWriting
<1>2. ASSUME NEW n \in 0..2,
             IF MayWriteDirectly THEN ~WriteFails ELSE n = 0,
             output_buffer_' = output_buffer_ \o SubSeq(NextMessage, n + 1, 2),
             IF n < 2 /\ ~IsWriting THEN EnableWriting ELSE UNCHANGED channel,
             UNCHANGED <<write_shut, late_write>>
      PROVE  WriteInv'
  <2>1. /\ SubSeq(NextMessage, n + 1, 2) \in Seq(Nat)
        /\ Len(SubSeq(NextMessage, n + 1, 2)) = 2 - n
    BY <1>0, MessageParts
  <2>2. /\ output_buffer_' \in Seq(Nat)
        /\ Len(output_buffer_') = Len(output_buffer_) + (2 - n)
        /\ Len(output_buffer_) \in Nat
    <3>1. Len(output_buffer_ \o SubSeq(NextMessage, n + 1, 2))
            = Len(output_buffer_) + Len(SubSeq(NextMessage, n + 1, 2))
          /\ output_buffer_ \o SubSeq(NextMessage, n + 1, 2) \in Seq(Nat)
      BY <1>0, <2>1, ConcatProperties
    <3> QED
      BY <1>0, <1>2, <2>1, <3>1, LenProperties
  <2>3. /\ output_buffer_ = <<>> <=> Len(output_buffer_) = 0
        /\ output_buffer_' = <<>> <=> Len(output_buffer_') = 0
    BY <1>0, <2>2, EmptySeq
  <2>4. output_buffer_' # <<>> <=> n < 2 \/ IsWriting
    BY <1>0, <2>2, <2>3
  <2>5. "W" \in events_' <=> n < 2 \/ IsWriting
    <3>1. CASE n < 2 /\ ~IsWriting
      BY <1>2, <3>1 DEF EnableWriting, UpdateChannel
    <3>2. CASE ~(n < 2) \/ IsWriting
      <4>1. n < 2 => IsWriting
        BY <3>2
      <4> QED
        BY <1>2, <3>2, <4>1 DEF channel, IsWriting
    <3> QED
      BY <3>1, <3>2
  <2> QED
    BY <1>0, <1>2, <1>w, <2>4, <2>5
<1> QED
  <2>1. state_ # "kDisconnected"
    OBVIOUS
  <2> QED
    BY <1>1, <1>2, <2>1, Zenon DEF SendInLoop

\* HandleWrite.
LEMMA HandleWriteWrites ==
  ASSUME TypeOK, ConnLife, WriteInv, StepWrite
  PROVE  WriteInv'
<1>0. /\ output_buffer_ \in Seq(Nat) /\ OpenInv /\ ClosedInv /\ ConnOK
      /\ state_' = state_
  BY TypeParts DEF StreamOK, ConnLife, StepWrite
<1>1. IsWriting => state_ \in Open /\ output_buffer_ # <<>> /\ ~write_shut
  BY DEF IsWriting, WriteInv
<1>2. CASE /\ late_write' = (late_write \/ (IsWriting /\ write_shut))
           /\ UNCHANGED <<output_buffer_, write_shut, channel>>
  BY <1>0, <1>1, <1>2 DEF WriteInv, channel
<1>3. ASSUME NEW n \in 1..Len(output_buffer_), IsWriting,
             output_buffer_' =
               SubSeq(output_buffer_, n + 1, Len(output_buffer_)),
             IF n = Len(output_buffer_)
               THEN /\ UpdateChannel(events_ \ {"W"})
                    /\ IF state_ = "kDisconnecting" THEN ShutdownInLoop(FALSE)
                                                   ELSE UNCHANGED write_shut
               ELSE UNCHANGED <<channel, write_shut>>,
             UNCHANGED late_write
      PROVE  WriteInv'
  <2>0. state_ \in Open /\ ~write_shut /\ ~late_write /\ Len(output_buffer_) \in Nat
    BY <1>0, <1>1, <1>3, LenProperties DEF WriteInv
  <2>1. CASE n = Len(output_buffer_)
    <3>1. output_buffer_' = <<>>
      BY <1>3, <2>0, <2>1, SubSeqEmpty
    <3>2. "W" \notin events_'
      BY <1>3, <2>1 DEF UpdateChannel
    <3>3. write_shut' => state_ = "kDisconnecting"
      BY <1>3, <2>0, <2>1
    <3> QED
      BY <1>0, <1>3, <2>0, <3>1, <3>2, <3>3 DEF WriteInv, Open
  <2>2. CASE n # Len(output_buffer_)
    <3>1. output_buffer_' # <<>>
      <4>1. \A i \in (n + 1)..Len(output_buffer_) : output_buffer_[i] \in Nat
        BY <1>0, ElementOfSeq
      <4>2. Len(output_buffer_') = Len(output_buffer_) - n
        BY <1>3, <2>0, <2>2, <4>1, SubSeqProperties
      <4>3. Len(output_buffer_') # 0
        BY <2>0, <2>2, <4>2
      <4> QED
        BY <4>3
    <3>2. "W" \in events_' /\ ~write_shut'
      BY <1>3, <2>0, <2>2 DEF channel, IsWriting
    <3> QED
      BY <1>0, <1>3, <2>0, <3>1, <3>2 DEF WriteInv, Open
  <2> QED
    BY <2>1, <2>2
<1> QED
  BY <1>2, <1>3, Zenon DEF StepWrite

\* Every step of a Disciplined program keeps WriteInv.
LEMMA WriteStep ==
  ASSUME TypeOK, Disciplined, ConnLife, WriteInv, Next
  PROVE  WriteInv'
<1>0. /\ StreamOK /\ ConnOK /\ ChannelOK /\ OpenInv /\ ClosedInv /\ ConnectingInv
      /\ fault = "none" /\ functors \in Seq(Tasks)
      /\ \A op \in program.loop_ops : op \in Ops \ {"StopRead"}
  BY TypeParts, ProgramsAssumption DEF ConnLife, Disciplined, ServerOK, LoopOK
<1>c. ASSUME NEW rest, HandleClose(rest), UNCHANGED stream, state_ \in Open
      PROVE  WriteInv'
  <2>1. state_' = "kDisconnected" /\ events_' = {}
    BY <1>c DEF HandleClose, UpdateChannel
  <2>2. UNCHANGED <<output_buffer_, write_shut, late_write>>
    BY <1>c DEF stream
  <2> QED
    BY <2>1, <2>2 DEF WriteInv, Open
<1>e. ASSUME RunTask("ConnectEstablished"), state_ = "kConnecting" PROVE WriteInv'
  <2>1. /\ state_' = "kConnected" /\ events_' = {"R"} /\ UNCHANGED stream
    BY <1>e DEF RunTask, UpdateChannel
  <2>2. UNCHANGED <<output_buffer_, write_shut, late_write>>
    BY <2>1 DEF stream
  <2>3. output_buffer_ = <<>> /\ ~write_shut /\ ~late_write
    BY <1>e DEF WriteInv
  <2> QED
    BY <2>1, <2>2, <2>3 DEF WriteInv, Open
<1>s. ASSUME UNCHANGED <<stream, channel, state_>> PROVE WriteInv'
  BY <1>s, WriteSame DEF channel
<1>1. CASE StepClose \/ StepRead
  <2>1. state_ \in Open
    <3>1. todo # <<>> /\ Head(todo) \in {"close", "read"} /\ todo \in Seq(Steps)
      BY <1>1, TypeParts DEF StepClose, StepRead, LoopOK
    <3> QED
      BY <3>1, NoneTail DEF ConnLife, TodoInv
  <2>2. HandleClose(Tail(todo)) \/ UNCHANGED <<channel, state_>>
    BY <1>1 DEF StepClose, StepRead
  <2>3. UNCHANGED stream
    BY <1>1 DEF StepClose, StepRead
  <2> QED
    BY <1>c, <1>s, <2>1, <2>2, <2>3
<1>2. CASE StepWrite
  BY <1>2, HandleWriteWrites
<1>3. CASE StepRemove
  BY <1>3, WriteSame DEF StepRemove, RemoveChannel
<1>4. CASE RunFunctor
  <2>1. /\ RunTask(Head(functors)) /\ Head(functors) \in SharedTasks
        /\ functors # <<>>
    BY <1>4, RunQueue DEF RunFunctor
  <2>2. CASE Head(functors) = "ConnectEstablished"
    <3>1. ~NoneQueued({"ConnectEstablished"})
      BY <1>0, <2>1, <2>2, NoneTail DEF NoneQueued
    <3>2. state_ = "kConnecting"
      BY <1>0, <3>1 DEF ConnectingInv
    <3> QED
      BY <1>e, <2>1, <2>2, <3>2
  <2>3. CASE Head(functors) = "ForceCloseInLoop"
    <3>1. UNCHANGED stream /\ ForceCloseInLoop
      BY <2>1, <2>3 DEF RunTask
    <3> QED
      BY <1>c, <1>s, <3>1 DEF ForceCloseInLoop
  <2>4. CASE Head(functors) \in {"ConnectDestroyed", "WriteComplete", "HighWatermark"}
    BY <1>s, <2>1, <2>4 DEF RunTask
  <2> QED
    BY <2>1, <2>2, <2>3, <2>4 DEF SharedTasks
<1>5. CASE NewConnection
  <2>1. state_ = "kConnecting"
    BY <1>0, <1>5 DEF NewConnection, ConnectingInv
  <2>2. RunTask("ConnectEstablished") \/ UNCHANGED <<stream, channel, state_>>
    BY <1>5 DEF NewConnection
  <2> QED
    BY <1>e, <1>s, <2>1, <2>2
<1>6. CASE \/ Poll \/ HandleEvent \/ StepError \/ StepCallback \/ StepCloseCallback
           \/ SwapPending \/ PendingDone \/ RemoveConnectionInLoop
           \/ PeerSends \/ PeerCloses \/ PeerAborts
  BY <1>6, <1>s DEF Poll, HandleEvent, StepError, StepCallback, StepCloseCallback,
       SwapPending, PendingDone, RemoveConnectionInLoop, PeerSends, PeerCloses,
       PeerAborts
<1>7. CASE DelayExpires
  <2>1. /\ UNCHANGED <<stream, channel>>
        /\ state_' = state_ \/ (state_ \in Open /\ state_' = "kDisconnecting")
    BY <1>7 DEF DelayExpires, MayForceClose, ForceCloseBody
  <2> QED
    BY <2>1, WriteSame DEF channel
<1>8. ASSUME NEW op \in program.loop_ops, LoopCall(op) PROVE WriteInv'
  <2>0. op \in Ops \ {"StopRead"}
    BY <1>0
  <2>1. CASE op = "Send"
    BY <1>0, <1>8, <2>1, SendWrites DEF LoopCall, MaySend
  <2>2. CASE op = "Shutdown"
    <3>1. /\ state_ = "kConnected" /\ state_' = "kDisconnecting"
          /\ write_shut' = IF IsWriting THEN write_shut ELSE TRUE
          /\ UNCHANGED <<channel, output_buffer_, late_write>>
      BY <1>8, <2>2 DEF LoopCall, MaySend, ShutdownInLoop
    <3>2. output_buffer_ # <<>> <=> IsWriting
      BY <3>1 DEF WriteInv, IsWriting, Open
    <3> QED
      BY <3>1, <3>2 DEF WriteInv, IsWriting, Open, channel
  <2>3. CASE op \in {"ForceClose", "ForceCloseWithDelay"}
    <3>1. /\ UNCHANGED <<stream, channel>>
          /\ state_ \in Open /\ state_' = "kDisconnecting"
      BY <1>8, <2>3 DEF LoopCall, MayForceClose, ForceCloseBody
    <3> QED
      BY <3>1, WriteSame DEF channel
  <2>4. CASE op = "StartRead"
    <3>1. StartReadInLoop /\ UNCHANGED <<state_, stream>>
      BY <1>8, <2>4 DEF LoopCall
    <3>2. "W" \in events_' <=> "W" \in events_
      BY <3>1 DEF StartReadInLoop, UpdateChannel, channel
    <3> QED
      BY <3>1, <3>2, WriteSame
  <2> QED
    BY <2>0, <2>1, <2>2, <2>3, <2>4 DEF Ops
<1> QED
  BY <1>1, <1>2, <1>3, <1>4, <1>5, <1>6, <1>7, <1>8, NeverLife
     DEF Next, IoStep, HandlerStep

\* For a program that uses the connection on its I/O loop only: buffered output
\* always has EPOLLOUT asked for, the write side is shut only when the kernel
\* has everything that was sent, and nothing is written after it.
THEOREM OutputInvHolds == Spec => []OutputInv
<1>1. Init => (Disciplined => WriteInv)
  BY DEF Init, WriteInv, Open
<1>2. /\ TypeOK /\ (Disciplined => ConnLife) /\ (Disciplined => WriteInv)
      /\ [Next]_vars
      => (Disciplined => WriteInv)'
  <2> SUFFICES ASSUME TypeOK, Disciplined => ConnLife, Disciplined => WriteInv,
                      [Next]_vars, Disciplined'
               PROVE  WriteInv'
    OBVIOUS
  <2>1. program' = program
    BY DEF Next, vars
  <2>2. Disciplined /\ ConnLife /\ WriteInv
    BY <2>1 DEF Disciplined
  <2>3. CASE UNCHANGED vars
    BY <2>2, <2>3, WriteSame DEF vars, channel
  <2> QED
    BY <2>2, <2>3, WriteStep
<1>3. RegistrationInv /\ (Disciplined => ConnLife) /\ (Disciplined => WriteInv)
        => OutputInv
  BY DEF RegistrationInv, ConnLife, OpenInv, WriteInv, OutputInv
<1> QED
  BY <1>1, <1>2, <1>3, TypeCorrect, RegistrationHolds, ConnLifeHolds, PTL DEF Spec
=============================================================================
