---------------------------- MODULE TcpConnection ----------------------------
(***************************************************************************)
(* The life of one TcpConnection (tcp_connection/tcp_connection.cc) between *)
(* its three parties:                                                      *)
(*   - the I/O loop, where its Channel (net/channel.cc) is registered with *)
(*     the EpollPoller (net/epoll_poller.cc) and all its handlers run;     *)
(*   - TcpServer (tcp_connection/tcp_server.cc) on the base loop, which    *)
(*     creates it, keeps it in connections_ and removes it; the base loop  *)
(*     is the I/O loop itself when the server has no threads;              *)
(*   - user threads that hold a TcpConnectionPtr and call its public       *)
(*     operations from outside the I/O loop.                               *)
(*                                                                         *)
(* The loops are the FIFO of functors that FunctorQueue specifies and      *)
(* EventLoop implements.  The I/O loop keeps its phases: Poll, the active  *)
(* channels, then the batch of functors taken by the swap.  A handler is   *)
(* one step up to the user callback it makes; the callback is a step       *)
(* during which user code on the I/O thread may call the connection, and   *)
(* what the handler does afterwards follows from todo.  A call from a user *)
(* thread is cut at each access to the shared state_ and to the queue.     *)
(*                                                                         *)
(* Payload is abstracted to numbered chunks; the peer sends data, closes   *)
(* (FIN) or resets.  A failed assert ends the process, as in the build     *)
(* (no NDEBUG).                                                            *)
(***************************************************************************)
EXTENDS Naturals, Sequences, FiniteSets

CONSTANTS
  Users,          \* threads other than the I/O loop's that hold the pointer
  Programs,       \* what the program around the connection may do with it
  MaxArrivals,    \* bound: chunks the peer sends
  HighWatermark,  \* high_watermark_, in chunks
  HasCallbacks,   \* are the write-complete and high-watermark callbacks set?
  IoLoops,        \* where the I/O loop may be: "base" (no sub-threads, it is the
                  \* server's loop) or "sub" (a thread of the pool)
  PeerResets      \* may the peer reset the connection?

Ops == {"Send", "Shutdown", "ForceClose", "ForceCloseWithDelay",
        "StartRead", "StopRead"}

\* A program: the operations its code calls on the I/O loop thread and on other
\* threads; the phases of the base loop in which it may destroy the TcpServer
\* ("handle": another channel's callback, "run": a functor, or after Loop() has
\* returned); does it call StartRead and StopRead only while Connected()?; and,
\* a bound, how many calls it makes.
ASSUME ProgramsAssumption ==
  \A p \in Programs :
    /\ DOMAIN p = {"loop_ops", "cross_ops", "server_dies", "careful", "calls"}
    /\ p.loop_ops \subseteq Ops /\ p.cross_ops \subseteq Ops
    /\ p.server_dies \subseteq {"handle", "run"}
    /\ p.careful \in BOOLEAN /\ p.calls \in Nat
ASSUME BoundsAssumption == MaxArrivals \in Nat /\ HighWatermark \in Nat \ {0}
ASSUME SwitchesAssumption ==
  {HasCallbacks, PeerResets} \subseteq BOOLEAN /\ IoLoops \subseteq {"base", "sub"}

VARIABLES
  program,               \* which program it is
  io_loop,               \* GetNextLoop's choice, fixed for the connection
  state_, reading_,
  events_, index_,       \* Channel: the events it wants, its EpollPoller index
  channels_,             \* is the channel in EpollPoller::channels_?
  epoll,                 \* is its fd in the epoll set ...
  epoll_mask,            \* ... and with which events?
  output_buffer_,        \* chunks waiting to be written
  wire,                  \* chunks the kernel accepted from write()
  sent,                  \* chunks SendInLoop took: written or buffered
  write_shut,            \* ShutdownWrite() was called
  late_write,            \* write() was called on the socket after that
  peer,                  \* what the kernel holds from the peer
  phase,                 \* I/O loop: "poll", "handle" or "run"
  revents_,              \* events Poll() reported and not handled yet
  todo,                  \* what the I/O thread still does for this connection
  pending, functors,     \* I/O loop: pending_functors_ and the swapped batch
  batch,                 \* functors of the batch, alive until its end
  base_pending,          \* the base loop's pending functors
  connections_,          \* is the connection in TcpServer::connections_?
  server,                \* "idle": before NewConnection, "alive", "dead"
  delayed,               \* is a ForceCloseWithDelay timer running?
  user_call,             \* per user thread: the call it is in, and how far
  user_ref,              \* does the user thread hold a TcpConnectionPtr?
  calls, arrivals,       \* bookkeeping of the bounds
  fault                  \* "none", or what ended the process

channel == <<events_, index_, channels_, epoll, epoll_mask>>
stream  == <<output_buffer_, wire, sent, write_shut, late_write>>
loop    == <<phase, revents_, functors, batch>>
serverv == <<base_pending, connections_, server>>
userv   == <<user_call, user_ref>>
bounds  == <<calls, arrivals>>
vars == <<program, io_loop, state_, reading_, channel, stream, peer, loop, todo,
          pending, serverv, delayed, userv, bounds, fault>>

States == {"kDisconnected", "kConnecting", "kConnected", "kDisconnecting"}
Open   == {"kConnected", "kDisconnecting"}

IoIsBase == io_loop = "base"

\* Functors bound to shared_from_this(), and those bound to the raw this.
SharedTasks == {"ConnectEstablished", "ConnectDestroyed", "ForceCloseInLoop",
                "WriteComplete", "HighWatermark"}
RawTasks    == {"SendInLoop", "ShutdownInLoop", "StartReadInLoop",
                "StopReadInLoop"}
Tasks       == SharedTasks \cup RawTasks

TaskOf == [Send |-> "SendInLoop", Shutdown |-> "ShutdownInLoop",
           ForceClose |-> "ForceCloseInLoop", StartRead |-> "StartReadInLoop",
           StopRead |-> "StopReadInLoop"]

\* What is left of the current handler or functor on the I/O thread.
Steps == {"close", "error", "read", "write", "callback", "close_callback",
          "disable", "remove"}

NoCall == [op |-> "none", at |-> "none"]
UserCalls == [op : Ops, at : {"checked", "set"}] \cup {NoCall}

\* Type invariant.
TypeOK ==
  /\ program \in Programs /\ io_loop \in IoLoops
  /\ state_ \in States /\ reading_ \in BOOLEAN
  /\ events_ \subseteq {"R", "W"} /\ epoll_mask \subseteq {"R", "W"}
  /\ index_ \in {"kNew", "kAdded", "kDeleted"}
  /\ channels_ \in BOOLEAN /\ epoll \in BOOLEAN
  /\ output_buffer_ \in Seq(Nat) /\ wire \in Seq(Nat) /\ sent \in Nat
  /\ write_shut \in BOOLEAN /\ late_write \in BOOLEAN
  /\ peer \in [data : Nat, fin : BOOLEAN, rst : BOOLEAN, so_error : BOOLEAN]
  /\ phase \in {"poll", "handle", "run"}
  /\ revents_ \subseteq {"HUP", "ERR", "IN", "OUT"}
  /\ todo \in Seq(Steps)
  /\ pending \in Seq(Tasks) /\ functors \in Seq(Tasks) /\ batch \subseteq Tasks
  /\ base_pending \in Seq({"RemoveConnectionInLoop"})
  /\ connections_ \in BOOLEAN /\ server \in {"idle", "alive", "dead"}
  /\ delayed \in BOOLEAN
  /\ user_call \in [Users -> UserCalls] /\ user_ref \in [Users -> BOOLEAN]
  /\ calls \in 0..program.calls /\ arrivals \in 0..MaxArrivals
  /\ fault \in {"none", "assert", "use_after_free"}

Init ==
  /\ program \in Programs /\ io_loop \in IoLoops
  /\ state_ = "kConnecting" /\ reading_ = TRUE
  /\ events_ = {} /\ index_ = "kNew" /\ channels_ = FALSE
  /\ epoll = FALSE /\ epoll_mask = {}
  /\ output_buffer_ = <<>> /\ wire = <<>> /\ sent = 0
  /\ write_shut = FALSE /\ late_write = FALSE
  /\ peer = [data |-> 0, fin |-> FALSE, rst |-> FALSE, so_error |-> FALSE]
  /\ phase = "poll" /\ revents_ = {} /\ todo = <<>>
  /\ pending = <<>> /\ functors = <<>> /\ batch = {}
  /\ base_pending = <<>> /\ connections_ = FALSE /\ server = "idle"
  /\ delayed = FALSE
  /\ user_call = [u \in Users |-> NoCall]
  /\ user_ref = [u \in Users |-> FALSE]
  /\ calls = 0 /\ arrivals = 0
  /\ fault = "none"

-----------------------------------------------------------------------------
(* Channel and EpollPoller.                                                *)

\* The asserts of EpollPoller::UpdateChannel.
UpdateAsserts == IF index_ = "kNew" THEN ~channels_ ELSE channels_

\* Mutant: clearing the events forgets EPOLL_CTL_DEL.
UpdateChannelNoDel(ev) ==
  /\ events_' = ev
  /\ IF index_ \in {"kNew", "kDeleted"}
       THEN /\ channels_' = TRUE /\ index_' = "kAdded"
            /\ epoll' = TRUE /\ epoll_mask' = ev
       ELSE /\ index_' = IF ev = {} THEN "kDeleted" ELSE index_
            /\ epoll_mask' = IF ev = {} THEN epoll_mask ELSE ev
            /\ UNCHANGED <<channels_, epoll>>

\* Channel::Enable*/Disable*: set events_, then Update() => UpdateChannel.
UpdateChannel(ev) ==
  /\ events_' = ev
  /\ IF index_ \in {"kNew", "kDeleted"}
       THEN /\ channels_' = TRUE /\ index_' = "kAdded"
            /\ epoll' = TRUE /\ epoll_mask' = ev
       ELSE /\ index_' = IF ev = {} THEN "kDeleted" ELSE index_
            /\ epoll' = (ev # {}) /\ epoll_mask' = ev
            /\ UNCHANGED channels_

\* The asserts of EpollPoller::RemoveChannel.
RemoveAsserts == channels_ /\ events_ = {} /\ index_ \in {"kAdded", "kDeleted"}

\* Channel::Remove => EpollPoller::RemoveChannel.
RemoveChannel ==
  /\ channels_' = FALSE /\ index_' = "kNew"
  /\ epoll' = (epoll /\ index_ # "kAdded")
  /\ UNCHANGED <<events_, epoll_mask>>

IsWriting == "W" \in events_
IsReading == "R" \in events_

\* Mutant: the events are not enabled.
EnableWritingForgotten == UNCHANGED channel

EnableWriting == UpdateChannel(events_ \cup {"W"})

\* assert(ok)
Assert(ok) == fault' = IF ok THEN "none" ELSE "assert"

\* Is the object alive: does anybody still hold a TcpConnectionPtr?
Alive ==
  \/ connections_ \/ todo # <<>> \/ base_pending # <<>>
  \/ \E u \in Users : user_ref[u]
  \/ batch \cap SharedTasks # {}
  \/ \E i \in DOMAIN pending : pending[i] \in SharedTasks

-----------------------------------------------------------------------------
(* The bodies of the handlers.  Each says what it does to state_, channel,  *)
(* stream, pending and fault.                                              *)

QueueIf(cond, q, t) == IF cond THEN Append(q, t) ELSE q

\* ::write on the socket: either it fails with EPIPE or ECONNRESET, or the
\* kernel takes n chunks (0: EWOULDBLOCK).
WriteFails == write_shut \/ peer.rst

\* The chunks of the next message; a message has two.
NextMessage == <<sent + 1, sent + 2>>

\* Mutant: write directly although older output is buffered.
MayWriteDirectlyAlways == TRUE

MayWriteDirectly == ~IsWriting /\ output_buffer_ = <<>>

\* SendInLoop
SendInLoop ==
  IF state_ = "kDisconnected"
    THEN UNCHANGED <<stream, channel, pending, fault>>
    ELSE LET old == Len(output_buffer_)
         IN \/ \* the direct write fails for good: the message is dropped
               /\ MayWriteDirectly /\ WriteFails
               /\ late_write' = (late_write \/ write_shut)
               /\ UNCHANGED <<output_buffer_, wire, sent, write_shut, channel,
                              pending, fault>>
            \/ \E n \in 0..2 :
                 /\ IF MayWriteDirectly THEN ~WriteFails ELSE n = 0
                 /\ wire' = wire \o SubSeq(NextMessage, 1, n)
                 /\ output_buffer_' =
                      output_buffer_ \o SubSeq(NextMessage, n + 1, 2)
                 /\ sent' = sent + 2
                 /\ pending' =
                      QueueIf(HasCallbacks /\ old < HighWatermark
                                /\ n < 2 /\ old + 2 - n >= HighWatermark,
                        QueueIf(HasCallbacks /\ n = 2, pending,
                          "WriteComplete"),
                        "HighWatermark")
                 /\ IF n < 2 /\ ~IsWriting
                      THEN EnableWriting /\ Assert(UpdateAsserts)
                      ELSE UNCHANGED <<channel, fault>>
                 /\ UNCHANGED <<write_shut, late_write>>

\* ShutdownInLoop
ShutdownInLoop(writing) ==
  write_shut' = IF writing THEN write_shut ELSE TRUE

\* StartReadInLoop and StopReadInLoop
StartReadInLoop ==
  IF ~reading_ \/ ~IsReading
    THEN /\ UpdateChannel(events_ \cup {"R"}) /\ Assert(UpdateAsserts)
         /\ reading_' = TRUE
    ELSE UNCHANGED <<channel, reading_, fault>>

StopReadInLoop ==
  IF reading_ \/ IsReading
    THEN /\ UpdateChannel(events_ \ {"R"}) /\ Assert(UpdateAsserts)
         /\ reading_' = FALSE
    ELSE UNCHANGED <<channel, reading_, fault>>

\* HandleClose up to connection_callback_; close_callback_ follows in todo.
HandleClose(rest) ==
  /\ Assert(state_ \in Open /\ UpdateAsserts)
  /\ state_' = "kDisconnected"
  /\ UpdateChannel({})
  /\ todo' = <<"callback", "close_callback">> \o rest

\* Mutant: no test of state_.
ForceCloseInLoopUnchecked == HandleClose(<<>>)

ForceCloseInLoop ==
  IF state_ \in Open THEN HandleClose(<<>>)
                     ELSE UNCHANGED <<state_, channel, todo, fault>>

-----------------------------------------------------------------------------
(* The I/O loop.                                                           *)

\* What epoll_wait would report for the socket.  Writability is up to the
\* kernel; ~TcpConnection closes the fd, which leaves the epoll set with it.
Reports(writable) ==
  LET avail == (IF peer.data > 0 \/ peer.fin \/ peer.rst THEN {"IN"} ELSE {})
               \cup (IF peer.rst \/ (peer.fin /\ write_shut) THEN {"HUP"} ELSE {})
               \cup (IF peer.so_error THEN {"ERR"} ELSE {})
               \cup (IF writable THEN {"OUT"} ELSE {})
      asked == {"HUP", "ERR"} \cup (IF "R" \in epoll_mask THEN {"IN"} ELSE {})
               \cup (IF "W" \in epoll_mask THEN {"OUT"} ELSE {})
  IN IF epoll /\ Alive THEN avail \cap asked ELSE {}

\* EpollPoller::Poll and FillActiveChannels: the channel's revents_ are set.
Poll ==
  /\ phase = "poll"
  /\ \E writable \in BOOLEAN : revents_' = Reports(writable)
  /\ phase' = "handle"
  /\ UNCHANGED <<state_, reading_, channel, stream, peer, functors, batch, todo,
                 pending, serverv, delayed, userv, bounds, fault>>

\* Channel::HandleEvent: tie_.lock() reads the Channel, which the connection
\* owns; HandleEventWithGuard then makes up to four callbacks in this order.
HandleEvent ==
  /\ phase = "handle" /\ todo = <<>> /\ revents_ # {}
  /\ fault' = IF Alive THEN "none" ELSE "use_after_free"
  /\ todo' = LET has(cond, s) == IF cond THEN <<s>> ELSE <<>>
             IN has("HUP" \in revents_ /\ "IN" \notin revents_, "close")
                \o has("ERR" \in revents_, "error")
                \o has("IN" \in revents_, "read")
                \o has("OUT" \in revents_, "write")
  /\ revents_' = {}
  /\ UNCHANGED <<state_, reading_, channel, stream, peer, phase, functors,
                 batch, pending, serverv, delayed, userv, bounds>>

\* close_callback_ of the Channel.
StepClose ==
  /\ todo # <<>> /\ Head(todo) = "close"
  /\ HandleClose(Tail(todo))
  /\ UNCHANGED <<reading_, stream, peer, loop, pending, serverv, delayed, userv,
                 bounds>>

\* error_callback_: HandleError reads SO_ERROR, which clears it, and logs.
StepError ==
  /\ todo # <<>> /\ Head(todo) = "error"
  /\ peer' = [peer EXCEPT !.so_error = FALSE]
  /\ todo' = Tail(todo)
  /\ UNCHANGED <<state_, reading_, channel, stream, loop, pending, serverv,
                 delayed, userv, bounds, fault>>

\* Mutant: an orderly close is not taken for the end of the stream.
EndOfStreamResetOnly == peer.rst

\* read() would return 0 once the data is drained.
EndOfStream == peer.fin \/ peer.rst

\* read_callback_: HandleRead.
StepRead ==
  /\ todo # <<>> /\ Head(todo) = "read"
  /\ \/ \* n > 0: message_callback_
        /\ peer.data > 0
        /\ peer' = [peer EXCEPT !.data = 0]
        /\ todo' = <<"callback">> \o Tail(todo)
        /\ UNCHANGED <<state_, channel, fault>>
     \/ \* n = 0: the peer has closed
        /\ peer.data = 0 /\ ~peer.so_error /\ EndOfStream
        /\ HandleClose(Tail(todo))
        /\ UNCHANGED peer
     \/ \* n < 0: HandleError
        /\ peer.data = 0 /\ (peer.so_error \/ ~EndOfStream)
        /\ peer' = [peer EXCEPT !.so_error = FALSE]
        /\ todo' = Tail(todo)
        /\ UNCHANGED <<state_, channel, fault>>
  /\ UNCHANGED <<reading_, stream, loop, pending, serverv, delayed, userv,
                 bounds>>

\* write_callback_: HandleWrite.
StepWrite ==
  /\ todo # <<>> /\ Head(todo) = "write"
  /\ todo' = Tail(todo)
  /\ \/ \* not writing any more, or WriteFd failed: logged only
        /\ ~IsWriting \/ WriteFails \/ output_buffer_ = <<>>
        /\ late_write' = (late_write \/ (IsWriting /\ write_shut))
        /\ UNCHANGED <<output_buffer_, wire, write_shut, channel, pending, fault>>
     \/ \E n \in 1..Len(output_buffer_) :
          /\ IsWriting /\ ~WriteFails
          /\ wire' = wire \o SubSeq(output_buffer_, 1, n)
          /\ output_buffer_' =
               SubSeq(output_buffer_, n + 1, Len(output_buffer_))
          /\ IF n = Len(output_buffer_)
               THEN /\ UpdateChannel(events_ \ {"W"}) /\ Assert(UpdateAsserts)
                    /\ pending' = QueueIf(HasCallbacks, pending, "WriteComplete")
                    /\ IF state_ = "kDisconnecting" THEN ShutdownInLoop(FALSE)
                                                   ELSE UNCHANGED write_shut
               ELSE UNCHANGED <<channel, pending, write_shut, fault>>
          /\ UNCHANGED late_write
  /\ UNCHANGED <<state_, reading_, sent, peer, loop, serverv, delayed, userv,
                 bounds>>

\* The user callback returns.
StepCallback ==
  /\ todo # <<>> /\ Head(todo) = "callback"
  /\ todo' = Tail(todo)
  /\ UNCHANGED <<state_, reading_, channel, stream, peer, loop, pending,
                 serverv, delayed, userv, bounds, fault>>

\* close_callback_ of the connection: TcpServer::RemoveConnection, which runs
\* RemoveConnectionInLoop in place when the I/O loop is the base loop.
StepCloseCallback ==
  /\ todo # <<>> /\ Head(todo) = "close_callback"
  /\ todo' = Tail(todo)
  /\ IF IoIsBase
       THEN /\ connections_' = FALSE
            /\ pending' = Append(pending, "ConnectDestroyed")
            /\ fault' = IF server = "dead" THEN "use_after_free" ELSE fault
            /\ UNCHANGED base_pending
       ELSE /\ base_pending' = Append(base_pending, "RemoveConnectionInLoop")
            /\ UNCHANGED <<connections_, pending, fault>>
  /\ UNCHANGED <<state_, reading_, channel, stream, peer, loop, server, delayed,
                 userv, bounds>>

\* ConnectDestroyed found kConnected: the rest of that branch up to
\* connection_callback_ ...
StepDisable ==
  /\ todo # <<>> /\ Head(todo) = "disable"
  /\ todo' = Tail(todo)
  /\ state_' = "kDisconnected"
  /\ UpdateChannel({}) /\ Assert(UpdateAsserts)
  /\ UNCHANGED <<reading_, stream, peer, loop, pending, serverv, delayed, userv,
                 bounds>>

\* ... and channel_->Remove().
StepRemove ==
  /\ todo # <<>> /\ Head(todo) = "remove"
  /\ todo' = Tail(todo)
  /\ RemoveChannel /\ Assert(RemoveAsserts)
  /\ UNCHANGED <<state_, reading_, stream, peer, loop, pending, serverv,
                 delayed, userv, bounds>>

\* All active channels are handled: DoPendingFunctors swaps.
SwapPending ==
  /\ phase = "handle" /\ todo = <<>> /\ revents_ = {}
  /\ phase' = "run"
  /\ functors' = pending /\ pending' = <<>>
  /\ batch' = {pending[i] : i \in DOMAIN pending}
  /\ UNCHANGED <<state_, reading_, channel, stream, peer, revents_, todo,
                 serverv, delayed, userv, bounds, fault>>

\* The body of a functor of this connection.
RunTask(t) ==
  \/ /\ t = "ConnectEstablished"
     /\ state_' = "kConnected"
     /\ UpdateChannel({"R"}) /\ Assert(UpdateAsserts)
     /\ todo' = <<"callback">>
     /\ user_ref' = [u \in Users |-> program.cross_ops # {}]
     /\ UNCHANGED <<reading_, stream, pending>>
  \/ /\ t = "ConnectDestroyed"
     /\ todo' = IF state_ = "kConnected"
                  THEN <<"disable", "callback", "remove">> ELSE <<"remove">>
     /\ UNCHANGED <<state_, reading_, channel, stream, pending, fault, user_ref>>
  \/ /\ t = "ForceCloseInLoop"
     /\ ForceCloseInLoop
     /\ UNCHANGED <<reading_, stream, pending, user_ref>>
  \/ /\ t \in {"WriteComplete", "HighWatermark"}
     /\ todo' = <<"callback">>
     /\ UNCHANGED <<state_, reading_, channel, stream, pending, fault, user_ref>>
  \/ /\ t = "SendInLoop"
     /\ SendInLoop
     /\ UNCHANGED <<state_, reading_, todo, user_ref>>
  \/ /\ t = "ShutdownInLoop"
     /\ ShutdownInLoop(IsWriting)
     /\ UNCHANGED <<state_, reading_, channel, output_buffer_, wire, sent,
                    late_write, pending, todo, fault, user_ref>>
  \/ /\ t = "StartReadInLoop" /\ StartReadInLoop
     /\ UNCHANGED <<state_, stream, pending, todo, user_ref>>
  \/ /\ t = "StopReadInLoop" /\ StopReadInLoop
     /\ UNCHANGED <<state_, stream, pending, todo, user_ref>>

\* for (functor : functors) functor();  A functor bound to a raw this that is
\* gone is a use after free.
RunFunctor ==
  /\ phase = "run" /\ todo = <<>> /\ functors # <<>>
  /\ functors' = Tail(functors)
  /\ IF Alive
       THEN RunTask(Head(functors))
       ELSE /\ fault' = "use_after_free"
            /\ UNCHANGED <<state_, reading_, channel, stream, pending, todo,
                           user_ref>>
  /\ UNCHANGED <<peer, phase, revents_, batch, serverv, delayed, user_call,
                 bounds>>

\* The end of DoPendingFunctors: the batch, and the references in it, go.
PendingDone ==
  /\ phase = "run" /\ todo = <<>> /\ functors = <<>>
  /\ phase' = "poll"
  /\ batch' = {}
  /\ UNCHANGED <<state_, reading_, channel, stream, peer, revents_, functors,
                 todo, pending, serverv, delayed, userv, bounds, fault>>

-----------------------------------------------------------------------------
(* Calls of user code on the I/O loop thread: in a callback of this        *)
(* connection, or in another callback or functor of the loop that has the  *)
(* pointer.                                                                *)

InLoopUserCode ==
  /\ phase \in {"handle", "run"}
  /\ IF todo = <<>> THEN Alive ELSE Head(todo) = "callback"
  /\ state_ # "kConnecting"

\* The test at the head of Send and Shutdown.
MaySend == state_ = "kConnected"

\* The test at the head of ForceClose and ForceCloseWithDelay.
MayForceClose == state_ \in Open

\* ForceClose after its test, on the loop thread.
ForceCloseBody ==
  /\ state_' = "kDisconnecting"
  /\ pending' = Append(pending, "ForceCloseInLoop")

\* A call that fails its test of state_ does nothing and is left out.
LoopCall(op) ==
  /\ InLoopUserCode /\ calls < program.calls
  /\ calls' = calls + 1
  /\ \/ /\ op = "Send" /\ MaySend
        /\ SendInLoop
        /\ UNCHANGED <<state_, reading_, delayed>>
     \/ /\ op = "Shutdown" /\ MaySend
        /\ state_' = "kDisconnecting"
        /\ ShutdownInLoop(IsWriting)
        /\ UNCHANGED <<reading_, channel, output_buffer_, wire, sent,
                       late_write, pending, delayed, fault>>
     \/ /\ op = "ForceClose" /\ MayForceClose
        /\ ForceCloseBody
        /\ UNCHANGED <<reading_, channel, stream, delayed, fault>>
     \/ /\ op = "ForceCloseWithDelay" /\ MayForceClose
        /\ state_' = "kDisconnecting" /\ delayed' = TRUE
        /\ UNCHANGED <<reading_, channel, stream, pending, fault>>
     \/ /\ op = "StartRead" /\ (program.careful => state_ = "kConnected")
        /\ StartReadInLoop
        /\ UNCHANGED <<state_, stream, pending, delayed>>
     \/ /\ op = "StopRead" /\ (program.careful => state_ = "kConnected")
        /\ StopReadInLoop
        /\ UNCHANGED <<state_, stream, pending, delayed>>
  /\ UNCHANGED <<peer, loop, todo, serverv, userv, arrivals>>

\* The timer of ForceCloseWithDelay expires: WeakCallback calls ForceClose if
\* the connection still exists.
DelayExpires ==
  /\ phase = "handle" /\ todo = <<>> /\ delayed
  /\ delayed' = FALSE
  /\ IF Alive /\ MayForceClose THEN ForceCloseBody
                             ELSE UNCHANGED <<state_, pending>>
  /\ UNCHANGED <<reading_, channel, stream, peer, loop, todo, serverv, userv,
                 bounds, fault>>

-----------------------------------------------------------------------------
(* Calls of user threads.                                                  *)

\* The test of state_ at the head of the call.
UserTests(u, op) ==
  /\ user_call[u] = NoCall /\ user_ref[u] /\ calls < program.calls
  /\ op \in {"Send", "Shutdown"} => MaySend
  /\ op \in {"ForceClose", "ForceCloseWithDelay"} => MayForceClose
  /\ calls' = calls + 1
  /\ user_call' = [user_call EXCEPT ![u] = [op |-> op, at |-> "checked"]]
  /\ UNCHANGED <<state_, reading_, channel, stream, peer, loop, todo, pending,
                 serverv, delayed, user_ref, arrivals, fault>>

\* SetState(kDisconnecting)
UserSetsState(u) ==
  /\ user_call[u].op \in {"Shutdown", "ForceClose", "ForceCloseWithDelay"}
  /\ user_call[u].at = "checked"
  /\ state_' = "kDisconnecting"
  /\ user_call' = [user_call EXCEPT ![u].at = "set"]
  /\ UNCHANGED <<reading_, channel, stream, peer, loop, todo, pending, serverv,
                 delayed, user_ref, bounds, fault>>

\* loop_->RunInLoop or QueueInLoop from another thread queues the functor;
\* ForceCloseWithDelay starts the timer.
UserQueues(u) ==
  /\ \/ user_call[u].op \in {"Send", "StartRead", "StopRead"}
     \/ user_call[u].at = "set"
  /\ IF user_call[u].op = "ForceCloseWithDelay"
       THEN delayed' = TRUE /\ UNCHANGED pending
       ELSE pending' = Append(pending, TaskOf[user_call[u].op])
              /\ UNCHANGED delayed
  /\ user_call' = [user_call EXCEPT ![u] = NoCall]
  /\ UNCHANGED <<state_, reading_, channel, stream, peer, loop, todo, serverv,
                 user_ref, bounds, fault>>

\* The user thread lets go of its TcpConnectionPtr.
UserDropsRef(u) ==
  /\ user_ref[u] /\ user_call[u] = NoCall
  /\ user_ref' = [user_ref EXCEPT ![u] = FALSE]
  /\ UNCHANGED <<state_, reading_, channel, stream, peer, loop, todo, pending,
                 serverv, delayed, user_call, bounds, fault>>

-----------------------------------------------------------------------------
(* TcpServer on the base loop.                                             *)

\* NewConnection: create the connection, record it, hand it to its loop.
NewConnection ==
  /\ server = "idle"
  /\ server' = "alive" /\ connections_' = TRUE
  /\ IF IoIsBase
       THEN phase = "handle" /\ todo = <<>> /\ RunTask("ConnectEstablished")
       ELSE /\ pending' = Append(pending, "ConnectEstablished")
            /\ UNCHANGED <<state_, reading_, channel, stream, todo, user_ref,
                           fault>>
  /\ UNCHANGED <<peer, loop, base_pending, delayed, user_call, bounds>>

\* Mutant: the connection is erased and ConnectDestroyed is never queued.
RemoveConnectionInLoopErases ==
  /\ base_pending # <<>>
  /\ base_pending' = Tail(base_pending)
  /\ connections_' = FALSE
  /\ UNCHANGED <<state_, reading_, channel, stream, peer, loop, todo, pending,
                 server, delayed, userv, bounds, fault>>

\* RemoveConnectionInLoop, queued by RemoveConnection with the raw server.
RemoveConnectionInLoop ==
  /\ base_pending # <<>>
  /\ base_pending' = Tail(base_pending)
  /\ connections_' = FALSE
  /\ pending' = Append(pending, "ConnectDestroyed")
  /\ fault' = IF server = "dead" THEN "use_after_free" ELSE fault
  /\ UNCHANGED <<state_, reading_, channel, stream, peer, loop, todo, server,
                 delayed, userv, bounds>>

\* ~TcpServer, from other code of the base loop: RunInLoop(ConnectDestroyed)
\* for each connection still in connections_.
DestroyServer ==
  /\ program.server_dies # {} /\ server = "alive"
  /\ IoIsBase => phase \in program.server_dies /\ todo = <<>>
  /\ server' = "dead" /\ connections_' = FALSE
  /\ IF ~connections_
       THEN UNCHANGED <<state_, reading_, channel, stream, todo, pending,
                        user_ref, fault>>
       ELSE IF IoIsBase
              THEN RunTask("ConnectDestroyed")
              ELSE /\ pending' = Append(pending, "ConnectDestroyed")
                   /\ UNCHANGED <<state_, reading_, channel, stream, todo,
                                  user_ref, fault>>
  /\ UNCHANGED <<peer, loop, base_pending, delayed, user_call, bounds>>

-----------------------------------------------------------------------------
(* The peer.                                                               *)

PeerSends ==
  /\ server # "idle" /\ ~peer.fin /\ ~peer.rst /\ arrivals < MaxArrivals
  /\ peer' = [peer EXCEPT !.data = @ + 1]
  /\ arrivals' = arrivals + 1
  /\ UNCHANGED <<state_, reading_, channel, stream, loop, todo, pending,
                 serverv, delayed, userv, calls, fault>>

PeerCloses ==
  /\ server # "idle" /\ ~peer.fin /\ ~peer.rst
  /\ peer' = [peer EXCEPT !.fin = TRUE]
  /\ UNCHANGED <<state_, reading_, channel, stream, loop, todo, pending,
                 serverv, delayed, userv, bounds, fault>>

PeerAborts ==
  /\ PeerResets
  /\ server # "idle" /\ ~peer.rst
  /\ peer' = [peer EXCEPT !.rst = TRUE, !.so_error = TRUE]
  /\ UNCHANGED <<state_, reading_, channel, stream, loop, todo, pending,
                 serverv, delayed, userv, bounds, fault>>

-----------------------------------------------------------------------------
HandlerStep == \/ StepClose \/ StepError \/ StepRead \/ StepWrite
               \/ StepCallback \/ StepCloseCallback \/ StepDisable \/ StepRemove

IoStep == Poll \/ HandleEvent \/ HandlerStep \/ SwapPending \/ RunFunctor
            \/ PendingDone

UserStep(u) == \/ \E op \in program.cross_ops : UserTests(u, op)
               \/ UserSetsState(u) \/ UserQueues(u) \/ UserDropsRef(u)

\* A failed assert or a use after free ends the process.
Next ==
  /\ fault = "none" /\ UNCHANGED <<program, io_loop>>
  /\ \/ IoStep \/ DelayExpires
     \/ \E op \in program.loop_ops : LoopCall(op)
     \/ \E u \in Users : UserStep(u)
     \/ NewConnection \/ RemoveConnectionInLoop \/ DestroyServer
     \/ PeerSends \/ PeerCloses \/ PeerAborts

Spec == Init /\ [][Next]_vars

\* Both loops run: EventLoop's QueuedFunctorRuns and the level-triggered
\* epoll; user callbacks return.
FairSpec ==
  /\ Spec
  /\ WF_vars(fault = "none" /\ IoStep /\ UNCHANGED <<program, io_loop>>)
  /\ WF_vars(fault = "none" /\ RemoveConnectionInLoop
               /\ UNCHANGED <<program, io_loop>>)

-----------------------------------------------------------------------------
(* Properties.                                                             *)

\* The program uses the connection on its I/O loop only, calls StartRead only
\* while Connected() and StopRead never, and keeps the server.  (HandleClose of a
\* channel that StopRead took out of the epoll set puts it back, epoll_poller.cc:
\* 73, and a hang-up then closes the connection a second time.)
Disciplined ==
  /\ program.cross_ops = {} /\ program.server_dies = {}
  /\ program.careful /\ "StopRead" \notin program.loop_ops

\* For such a program no assert of HandleClose, UpdateChannel or RemoveChannel
\* fails, whatever the peer does and in whatever order events and functors come,
\* and no functor, event or callback reaches a destroyed connection or server.
\* (Calls from other threads do fail asserts: ForceClose, tcp_connection.cc:181,
\* tests state_ and sets it in two steps.)
NoFault == Disciplined => fault = "none"

\* Channel, EpollPoller and kernel agree on the registration of the fd, in
\* every state the asserts let the process reach.
RegistrationInv ==
  fault = "none" =>
  /\ channels_ <=> index_ # "kNew"
  /\ epoll <=> index_ = "kAdded"
  /\ epoll => epoll_mask = events_
  /\ index_ # "kAdded" => events_ = {}

\* The byte stream: what the kernel took, followed by what is buffered, is
\* what was sent, in order and without gaps (SendInLoop's direct write, its
\* append and HandleWrite together).
StreamInOrder == wire \o output_buffer_ = [i \in 1..sent |-> i]

\* Output and shutdown: no message waits for an EPOLLOUT that was never asked
\* for; the write side is shut only when everything sent before is with the
\* kernel; and "after shutdown nothing can be sent": no write() after it.
OutputInv ==
  Disciplined =>
    /\ output_buffer_ # <<>> /\ state_ \in Open => "W" \in events_ /\ epoll
    /\ write_shut => output_buffer_ = <<>>
    /\ ~late_write

\* TcpServer and the poller have let go of the connection.
Gone == ~connections_ /\ ~channels_

\* A closed connection leaves connections_ and the poller (RemoveConnection
\* reaches the base loop, ConnectDestroyed comes back to the I/O loop) and, when
\* no user thread keeps it, is destroyed: no functor or callback holds a
\* reference for ever.
ClosedIsFreed ==
  (Disciplined /\ state_ = "kDisconnected") ~> (Gone /\ ~Alive)

\* The close of the peer is noticed while the connection is read.
PeerCloseIsSeen ==
  (Disciplined /\ peer.fin /\ "R" \in epoll_mask) ~> (state_ = "kDisconnected")
=============================================================================
