---------------------------- MODULE AsyncLogging ----------------------------
(***************************************************************************)
(* AsyncLogging (logger/async_logging.cc) with its FixedBuffers and the     *)
(* LogFile it writes: the front end fills buffers, the back end exchanges   *)
(* them for empty ones and writes them.                                     *)
(*                                                                         *)
(* What happens under mutex_ is one step, so it does not matter which       *)
(* thread calls Append.  A log line takes one slot: Logger passes on its    *)
(* whole FixedBuffer of kSmallBuffer bytes, because Length() is its size,   *)
(* and kLargeBuffer is a multiple of that.  For the same reason the back    *)
(* end writes every slot of a buffer, those left from its last use too.     *)
(***************************************************************************)
EXTENDS LogFile, Sequences, FiniteSets

CONSTANTS
  Slots,        \* kLargeBuffer / kSmallBuffer
  MaxLines,     \* bound: calls of Append
  MaxTime       \* bound: seconds

ASSUME AsyncLoggingAssumption ==
  Slots \in Nat /\ Slots > 1 /\ MaxLines \in Nat /\ MaxTime \in Nat \ {0}

NoLine == 0                     \* a slot nothing was written to
Lines == 1..MaxLines            \* lines are numbered as they come
Null == [data |-> <<>>, curr_ |-> -1]    \* a unique_ptr that was moved from
FixedBuffers == [data : [1..Slots -> Lines \cup {NoLine}], curr_ : 0..(Slots - 1)]

VARIABLES
  running_, current_buffer_, next_buffer_, buffers_,
  new_buffer1, new_buffer2, buffersToWrite,   \* the locals of ThreadFunc
  output,                                     \* its LogFile
  phase,        \* where the back end is
  done_writing, \* how many of buffersToWrite are written
  owner,        \* of the object: "new", "started", "stopping", "joining", "stopped"
                \* (the destructor is over, and nothing is called any more)
  now,          \* time(NULL)
  \* history
  appended,     \* how many lines were given to Append
  written       \* the lines in the files, in order; a copy is not counted again

front == <<current_buffer_, next_buffer_, buffers_>>
back == <<new_buffer1, new_buffer2, buffersToWrite, done_writing>>
vars == <<running_, front, back, output, phase, owner, now, appended, written>>

\* "none": no thread; "begin": at the head of ThreadFunc; "test": at the loop's
\* condition; "lock": about to lock; "wait": in wait_for; "swap": out of it;
\* "write": outside the lock; "done": returned.
Phases == {"none", "begin", "test", "lock", "wait", "swap", "write", "done"}

-----------------------------------------------------------------------------
(* FixedBuffer.                                                             *)

NewFixedBuffer == [data |-> [i \in 1..Slots |-> NoLine], curr_ |-> 0]

Avail(b) == Slots - b.curr_

\* FixedBuffer::Append: a line that does not fit is dropped.
BufferAppend(b, line) ==
  IF Avail(b) > 1 THEN [data |-> [b.data EXCEPT ![b.curr_ + 1] = line],
                        curr_ |-> b.curr_ + 1]
                  ELSE b

\* Mutant: the buffer goes back as it is.
ResetNot(b) == b

\* FixedBuffer::Reset; what is in data_ stays.
Reset(b) == [b EXCEPT !.curr_ = 0]

-----------------------------------------------------------------------------
Init ==
  /\ running_ = FALSE
  /\ current_buffer_ = NewFixedBuffer /\ next_buffer_ = NewFixedBuffer
  /\ buffers_ = <<>>
  /\ new_buffer1 = Null /\ new_buffer2 = Null
  /\ buffersToWrite = <<>> /\ done_writing = 0
  /\ output = NewLogFile(1)
  /\ phase = "none" /\ owner = "new" /\ now = 1
  /\ appended = 0 /\ written = <<>>

\* cond_.notify_one: the phase after it.
Notified == IF phase = "wait" THEN "swap" ELSE phase

\* There is room in the current buffer.
AppendFits ==
  /\ appended < MaxLines /\ owner # "stopped"
  /\ Avail(current_buffer_) > 1
  /\ current_buffer_' = BufferAppend(current_buffer_, appended + 1)
  /\ appended' = appended + 1
  /\ UNCHANGED <<running_, next_buffer_, buffers_, back, output, phase, owner,
                 now, written>>

\* The current buffer is full: it is queued, and the next one or a new one taken.
AppendFull ==
  /\ appended < MaxLines /\ owner # "stopped"
  /\ ~(Avail(current_buffer_) > 1)
  /\ buffers_' = Append(buffers_, current_buffer_)
  /\ LET b == IF next_buffer_ # Null THEN next_buffer_ ELSE NewFixedBuffer
     IN current_buffer_' = BufferAppend(b, appended + 1)
  /\ next_buffer_' = Null
  /\ phase' = Notified
  /\ appended' = appended + 1
  /\ UNCHANGED <<running_, back, output, owner, now, written>>

-----------------------------------------------------------------------------
(* The owner.                                                               *)

Start ==
  /\ owner = "new"
  /\ owner' = "started" /\ running_' = TRUE /\ phase' = "begin"
  /\ UNCHANGED <<front, back, output, now, appended, written>>

\* Stop, or the destructor: running_ = false.
Stop ==
  /\ owner = "started"
  /\ owner' = "stopping" /\ running_' = FALSE
  /\ UNCHANGED <<front, back, output, phase, now, appended, written>>

\* Stop: the notification, without the mutex.
StopNotifies ==
  /\ owner = "stopping"
  /\ owner' = "joining" /\ phase' = Notified
  /\ UNCHANGED <<running_, front, back, output, now, appended, written>>

StopJoins ==
  /\ owner = "joining" /\ phase = "done"
  /\ owner' = "stopped"
  /\ UNCHANGED <<running_, front, back, output, phase, now, appended, written>>

-----------------------------------------------------------------------------
(* ThreadFunc.                                                              *)

Begin ==
  /\ phase = "begin"
  /\ output' = NewLogFile(now)
  /\ new_buffer1' = NewFixedBuffer /\ new_buffer2' = NewFixedBuffer
  /\ phase' = "test"
  /\ UNCHANGED <<running_, front, buffersToWrite, done_writing, owner, now,
                 appended, written>>

TestRunning ==
  /\ phase = "test"
  /\ phase' = IF running_ THEN "lock" ELSE "done"
  /\ UNCHANGED <<running_, front, back, output, owner, now, appended, written>>

\* buffers_ is empty: wait_for releases the mutex.
Wait ==
  /\ phase = "lock" /\ buffers_ = <<>>
  /\ phase' = "wait"
  /\ UNCHANGED <<running_, front, back, output, owner, now, appended, written>>

\* Mutant: wait instead of wait_for.
WaitsForNotification == phase = "wait" /\ FALSE /\ UNCHANGED vars

\* The three seconds are over (or the wakeup is spurious).
WaitTimesOut ==
  /\ phase = "wait"
  /\ phase' = "swap"
  /\ UNCHANGED <<running_, front, back, output, owner, now, appended, written>>

\* With the mutex: the current buffer is queued too, and the queue exchanged.
Swap ==
  /\ phase = "swap" \/ (phase = "lock" /\ buffers_ # <<>>)
  /\ buffersToWrite' = Append(buffers_, current_buffer_)
  /\ buffers_' = <<>>
  /\ current_buffer_' = new_buffer1 /\ new_buffer1' = Null
  /\ IF next_buffer_ = Null
       THEN next_buffer_' = new_buffer2 /\ new_buffer2' = Null
       ELSE UNCHANGED <<next_buffer_, new_buffer2>>
  /\ phase' = "write" /\ done_writing' = 0
  /\ UNCHANGED <<running_, output, owner, now, appended, written>>

\* Is this line in no file yet?
IsNew(line) == line # NoLine /\ \A i \in DOMAIN written : written[i] # line

\* The new lines of a buffer, in the order of their slots.
NewLines(b) ==
  LET new == {j \in 1..Slots : IsNew(b.data[j])}
      Slot(n) == CHOOSE j \in new : Cardinality({i \in new : i <= j}) = n
  IN  [n \in 1..Cardinality(new) |-> b.data[Slot(n)]]

\* output.Append(buffer->data(), buffer->Length())
WriteBuffer ==
  /\ phase = "write" /\ done_writing < Len(buffersToWrite)
  /\ written' = written \o NewLines(buffersToWrite[done_writing + 1])
  /\ output' = AppendInLock(output, now)
  /\ done_writing' = done_writing + 1
  /\ UNCHANGED <<running_, front, new_buffer1, new_buffer2, buffersToWrite,
                 phase, owner, now, appended>>

\* Mutant: only one buffer is kept.
KeptOne(buffers) == SubSeq(buffers, 1, 1)

\* buffersToWrite.resize(2), when there are more.
Kept(buffers) == IF Len(buffers) > 2 THEN SubSeq(buffers, 1, 2) ELSE buffers

\* Back() of an empty vector is undefined; the model has Null for it.
Back(buffers) == IF buffers = <<>> THEN Null ELSE Reset(buffers[Len(buffers)])

\* Two of the written buffers become new_buffer1 and new_buffer2.
ReturnBuffers ==
  /\ phase = "write" /\ done_writing = Len(buffersToWrite)
  /\ LET kept == Kept(buffersToWrite)
         rest == IF new_buffer1 = Null THEN SubSeq(kept, 1, Len(kept) - 1) ELSE kept
     IN /\ new_buffer1' = IF new_buffer1 = Null THEN Back(kept) ELSE new_buffer1
        /\ new_buffer2' = IF new_buffer2 = Null THEN Back(rest) ELSE new_buffer2
  /\ buffersToWrite' = <<>> /\ done_writing' = 0
  /\ phase' = "test"
  /\ UNCHANGED <<running_, front, output, owner, now, appended, written>>

\* A second passes.
Tick ==
  /\ now < MaxTime
  /\ now' = now + 1
  /\ UNCHANGED <<running_, front, back, output, phase, owner, appended, written>>

BackEnd ==
  \/ Begin \/ TestRunning \/ Wait \/ WaitTimesOut \/ Swap \/ WriteBuffer
  \/ ReturnBuffers

Next ==
  \/ AppendFits \/ AppendFull
  \/ Start \/ Stop \/ StopNotifies \/ StopJoins
  \/ BackEnd \/ Tick

Spec == Init /\ [][Next]_vars

\* The back end is scheduled, and wait_for ends after its three seconds; the
\* owner goes on with Stop once it has called it.
FairSpec ==
  Spec /\ WF_vars(BackEnd) /\ WF_vars(StopNotifies) /\ WF_vars(StopJoins)

-----------------------------------------------------------------------------
(* Properties.                                                              *)

\* Type invariant.  The current buffer is always there, and both of the back
\* end's buffers are when it comes to the swap: ThreadFunc never takes the back
\* of an empty vector and never hands out a null pointer.
TypeOK ==
  /\ running_ \in BOOLEAN /\ phase \in Phases
  /\ owner \in {"new", "started", "stopping", "joining", "stopped"}
  /\ current_buffer_ \in FixedBuffers /\ next_buffer_ \in FixedBuffers \cup {Null}
  /\ buffers_ \in Seq(FixedBuffers) /\ buffersToWrite \in Seq(FixedBuffers)
  /\ new_buffer1 \in FixedBuffers \cup {Null}
  /\ new_buffer2 \in FixedBuffers \cup {Null}
  /\ phase \in {"test", "lock", "wait", "swap"} =>
       new_buffer1 # Null /\ new_buffer2 # Null
  /\ done_writing \in 0..Len(buffersToWrite)
  /\ output \in LogFiles /\ now \in 1..MaxTime
  /\ appended \in 0..MaxLines

\* The buffers on their way to the files: being written, queued, and the current.
Way ==
  SubSeq(buffersToWrite, done_writing + 1, Len(buffersToWrite))
    \o buffers_ \o <<current_buffer_>>

\* The slots on the way that were filled since their buffer's last Reset, as
\* <<buffer, slot>>; what is in them; and which come first.
Filled == {p \in (DOMAIN Way) \X (1..Slots) : p[2] <= Way[p[1]].curr_}
LineAt(p) == Way[p[1]].data[p[2]]
Before(p, q) == p[1] < q[1] \/ (p[1] = q[1] /\ p[2] < q[2])

\* No line is lost, overtaken or dropped: the files hold the first lines given to
\* Append, in order, and the buffers on their way all others, in order, through
\* every exchange, reuse and new allocation of buffers.
LinesInOrder ==
  /\ written = [i \in 1..Len(written) |-> i]
  /\ {LineAt(p) : p \in Filled} = (Len(written) + 1)..appended
  /\ \A p, q \in Filled : Before(p, q) => LineAt(p) < LineAt(q)

\* The back end never sleeps over a full buffer: the front end's notification
\* is not missed, and only a partly filled buffer waits for the three seconds.
FullBufferWakes == phase = "wait" => buffers_ = <<>>

\* The back end is ready for the front end: it does not sleep over a full
\* buffer, and comes to the swap with both of its buffers (it never takes the
\* back of an empty vector and never hands out a null pointer).
BackEndReady ==
  /\ FullBufferWakes
  /\ phase \in {"test", "lock", "wait", "swap"} =>
       new_buffer1 # Null /\ new_buffer2 # Null

\* A line is in the file in the end, unless the logging is stopped.
LineIsWritten ==
  \A n \in 1..MaxLines :
    (appended >= n /\ owner = "started") ~> (Len(written) >= n \/ ~running_)

\* Stop returns, although its notification, made without the mutex, may come
\* just before the back end waits.
StopReturns == owner = "stopping" ~> owner = "stopped"

\* LogFile rolls over in time: a file takes fewer than check_every_n_ appends
\* after its period has ended, whatever the rolls by size did to the counters.
RollsAfterPeriod == phase # "none" => output.late < CheckEveryN
=============================================================================
