------------------------- MODULE AsyncLoggingProofs -------------------------
(***************************************************************************)
(* Theorems about AsyncLogging and its LogFile, for buffers of every size,  *)
(* every number of lines and every length of time.                          *)
(***************************************************************************)
EXTENDS AsyncLogging, SequenceTheorems, FiniteSetTheorems, WellFoundedInduction, TLAPS

\* The beginning of a period.
LEMMA PeriodType ==
  ASSUME NEW n \in Nat
  PROVE  StartOfPeriod(n) \in Nat
<1>1. kRollPerSeconds_ \in Nat /\ kRollPerSeconds_ > 0
  BY LogFileAssumption
<1>2. n \div kRollPerSeconds_ \in Nat
  BY <1>1
<1> DEFINE q == n \div kRollPerSeconds_
<1> HIDE DEF q
<1>3. q * kRollPerSeconds_ \in Nat
  BY <1>1, <1>2 DEF q
<1> QED
  BY <1>3 DEF StartOfPeriod, q

\* Time does not go back to an earlier period.
LEMMA PeriodMonotone ==
  ASSUME NEW m \in Nat, NEW n \in Nat, m <= n
  PROVE  StartOfPeriod(m) <= StartOfPeriod(n)
<1> DEFINE k == kRollPerSeconds_
           p == m \div k
           q == n \div k
<1>1. k \in Nat /\ k > 0
  BY LogFileAssumption
<1>2. p \in Nat /\ q \in Nat
  BY <1>1
<1>3. k * p <= m /\ n < k * (q + 1)
  BY <1>1
<1> HIDE DEF k, p, q
<1>4. k * p < k * (q + 1)
  BY <1>1, <1>2, <1>3
<1>5. p < q + 1
  BY <1>1, <1>2, <1>4
<1>6. p <= q
  BY <1>2, <1>5
<1>7. p * k <= q * k
  BY <1>1, <1>2, <1>6
<1> QED
  BY <1>7 DEF StartOfPeriod, k, p, q

-----------------------------------------------------------------------------
(* LogFile.                                                                 *)

\* What holds of a LogFile between two calls, in second n.
FileInv(f, n) ==
  /\ f.start_of_period_ = StartOfPeriod(f.last_roll_) /\ f.last_roll_ <= n
  /\ f.late <= f.count_
  /\ f.late > 0 => f.start_of_period_ < StartOfPeriod(n)

LEMMA FileFields ==
  ASSUME NEW f \in LogFiles
  PROVE  /\ f.written_bytes \in 0..(RollSize + 1)
         /\ f.count_ \in 0..(CheckEveryN - 1)
         /\ f.start_of_period_ \in Nat /\ f.last_roll_ \in Nat /\ f.late \in Nat
  BY DEF LogFiles

\* A file after an append, field by field.
LEMMA FileUpdate ==
  ASSUME NEW f \in LogFiles, NEW w \in 0..(RollSize + 1), NEW e \in Nat
  PROVE  [f EXCEPT !.written_bytes = w, !.late = e]
           = [written_bytes |-> w, count_ |-> f.count_,
              start_of_period_ |-> f.start_of_period_,
              last_roll_ |-> f.last_roll_, late |-> e]
<1> DEFINE g == [f EXCEPT !.written_bytes = w, !.late = e]
<1>1. g \in LogFiles
  BY DEF LogFiles
<1>2. /\ g.written_bytes = w /\ g.count_ = f.count_ /\ g.late = e
      /\ g.start_of_period_ = f.start_of_period_ /\ g.last_roll_ = f.last_roll_
  BY DEF LogFiles
<1> HIDE DEF g
<1>3. g = [written_bytes |-> w, count_ |-> f.count_,
           start_of_period_ |-> f.start_of_period_,
           last_roll_ |-> f.last_roll_, late |-> e]
  BY <1>1, <1>2 DEF LogFiles
<1> QED
  BY <1>3 DEF g

\* A file made of its fields.
LEMMA MakeFile ==
  ASSUME NEW w \in 0..(RollSize + 1), NEW c \in 0..(CheckEveryN - 1),
         NEW s \in Nat, NEW l \in Nat, NEW e \in Nat
  PROVE  [written_bytes |-> w, count_ |-> c, start_of_period_ |-> s,
          last_roll_ |-> l, late |-> e] \in LogFiles
  BY DEF LogFiles

\* A file that is begun is in its period.
LEMMA NewFile ==
  ASSUME NEW n \in Nat, n > 0
  PROVE  NewLogFile(n) \in LogFiles /\ FileInv(NewLogFile(n), n)
<1> DEFINE f == [written_bytes |-> 0, count_ |-> 0,
                 start_of_period_ |-> StartOfPeriod(n), last_roll_ |-> n,
                 late |-> 0]
<1>1. NewLogFile(n) = f
  BY DEF NewLogFile, RollFile
<1>2. StartOfPeriod(n) \in Nat
  BY PeriodType
<1>3. f \in LogFiles
  BY <1>2, LogFileAssumption, MakeFile
<1>4. FileInv(f, n)
  BY DEF FileInv
<1> QED
  BY <1>1, <1>3, <1>4

\* An append, with every roll it may make, keeps the number of late appends
\* below the number of appends since the period was looked at.
LEMMA AppendKeeps ==
  ASSUME NEW f \in LogFiles, NEW n \in Nat, FileInv(f, n)
  PROVE  AppendInLock(f, n) \in LogFiles /\ FileInv(AppendInLock(f, n), n)
<1> DEFINE p == StartOfPeriod(n)
           w == IF f.written_bytes > RollSize THEN f.written_bytes
                                              ELSE f.written_bytes + 1
           e == IF p # f.start_of_period_ THEN f.late + 1 ELSE f.late
           file(w0, c0, s0, l0, e0) ==
             [written_bytes |-> w0, count_ |-> c0, start_of_period_ |-> s0,
              last_roll_ |-> l0, late |-> e0]
<1>1. /\ f.written_bytes \in 0..(RollSize + 1)
      /\ f.count_ \in 0..(CheckEveryN - 1)
      /\ f.start_of_period_ \in Nat /\ f.last_roll_ \in Nat /\ f.late \in Nat
      /\ p \in Nat /\ RollSize \in Nat /\ CheckEveryN \in Nat
      /\ CheckEveryN > 0
  BY FileFields, PeriodType, LogFileAssumption
<1>2. /\ f.start_of_period_ = StartOfPeriod(f.last_roll_) /\ f.last_roll_ <= n
      /\ f.late <= f.count_ /\ (f.late > 0 => f.start_of_period_ < p)
  BY DEF FileInv
<1>3. f.start_of_period_ <= p
  BY <1>1, <1>2, PeriodMonotone
<1>4. w \in 0..(RollSize + 1) /\ e \in Nat
  BY <1>1
<1>5. Written(f, n) = file(w, f.count_, f.start_of_period_, f.last_roll_, e)
  BY <1>4, FileUpdate DEF Written
<1>7. e <= f.count_ + 1 /\ (e > 0 => f.start_of_period_ < p)
  BY <1>1, <1>2, <1>3
<1>8. f.last_roll_ = n => p = f.start_of_period_
  BY <1>2
<1> DEFINE g == file(w, f.count_, f.start_of_period_, f.last_roll_, e)
           rolled(c0) == file(0, c0, p, n, 0)
<1>9. ASSUME NEW c0 \in 0..(CheckEveryN - 1)
      PROVE  rolled(c0) \in LogFiles /\ FileInv(rolled(c0), n)
  <2>1. rolled(c0) \in LogFiles
    BY <1>1, MakeFile
  <2>2. FileInv(rolled(c0), n)
    BY <1>1 DEF FileInv
  <2> QED
    BY <2>1, <2>2
<1>10. ASSUME NEW c0 \in 0..(CheckEveryN - 1), e <= c0
       PROVE  LET h == file(w, c0, f.start_of_period_, f.last_roll_, e)
              IN h \in LogFiles /\ FileInv(h, n)
  <2> DEFINE h == file(w, c0, f.start_of_period_, f.last_roll_, e)
  <2>1. h \in LogFiles
    BY <1>1, <1>4, MakeFile
  <2>2. FileInv(h, n)
    BY <1>2, <1>7, <1>10 DEF FileInv
  <2> QED
    BY <2>1, <2>2
<1> HIDE DEF w, e, p
<1>11. CASE w > RollSize
  <2> HIDE DEF g
  <2>0. /\ Written(f, n) = g
        /\ g.written_bytes \in Int /\ g.written_bytes > RollSize
    BY <1>4, <1>5, <1>11 DEF g
  <2>1. AppendInLock(f, n) = RollFile(g, n)
    BY <2>0, <1>1 DEF AppendInLock
  <2> USE DEF g
  <2>2. CASE n > f.last_roll_
    <3>1. RollFile(g, n) = rolled(f.count_)
      BY <2>2 DEF RollFile, p
    <3> QED
      BY <2>1, <3>1, <1>9, <1>1
  <2>3. CASE ~(n > f.last_roll_)
    <3>1. RollFile(g, n) = g
      BY <2>3 DEF RollFile
    <3>2. f.last_roll_ = n
      BY <2>3, <1>1, <1>2
    <3>3. e <= f.count_
      BY <3>2, <1>8, <1>7, <1>4, <1>1
    <3> QED
      BY <2>1, <3>1, <3>3, <1>10, <1>1
  <2> QED
    BY <2>2, <2>3
<1>12. CASE ~(w > RollSize) /\ ~CheckDue(g)
  <2>1. AppendInLock(f, n) = [g EXCEPT !.count_ = @ + 1]
    BY <1>5, <1>4, <1>1, <1>12 DEF AppendInLock
  <2>2. f.count_ + 1 < CheckEveryN
    BY <1>12, <1>1 DEF CheckDue
  <2>3. AppendInLock(f, n)
          = file(w, f.count_ + 1, f.start_of_period_, f.last_roll_, e)
    BY <2>1
  <2>4. f.count_ + 1 \in 0..(CheckEveryN - 1)
    BY <2>2, <1>1
  <2> QED
    BY <2>3, <2>4, <1>7, <1>10
<1>13. CASE ~(w > RollSize) /\ CheckDue(g)
  <2> DEFINE h == file(w, 0, f.start_of_period_, f.last_roll_, e)
  <2>1. AppendInLock(f, n)
          = IF p # f.start_of_period_ THEN RollFile(h, n) ELSE h
    BY <1>5, <1>4, <1>1, <1>13 DEF AppendInLock, p
  <2>2. CASE p # f.start_of_period_
    <3>1. n > f.last_roll_
      BY <2>2, <1>8, <1>1, <1>2
    <3>2. RollFile(h, n) = rolled(0)
      BY <3>1 DEF RollFile, p
    <3> QED
      BY <2>1, <2>2, <3>2, <1>9, <1>1
  <2>3. CASE p = f.start_of_period_
    <3>1. e <= 0
      BY <2>3, <1>7, <1>4, <1>1
    <3> QED
      BY <2>1, <2>3, <3>1, <1>10, <1>1
  <2> QED
    BY <2>2, <2>3
<1> QED
  BY <1>11, <1>12, <1>13

-----------------------------------------------------------------------------
(* FixedBuffer.                                                             *)

LEMMA BufferTypes ==
  /\ NewFixedBuffer \in FixedBuffers /\ Null \notin FixedBuffers
  /\ \A b \in FixedBuffers : Reset(b) \in FixedBuffers
<1>1. Slots \in Nat /\ Slots > 1
  BY AsyncLoggingAssumption
<1>2. NewFixedBuffer \in FixedBuffers
  BY <1>1 DEF NewFixedBuffer, FixedBuffers
<1>3. Null \notin FixedBuffers
  <2>1. Null.curr_ = -1
    BY DEF Null
  <2>2. \A b \in FixedBuffers : b.curr_ \in 0..(Slots - 1)
    BY DEF FixedBuffers
  <2> QED
    BY <2>1, <2>2, <1>1
<1>4. ASSUME NEW b \in FixedBuffers PROVE Reset(b) \in FixedBuffers
  BY <1>1 DEF Reset, FixedBuffers
<1> QED
  BY <1>2, <1>3, <1>4

LEMMA BufferAppendType ==
  ASSUME NEW b \in FixedBuffers, NEW line \in Lines
  PROVE  BufferAppend(b, line) \in FixedBuffers
<1>1. Slots \in Nat /\ b.curr_ \in 0..(Slots - 1)
      /\ b.data \in [1..Slots -> Lines \cup {NoLine}]
  BY AsyncLoggingAssumption DEF FixedBuffers
<1>2. CASE Avail(b) > 1
  <2> DEFINE d == [b.data EXCEPT ![b.curr_ + 1] = line]
             c == b.curr_ + 1
  <2>1. c \in 0..(Slots - 1)
    BY <1>1, <1>2 DEF Avail
  <2>2. d \in [1..Slots -> Lines \cup {NoLine}]
    BY <1>1
  <2>3. BufferAppend(b, line) = [data |-> d, curr_ |-> c]
    BY <1>2 DEF BufferAppend
  <2> HIDE DEF d, c
  <2> QED
    BY <2>1, <2>2, <2>3 DEF FixedBuffers
<1>3. CASE ~(Avail(b) > 1)
  BY <1>3 DEF BufferAppend
<1> QED
  BY <1>2, <1>3

\* What ReturnBuffers takes is there when the vector is long enough.
LEMMA BackType ==
  ASSUME NEW bs \in Seq(FixedBuffers), Len(bs) >= 1
  PROVE  Back(bs) \in FixedBuffers
<1>1. bs[Len(bs)] \in FixedBuffers /\ bs # <<>>
  OBVIOUS
<1> QED
  BY <1>1, BufferTypes DEF Back

LEMMA KeptType ==
  ASSUME NEW bs \in Seq(FixedBuffers)
  PROVE  /\ Kept(bs) \in Seq(FixedBuffers)
         /\ Len(bs) >= 1 => Len(Kept(bs)) >= 1
         /\ Len(bs) >= 2 => Len(Kept(bs)) >= 2
<1>1. CASE Len(bs) > 2
  <2>1. SubSeq(bs, 1, 2) \in Seq(FixedBuffers) /\ Len(SubSeq(bs, 1, 2)) = 2
    BY <1>1, SubSeqProperties
  <2> QED
    BY <1>1, <2>1 DEF Kept
<1>2. CASE ~(Len(bs) > 2)
  BY <1>2 DEF Kept
<1> QED
  BY <1>1, <1>2

LEMMA FrontType ==
  ASSUME NEW bs \in Seq(FixedBuffers), Len(bs) >= 1
  PROVE  /\ SubSeq(bs, 1, Len(bs) - 1) \in Seq(FixedBuffers)
         /\ Len(SubSeq(bs, 1, Len(bs) - 1)) = Len(bs) - 1
<1> DEFINE n == Len(bs) - 1
<1>1. n \in Nat /\ n <= Len(bs)
  OBVIOUS
<1>2. \A i \in 1..n : bs[i] \in FixedBuffers
  BY <1>1
<1> HIDE DEF n
<1>3. SubSeq(bs, 1, n) = [i \in 1..n |-> bs[i]]
  BY <1>1
<1>4. Len(SubSeq(bs, 1, n)) = n
  BY <1>1, <1>3
<1>5. SubSeq(bs, 1, n) \in Seq(FixedBuffers)
  BY <1>1, <1>2, <1>3
<1> QED
  BY <1>4, <1>5 DEF n

-----------------------------------------------------------------------------
(* AsyncLogging.                                                            *)

\* Where the buffers are: a front end without a spare has a queue, so that the
\* back end finds two buffers to hand out whenever it has given away two.
Shape ==
  /\ next_buffer_ = Null => buffers_ # <<>>
  /\ phase = "write" => /\ new_buffer1 = Null /\ Len(buffersToWrite) >= 1
                        /\ new_buffer2 = Null => Len(buffersToWrite) >= 2

\* The inductive invariant.
Inv == TypeOK /\ Shape /\ FullBufferWakes /\ FileInv(output, now)

LEMMA InvInit == Init => Inv
<1> SUFFICES ASSUME Init PROVE Inv
  OBVIOUS
<1>1. NewLogFile(1) \in LogFiles /\ FileInv(NewLogFile(1), 1)
  BY NewFile
<1>2. TypeOK
  <2>1. output \in LogFiles /\ now \in 1..MaxTime /\ appended \in 0..MaxLines
    BY <1>1, AsyncLoggingAssumption DEF Init
  <2>2. done_writing \in 0..Len(buffersToWrite)
    BY DEF Init
  <2>3. /\ buffers_ \in Seq(FixedBuffers) /\ buffersToWrite \in Seq(FixedBuffers)
        /\ current_buffer_ \in FixedBuffers
        /\ next_buffer_ \in FixedBuffers \cup {Null}
    BY BufferTypes DEF Init
  <2> QED
    BY <2>1, <2>2, <2>3 DEF Init, TypeOK, Phases
<1>3. Shape
  BY BufferTypes DEF Init, Shape
<1>4. FullBufferWakes
  BY DEF Init, FullBufferWakes
<1> QED
  BY <1>1, <1>2, <1>3, <1>4 DEF Inv, Init

\* A second that passes leaves the file's invariant as it is.
LEMMA TimeKeeps ==
  ASSUME NEW f \in LogFiles, NEW n \in Nat, FileInv(f, n)
  PROVE  FileInv(f, n + 1)
<1>1. StartOfPeriod(n) \in Nat /\ StartOfPeriod(n + 1) \in Nat
  BY PeriodType
<1>2. StartOfPeriod(n) <= StartOfPeriod(n + 1)
  BY PeriodMonotone
<1>3. f.start_of_period_ \in Nat /\ f.last_roll_ \in Nat
  BY FileFields
<1> QED
  BY <1>1, <1>2, <1>3 DEF FileInv

LEMMA InvStep == Inv /\ [Next]_vars => Inv'
<1> SUFFICES ASSUME Inv, [Next]_vars PROVE Inv'
  OBVIOUS
<1>0. TypeOK /\ Shape /\ FullBufferWakes /\ FileInv(output, now)
  BY DEF Inv
<1>1. CASE AppendFits
  <2>1. appended + 1 \in Lines /\ appended' \in 0..MaxLines
    BY <1>0, <1>1, AsyncLoggingAssumption DEF AppendFits, TypeOK, Lines
  <2>2. current_buffer_' \in FixedBuffers
    BY <1>0, <1>1, <2>1, BufferAppendType DEF AppendFits, TypeOK
  <2>3. TypeOK'
    BY <1>0, <1>1, <2>1, <2>2 DEF AppendFits, TypeOK, back
  <2> QED
    BY <1>0, <1>1, <2>3 DEF AppendFits, Inv, Shape, FullBufferWakes, back
<1>2. CASE AppendFull
  <2>1. appended + 1 \in Lines /\ appended' \in 0..MaxLines
    BY <1>0, <1>2, AsyncLoggingAssumption DEF AppendFull, TypeOK, Lines
  <2> DEFINE b == IF next_buffer_ # Null THEN next_buffer_ ELSE NewFixedBuffer
  <2>2. b \in FixedBuffers
    BY <1>0, BufferTypes DEF TypeOK
  <2>3. current_buffer_' = BufferAppend(b, appended + 1)
    BY <1>2 DEF AppendFull
  <2>4. current_buffer_' \in FixedBuffers
    BY <2>1, <2>2, <2>3, BufferAppendType
  <2>5. buffers_' \in Seq(FixedBuffers) /\ buffers_' # <<>>
    BY <1>0, <1>2 DEF AppendFull, TypeOK
  <2>6. /\ phase' \in Phases \ {"wait"}
        /\ phase' = "write" => phase = "write"
        /\ phase' \in {"test", "lock", "wait", "swap"} =>
             phase \in {"test", "lock", "wait", "swap"}
    BY <1>0, <1>2 DEF AppendFull, Notified, TypeOK, Phases
  <2>7. TypeOK'
    BY <1>0, <1>2, <2>1, <2>4, <2>5, <2>6 DEF AppendFull, TypeOK, back
  <2> QED
    BY <1>0, <1>2, <2>5, <2>6, <2>7
       DEF AppendFull, Inv, Shape, FullBufferWakes, back
<1>3. CASE Start \/ Stop \/ StopNotifies \/ StopJoins \/ TestRunning \/ Wait
           \/ WaitTimesOut
  <2>1. UNCHANGED <<front, back, output, now, appended>>
    BY <1>3 DEF Start, Stop, StopNotifies, StopJoins, TestRunning, Wait, WaitTimesOut
  <2>2. /\ running_' \in BOOLEAN /\ phase' \in Phases
        /\ owner' \in {"new", "started", "stopping", "joining", "stopped"}
    BY <1>0, <1>3 DEF Start, Stop, StopNotifies, StopJoins, TestRunning, Wait,
                      WaitTimesOut, TypeOK, Notified, Phases
  <2>3. /\ phase' = "write" => phase = "write"
        /\ phase' \in {"test", "lock", "wait", "swap"} =>
             phase \in {"test", "lock", "wait", "swap"}
        /\ phase' = "wait" => phase = "wait" \/ buffers_ = <<>>
    BY <1>3 DEF Start, Stop, StopNotifies, StopJoins, TestRunning, Wait,
                WaitTimesOut, Notified
  <2>4. TypeOK'
    BY <1>0, <2>1, <2>2, <2>3 DEF TypeOK, front, back
  <2> QED
    BY <1>0, <2>1, <2>3, <2>4 DEF Inv, Shape, FullBufferWakes, front, back
<1>4. CASE Begin
  <2>1. output' \in LogFiles /\ FileInv(output', now')
    BY <1>0, <1>4, NewFile DEF Begin, TypeOK
  <2>2. TypeOK'
    BY <1>0, <1>4, <2>1, BufferTypes DEF Begin, TypeOK, front, Phases
  <2> QED
    BY <1>0, <1>4, <2>1, <2>2 DEF Begin, Inv, Shape, FullBufferWakes, front
<1>5. CASE Swap
  <2>1. new_buffer1 \in FixedBuffers /\ new_buffer2 \in FixedBuffers
    BY <1>0, <1>5 DEF Swap, TypeOK
  <2>2. /\ buffersToWrite' \in Seq(FixedBuffers)
        /\ Len(buffersToWrite') = Len(buffers_) + 1 /\ Len(buffers_) \in Nat
    BY <1>0, <1>5 DEF Swap, TypeOK
  <2>3. next_buffer_' \in FixedBuffers /\ new_buffer2' \in FixedBuffers \cup {Null}
    BY <1>0, <1>5, <2>1 DEF Swap, TypeOK
  <2>4. new_buffer2' = Null => Len(buffersToWrite') >= 2
    <3>1. new_buffer2' = Null => next_buffer_ = Null
      BY <1>5, <2>1, BufferTypes DEF Swap
    <3>2. buffers_ # <<>> => Len(buffers_) >= 1
      BY <1>0 DEF TypeOK
    <3> QED
      BY <1>0, <2>2, <3>1, <3>2 DEF Shape
  <2>5. done_writing' \in 0..Len(buffersToWrite')
    BY <1>5, <2>2 DEF Swap
  <2>6. buffers_' \in Seq(FixedBuffers)
    BY <1>5 DEF Swap
  <2>7. TypeOK'
    BY <1>0, <1>5, <2>1, <2>2, <2>3, <2>5, <2>6 DEF Swap, TypeOK, Phases
  <2>8. Shape'
    BY <1>5, <2>2, <2>3, <2>4, BufferTypes DEF Swap, Shape
  <2> QED
    BY <1>0, <1>5, <2>7, <2>8 DEF Swap, Inv, FullBufferWakes
<1>6. CASE WriteBuffer
  <2>1. output' \in LogFiles /\ FileInv(output', now')
    BY <1>0, <1>6, AppendKeeps DEF WriteBuffer, TypeOK
  <2>2. done_writing' \in 0..Len(buffersToWrite')
    BY <1>0, <1>6 DEF WriteBuffer, TypeOK
  <2>3. TypeOK'
    BY <1>0, <1>6, <2>1, <2>2 DEF WriteBuffer, TypeOK, front
  <2> QED
    BY <1>0, <1>6, <2>1, <2>3 DEF WriteBuffer, Inv, Shape, FullBufferWakes, front
<1>7. CASE ReturnBuffers
  <2> DEFINE kept == Kept(buffersToWrite)
             rest == SubSeq(kept, 1, Len(kept) - 1)
  <2>1. new_buffer1 = Null /\ Len(buffersToWrite) >= 1
        /\ (new_buffer2 = Null => Len(buffersToWrite) >= 2)
    BY <1>0, <1>7 DEF ReturnBuffers, Shape
  <2>2. /\ kept \in Seq(FixedBuffers) /\ Len(kept) >= 1
        /\ new_buffer2 = Null => Len(kept) >= 2
    BY <1>0, <2>1, KeptType DEF TypeOK
  <2>3. rest \in Seq(FixedBuffers) /\ Len(rest) = Len(kept) - 1
    BY <2>2, FrontType
  <2>4. new_buffer1' = Back(kept)
        /\ new_buffer2' = IF new_buffer2 = Null THEN Back(rest) ELSE new_buffer2
    BY <1>7, <2>1 DEF ReturnBuffers
  <2> HIDE DEF kept, rest
  <2>5. new_buffer1' \in FixedBuffers
    BY <2>2, <2>4, BackType
  <2>6. new_buffer2' \in FixedBuffers
    <3>1. CASE new_buffer2 = Null
      <4>1. Len(rest) >= 1
        BY <2>2, <2>3, <3>1
      <4> QED
        BY <2>3, <2>4, <3>1, <4>1, BackType
    <3>2. CASE new_buffer2 # Null
      BY <1>0, <2>4, <3>2 DEF TypeOK
    <3> QED
      BY <3>1, <3>2
  <2>7. done_writing' \in 0..Len(buffersToWrite') /\ buffersToWrite' \in Seq(FixedBuffers)
    BY <1>7 DEF ReturnBuffers
  <2>8. TypeOK'
    BY <1>0, <1>7, <2>5, <2>6, <2>7, BufferTypes
       DEF ReturnBuffers, TypeOK, front, Phases
  <2> QED
    BY <1>0, <1>7, <2>8 DEF ReturnBuffers, Inv, Shape, FullBufferWakes, front
<1>8. CASE Tick
  <2>1. now' \in 1..MaxTime
    BY <1>0, <1>8, AsyncLoggingAssumption DEF Tick, TypeOK
  <2>2. FileInv(output', now')
    BY <1>0, <1>8, TimeKeeps DEF Tick, TypeOK
  <2>3. TypeOK'
    BY <1>0, <1>8, <2>1 DEF Tick, TypeOK, front, back
  <2> QED
    BY <1>0, <1>8, <2>2, <2>3 DEF Tick, Inv, Shape, FullBufferWakes, front, back
<1>9. CASE UNCHANGED vars
  <2>1. TypeOK'
    BY <1>0, <1>9 DEF TypeOK, vars, front, back
  <2> QED
    BY <1>0, <1>9, <2>1 DEF vars, Inv, Shape, FullBufferWakes, front, back
<1> QED
  BY <1>1, <1>2, <1>3, <1>4, <1>5, <1>6, <1>7, <1>8, <1>9 DEF Next, BackEnd

LEMMA InvHolds == Spec => []Inv
  BY InvInit, InvStep, PTL DEF Spec

\* Type correctness, and with it the buffers of ThreadFunc: back() is never
\* taken of an empty vector, and the pointers handed to the front end are not
\* null, however many buffers Append allocated meanwhile.
THEOREM TypeCorrect == Spec => []TypeOK
<1>1. Inv => TypeOK
  BY DEF Inv
<1> QED
  BY InvHolds, <1>1, PTL

\* The back end never waits while a full buffer is queued, and always has the
\* two buffers that its next swap needs.
THEOREM BackEndReadyHolds == Spec => []BackEndReady
<1>1. Inv => BackEndReady
  BY DEF Inv, TypeOK, BackEndReady
<1> QED
  BY InvHolds, <1>1, PTL

\* A log file takes fewer than check_every_n_ appends after its period has
\* ended, for every roll size and every length of the period.
THEOREM RollsAfterPeriodHolds == Spec => []RollsAfterPeriod
<1>1. Inv => RollsAfterPeriod
  <2> SUFFICES ASSUME Inv PROVE output.late < CheckEveryN
    BY DEF RollsAfterPeriod
  <2>1. /\ output.late \in Nat /\ output.count_ \in 0..(CheckEveryN - 1)
        /\ CheckEveryN \in Nat
    BY FileFields, LogFileAssumption DEF Inv, TypeOK
  <2>2. output.late <= output.count_
    BY DEF Inv, FileInv
  <2> QED
    BY <2>1, <2>2
<1> QED
  BY InvHolds, <1>1, PTL

-----------------------------------------------------------------------------
(* The lines.                                                               *)

\* Lines in n full buffers.
Base(n) == n * (Slots - 1)

Full(b) == b.curr_ = Slots - 1

\* The lines put in since the last Reset are those that follow line s.
Carries(b, s) == \A j \in 1..b.curr_ : b.data[j] = s + j

\* The other slots hold nothing, or one of the w lines in the files.
Stale(b, w) == \A j \in 1..Slots : j > b.curr_ => b.data[j] \in 0..w

\* All slots do.
Spent(b, w) == \A j \in 1..Slots : b.data[j] \in 0..w

\* The buffers to write, of which d are written: all but the last are full.
ToWrite(bs, d, w) ==
  /\ \A i \in 1..d : Spent(bs[i], w)
  /\ \A i \in (d + 1)..Len(bs) :
       /\ Carries(bs[i], w + Base(i - d - 1)) /\ Stale(bs[i], w)
       /\ i < Len(bs) => Full(bs[i])

\* The last line in the files when these are written.
AfterWrite(bs, d, w) ==
  IF d < Len(bs) THEN w + Base(Len(bs) - d - 1) + bs[Len(bs)].curr_ ELSE w

\* The front end: the queue and the current buffer hold the lines from m on.
InFront(bs, c, m, w, last) ==
  /\ \A i \in 1..Len(bs) : Carries(bs[i], m + Base(i - 1)) /\ Stale(bs[i], w) /\ Full(bs[i])
  /\ Carries(c, m + Base(Len(bs))) /\ Stale(c, w)
  /\ last = m + Base(Len(bs)) + c.curr_

\* A buffer in reserve.
Spare(b, w) == b # Null => b.curr_ = 0 /\ Stale(b, w)

\* The inductive invariant.  Between the buffers to write, the queue and the
\* current buffer there is no gap, and a slot not filled since the last Reset
\* holds no line that is missing in the files.
LineInv ==
  /\ written \in Seq(Nat) /\ \A i \in 1..Len(written) : written[i] = i
  /\ phase # "write" => buffersToWrite = <<>>
  /\ ToWrite(buffersToWrite, done_writing, Len(written))
  /\ InFront(buffers_, current_buffer_,
             AfterWrite(buffersToWrite, done_writing, Len(written)), Len(written), appended)
  /\ Spare(next_buffer_, Len(written)) /\ Spare(new_buffer1, Len(written))
  /\ Spare(new_buffer2, Len(written))

LEMMA SlotsType == Slots \in Nat /\ Slots > 1
BY AsyncLoggingAssumption

LEMMA BaseType ==
  ASSUME NEW n \in Nat
  PROVE  Base(n) \in Nat /\ Base(n + 1) = Base(n) + (Slots - 1) /\ Base(0) = 0
<1>1. PICK k \in Nat : k = Slots - 1
  BY SlotsType
<1>2. n * k \in Nat /\ (n + 1) * k = n * k + k /\ 0 * k = 0
  BY <1>1
<1> QED
  BY <1>1, <1>2 DEF Base

LEMMA CountTo ==
  ASSUME NEW n \in Nat
  PROVE  Cardinality(1..n) = n
<1>1. Cardinality(1..n) = IF 1 > n THEN 0 ELSE n - 1 + 1
  BY FS_Interval
<1> QED
  BY <1>1

LEMMA BufferParts ==
  \A b \in FixedBuffers : /\ b.curr_ \in 0..(Slots - 1) /\ b.curr_ \in Nat
                          /\ b.data \in [1..Slots -> Lines \cup {NoLine}]
                          /\ \A j \in 1..Slots : b.data[j] \in Nat
                          /\ \A j \in 1..b.curr_ : j \in 1..Slots
<1> SUFFICES ASSUME NEW b \in FixedBuffers
             PROVE  /\ b.curr_ \in 0..(Slots - 1) /\ b.curr_ \in Nat
                    /\ b.data \in [1..Slots -> Lines \cup {NoLine}]
                    /\ \A j \in 1..Slots : b.data[j] \in Nat
                    /\ \A j \in 1..b.curr_ : j \in 1..Slots
  OBVIOUS
<1>1. b.curr_ \in 0..(Slots - 1) /\ b.data \in [1..Slots -> Lines \cup {NoLine}]
  BY DEF FixedBuffers
<1>2. Lines \cup {NoLine} \subseteq Nat
  BY AsyncLoggingAssumption DEF Lines, NoLine
<1> QED
  BY <1>1, <1>2, SlotsType

LEMMA StaleLater ==
  ASSUME NEW b, NEW w \in Nat, NEW v \in Nat, w <= v
  PROVE  /\ Stale(b, w) => Stale(b, v)
         /\ Spent(b, w) => Spent(b, v)
         /\ Spare(b, w) => Spare(b, v)
<1>1. 0..w \subseteq 0..v
  OBVIOUS
<1> QED
  BY <1>1 DEF Stale, Spent, Spare

\* What Append does to a buffer that has room.
LEMMA AppendCarries ==
  ASSUME NEW b \in FixedBuffers, Avail(b) > 1, NEW s \in Nat, NEW w \in Nat,
         Carries(b, s), Stale(b, w)
  PROVE  /\ BufferAppend(b, s + b.curr_ + 1).curr_ = b.curr_ + 1
         /\ Carries(BufferAppend(b, s + b.curr_ + 1), s)
         /\ Stale(BufferAppend(b, s + b.curr_ + 1), w)
<1> DEFINE line == s + b.curr_ + 1
<1>1. PICK c : c = BufferAppend(b, line)
  OBVIOUS
<1>2. b.curr_ \in Nat /\ b.curr_ + 1 \in 1..Slots /\ DOMAIN b.data = 1..Slots
  BY BufferParts, SlotsType DEF Avail
<1>3. c.curr_ = b.curr_ + 1 /\ c.data = [b.data EXCEPT ![b.curr_ + 1] = line]
  BY <1>1 DEF BufferAppend
<1> HIDE DEF line
<1>4. /\ c.data[b.curr_ + 1] = line
      /\ \A j \in 1..Slots : j # b.curr_ + 1 => c.data[j] = b.data[j]
  BY <1>2, <1>3
<1>5. Carries(c, s)
  <2> SUFFICES ASSUME NEW j \in 1..c.curr_ PROVE c.data[j] = s + j
    BY DEF Carries
  <2>1. CASE j = b.curr_ + 1
    BY <1>2, <1>4, <2>1 DEF line
  <2>2. CASE j # b.curr_ + 1
    <3>1. j \in 1..b.curr_ /\ j \in 1..Slots
      BY <1>2, <1>3, <2>2, SlotsType
    <3> QED
      BY <1>4, <2>2, <3>1 DEF Carries
  <2> QED
    BY <2>1, <2>2
<1>6. Stale(c, w)
  <2> SUFFICES ASSUME NEW j \in 1..Slots, j > c.curr_ PROVE c.data[j] \in 0..w
    BY DEF Stale
  <2>1. j # b.curr_ + 1 /\ j > b.curr_
    BY <1>2, <1>3
  <2> QED
    BY <1>4, <2>1 DEF Stale
<1> QED
  BY <1>1, <1>3, <1>5, <1>6 DEF line

\* Writing a buffer puts its lines, and nothing else, behind those in the files.
LEMMA NewLinesAre ==
  ASSUME written \in Seq(Nat), \A i \in 1..Len(written) : written[i] = i,
         NEW b \in FixedBuffers, Carries(b, Len(written)), Stale(b, Len(written))
  PROVE  NewLines(b) = [n \in 1..b.curr_ |-> Len(written) + n]
<1> DEFINE new == {j \in 1..Slots : IsNew(b.data[j])}
           Slot(n) == CHOOSE j \in new : Cardinality({i \in new : i <= j}) = n
           w == Len(written)
<1>1. w \in Nat /\ DOMAIN written = 1..w /\ b.curr_ \in Nat /\ Slots \in Nat
  BY BufferParts, SlotsType
<1> HIDE DEF w
<1>2. ASSUME NEW line \in Nat PROVE IsNew(line) <=> line \notin 0..w
  <2>1. CASE line \in 1..w
    BY <1>1, <2>1 DEF IsNew, w
  <2>2. CASE line = 0
    BY <1>1, <2>2 DEF IsNew, NoLine
  <2>3. CASE line > w
    BY <1>1, <2>3 DEF IsNew, NoLine, w
  <2> QED
    BY <1>1, <2>1, <2>2, <2>3
<1>3. \A j \in 1..Slots : b.data[j] \in Nat
  BY BufferParts
<1>4. \A j \in 1..b.curr_ : j \in 1..Slots
  BY BufferParts
<1>5. ASSUME NEW j \in 1..Slots PROVE IsNew(b.data[j]) <=> j \in 1..b.curr_
  <2>1. CASE j \in 1..b.curr_
    <3>1. b.data[j] = w + j
      BY <2>1 DEF Carries, w
    <3> QED
      BY <1>1, <1>2, <1>3, <1>5, <2>1, <3>1
  <2>2. CASE j \notin 1..b.curr_
    <3>1. b.data[j] \in 0..w
      BY <1>1, <1>5, <2>2 DEF Stale, w
    <3> QED
      BY <1>2, <1>3, <1>5, <2>2, <3>1
  <2> QED
    BY <2>1, <2>2
<1>6. new = 1..b.curr_
  BY <1>4, <1>5
<1> HIDE DEF new
<1>7. Cardinality(new) = b.curr_
  BY <1>1, <1>6, CountTo
<1>8. ASSUME NEW n \in 1..b.curr_ PROVE Slot(n) = n
  <2>1. ASSUME NEW j \in new PROVE Cardinality({i \in new : i <= j}) = j
    <3>1. j \in Nat /\ 1 <= j /\ j <= b.curr_
      BY <1>1, <1>6, <2>1
    <3>2. {i \in new : i <= j} = 1..j
      BY <1>1, <1>6, <3>1
    <3> QED
      BY <3>1, <3>2, CountTo
  <2>2. n \in new
    BY <1>6, <1>8
  <2>3. \E j \in new : Cardinality({i \in new : i <= j}) = n
    BY <2>1, <2>2
  <2>4. Slot(n) \in new /\ Cardinality({i \in new : i <= Slot(n)}) = n
    BY <2>3
  <2> HIDE DEF Slot
  <2> QED
    BY <2>1, <2>4
<1>9. NewLines(b) = [n \in 1..b.curr_ |-> b.data[Slot(n)]]
  BY <1>7 DEF NewLines, new
<1> HIDE DEF Slot
<1>10. \A n \in 1..b.curr_ : b.data[Slot(n)] = w + n
  BY <1>8 DEF Carries, w
<1> QED
  BY <1>9, <1>10 DEF w

\* Append with room.
LEMMA FitsInFront ==
  ASSUME NEW bs \in Seq(FixedBuffers), NEW c \in FixedBuffers, NEW m \in Nat, NEW w \in Nat,
         NEW last \in Nat, InFront(bs, c, m, w, last), Avail(c) > 1
  PROVE  InFront(bs, BufferAppend(c, last + 1), m, w, last + 1)
<1>1. Len(bs) \in Nat /\ Base(Len(bs)) \in Nat /\ c.curr_ \in Nat
  BY BaseType, BufferParts
<1>2. PICK s \in Nat : s = m + Base(Len(bs))
  BY <1>1
<1>3. Carries(c, s) /\ Stale(c, w) /\ last = s + c.curr_
  BY <1>2 DEF InFront
<1>4. PICK e : e = BufferAppend(c, s + c.curr_ + 1)
  OBVIOUS
<1>5. e.curr_ = c.curr_ + 1 /\ Carries(e, s) /\ Stale(e, w)
  BY <1>3, <1>4, AppendCarries
<1>6. e = BufferAppend(c, last + 1) /\ last + 1 = s + e.curr_
  BY <1>1, <1>3, <1>4, <1>5
<1>7. InFront(bs, e, m, w, last + 1)
  BY <1>2, <1>5, <1>6 DEF InFront
<1> QED
  BY <1>6, <1>7

\* Append without room: the buffer is full and goes to the end of the queue.
LEMMA FullInFront ==
  ASSUME NEW bs \in Seq(FixedBuffers), NEW c \in FixedBuffers, NEW m \in Nat, NEW w \in Nat,
         NEW last \in Nat, InFront(bs, c, m, w, last), ~(Avail(c) > 1),
         NEW b \in FixedBuffers, b.curr_ = 0, Stale(b, w)
  PROVE  InFront(Append(bs, c), BufferAppend(b, last + 1), m, w, last + 1)
<1>1. /\ Len(bs) \in Nat /\ Base(Len(bs)) \in Nat
      /\ Base(Len(bs) + 1) = Base(Len(bs)) + (Slots - 1)
  BY BaseType
<1>2. c.curr_ = Slots - 1
  BY BufferParts, SlotsType DEF Avail
<1>3. last = m + Base(Len(bs) + 1)
  BY <1>1, <1>2, SlotsType DEF InFront
<1>4. Carries(b, last) /\ Avail(b) > 1 /\ last + b.curr_ + 1 = last + 1
  BY SlotsType DEF Carries, Avail
<1>5. PICK e : e = BufferAppend(b, last + 1)
  OBVIOUS
<1>6. e.curr_ = 1 /\ Carries(e, last) /\ Stale(e, w)
  BY <1>4, <1>5, AppendCarries
<1>7. PICK bt \in Seq(FixedBuffers) : bt = Append(bs, c)
  BY AppendProperties
<1>8. /\ Len(bt) = Len(bs) + 1 /\ bt[Len(bs) + 1] = c
      /\ \A i \in 1..Len(bs) : bt[i] = bs[i]
  BY <1>7
<1>9. ASSUME NEW i \in 1..Len(bt)
      PROVE  Carries(bt[i], m + Base(i - 1)) /\ Stale(bt[i], w) /\ Full(bt[i])
  <2>1. CASE i = Len(bs) + 1
    <3>1. i - 1 = Len(bs)
      BY <1>1, <2>1
    <3> QED
      BY <1>2, <1>8, <2>1, <3>1 DEF InFront, Full
  <2>2. CASE i \in 1..Len(bs)
    BY <1>8, <2>2 DEF InFront
  <2> QED
    BY <1>1, <1>8, <1>9, <2>1, <2>2
<1>10. InFront(bt, e, m, w, last + 1)
  BY <1>3, <1>6, <1>8, <1>9 DEF InFront
<1> QED
  BY <1>5, <1>7, <1>10

\* The swap: all that was in front is to be written.
LEMMA SwapsFront ==
  ASSUME NEW bs \in Seq(FixedBuffers), NEW c \in FixedBuffers, NEW w \in Nat,
         NEW last \in Nat, InFront(bs, c, w, w, last),
         NEW b \in FixedBuffers, b.curr_ = 0, Stale(b, w)
  PROVE  /\ ToWrite(Append(bs, c), 0, w) /\ AfterWrite(Append(bs, c), 0, w) = last
         /\ InFront(<<>>, b, last, w, last)
<1>1. Len(bs) \in Nat /\ Base(Len(bs)) \in Nat /\ c.curr_ \in Nat /\ Base(0) = 0
  BY BaseType, BufferParts
<1>2. PICK bt \in Seq(FixedBuffers) : bt = Append(bs, c)
  BY AppendProperties
<1>3. /\ Len(bt) = Len(bs) + 1 /\ bt[Len(bs) + 1] = c
      /\ \A i \in 1..Len(bs) : bt[i] = bs[i]
  BY <1>2
<1>4. ASSUME NEW i \in 1..Len(bt)
      PROVE  Carries(bt[i], w + Base(i - 1)) /\ Stale(bt[i], w) /\ (i < Len(bt) => Full(bt[i]))
  <2>1. CASE i = Len(bs) + 1
    <3>1. i - 1 = Len(bs) /\ ~(i < Len(bt))
      BY <1>1, <1>3, <2>1
    <3> QED
      BY <1>3, <2>1, <3>1 DEF InFront
  <2>2. CASE i \in 1..Len(bs)
    BY <1>3, <2>2 DEF InFront
  <2> QED
    BY <1>1, <1>3, <1>4, <2>1, <2>2
<1>5. ToWrite(bt, 0, w)
  <2>1. \A i \in 1..0 : FALSE
    OBVIOUS
  <2>2. \A i \in (0 + 1)..Len(bt) : i \in 1..Len(bt) /\ i - 0 - 1 = i - 1
    BY <1>1, <1>3
  <2> QED
    BY <1>4, <2>1, <2>2 DEF ToWrite
<1>6. AfterWrite(bt, 0, w) = last
  <2>1. 0 < Len(bt) /\ Len(bt) - 0 - 1 = Len(bs) /\ bt[Len(bt)] = c
    BY <1>1, <1>3
  <2>2. AfterWrite(bt, 0, w) = w + Base(Len(bs)) + c.curr_
    BY <2>1 DEF AfterWrite
  <2> QED
    BY <2>2 DEF InFront
<1>7. InFront(<<>>, b, last, w, last)
  <2>1. Len(<<>>) = 0 /\ last + Base(0) = last /\ last = last + Base(0) + b.curr_
    BY <1>1
  <2>2. Carries(b, last + Base(0))
    BY DEF Carries
  <2> QED
    BY <2>1, <2>2 DEF InFront
<1> QED
  BY <1>2, <1>5, <1>6, <1>7

\* One more buffer is in the files.
LEMMA WritesOne ==
  ASSUME NEW bs \in Seq(FixedBuffers), NEW d \in Nat, d < Len(bs), NEW w \in Nat,
         NEW v, v = w + bs[d + 1].curr_, ToWrite(bs, d, w)
  PROVE  /\ v \in Nat /\ w <= v /\ ToWrite(bs, d + 1, v)
         /\ AfterWrite(bs, d + 1, v) = AfterWrite(bs, d, w)
         /\ Carries(bs[d + 1], w) /\ Stale(bs[d + 1], w)
<1> DEFINE b == bs[d + 1]
<1>1. Len(bs) \in Nat /\ d + 1 \in 1..Len(bs) /\ d + 1 \in (d + 1)..Len(bs)
  OBVIOUS
<1>2. b \in FixedBuffers /\ b.curr_ \in Nat
  BY <1>1, BufferParts
<1>3. v \in Nat /\ w <= v
  BY <1>2
<1>4. Carries(b, w) /\ Stale(b, w)
  <2>1. Carries(b, w + Base(d + 1 - d - 1)) /\ Stale(b, w)
    BY <1>1 DEF ToWrite
  <2>2. d + 1 - d - 1 = 0 /\ w + Base(0) = w
    BY BaseType
  <2> QED
    BY <2>1, <2>2
<1>5. Spent(b, v)
  <2> SUFFICES ASSUME NEW j \in 1..Slots PROVE b.data[j] \in 0..v
    BY DEF Spent
  <2>1. CASE j > b.curr_
    BY <1>3, <1>4, <2>1 DEF Stale
  <2>2. CASE ~(j > b.curr_)
    <3>1. j \in 1..b.curr_
      BY <1>2, <2>2, SlotsType
    <3>2. b.data[j] = w + j
      BY <1>4, <3>1 DEF Carries
    <3> QED
      BY <1>2, <3>1, <3>2
  <2> QED
    BY <2>1, <2>2
<1>6. d + 1 < Len(bs) => v = w + (Slots - 1)
  BY <1>1 DEF ToWrite, Full
<1> HIDE DEF b
<1>7. ASSUME NEW k \in Nat, d + 1 < Len(bs) PROVE v + Base(k) = w + Base(k + 1)
  <2>1. Base(k) \in Nat /\ Base(k + 1) = Base(k) + (Slots - 1)
    BY BaseType
  <2> QED
    BY <1>6, <1>7, <2>1, SlotsType
<1>8. ASSUME NEW i \in (d + 1 + 1)..Len(bs)
      PROVE  /\ Carries(bs[i], v + Base(i - (d + 1) - 1)) /\ Stale(bs[i], v)
             /\ i < Len(bs) => Full(bs[i])
  <2>1. i \in (d + 1)..Len(bs) /\ i - (d + 1) - 1 \in Nat /\ d + 1 < Len(bs)
        /\ i - (d + 1) - 1 + 1 = i - d - 1
    BY <1>1, <1>8
  <2>2. v + Base(i - (d + 1) - 1) = w + Base(i - d - 1)
    BY <1>7, <2>1
  <2>3. Carries(bs[i], w + Base(i - d - 1)) /\ Stale(bs[i], w) /\ (i < Len(bs) => Full(bs[i]))
    BY <2>1 DEF ToWrite
  <2> QED
    BY <1>3, <2>2, <2>3, StaleLater
<1>9. ASSUME NEW i \in 1..(d + 1) PROVE Spent(bs[i], v)
  <2>1. CASE i = d + 1
    BY <1>5, <2>1 DEF b
  <2>2. CASE i # d + 1
    <3>1. i \in 1..d
      BY <1>9, <2>2
    <3> QED
      BY <1>3, <3>1, StaleLater DEF ToWrite
  <2> QED
    BY <2>1, <2>2
<1>10. ToWrite(bs, d + 1, v)
  BY <1>8, <1>9 DEF ToWrite
<1>11. AfterWrite(bs, d + 1, v) = AfterWrite(bs, d, w)
  <2>1. AfterWrite(bs, d, w) = w + Base(Len(bs) - d - 1) + bs[Len(bs)].curr_
    BY DEF AfterWrite
  <2>2. CASE d + 1 < Len(bs)
    <3>1. Len(bs) - (d + 1) - 1 \in Nat /\ Len(bs) - (d + 1) - 1 + 1 = Len(bs) - d - 1
      BY <1>1, <2>2
    <3>2. v + Base(Len(bs) - (d + 1) - 1) = w + Base(Len(bs) - d - 1)
      BY <1>7, <2>2, <3>1
    <3> QED
      BY <2>1, <2>2, <3>2 DEF AfterWrite
  <2>3. CASE d + 1 = Len(bs)
    <3>1. Len(bs) - d - 1 = 0 /\ ~(d + 1 < Len(bs)) /\ w + Base(0) = w
      <4>1. Base(0) = 0
        BY BaseType
      <4> QED
        BY <1>1, <2>3, <4>1
    <3> QED
      BY <2>1, <2>3, <3>1 DEF AfterWrite
  <2> QED
    BY <1>1, <2>2, <2>3
<1> QED
  BY <1>3, <1>4, <1>10, <1>11 DEF b

LEMMA InFrontLater ==
  ASSUME NEW bs, NEW c, NEW m, NEW last, NEW w \in Nat, NEW v \in Nat, w <= v,
         InFront(bs, c, m, w, last)
  PROVE  InFront(bs, c, m, v, last)
BY StaleLater DEF InFront

LEMMA AfterWriteType ==
  ASSUME NEW bs \in Seq(FixedBuffers), NEW d \in 0..Len(bs), NEW w \in Nat
  PROVE  AfterWrite(bs, d, w) \in Nat
<1>1. CASE d < Len(bs)
  <2>1. Len(bs) - d - 1 \in Nat /\ bs[Len(bs)] \in FixedBuffers
    BY <1>1
  <2>2. Base(Len(bs) - d - 1) \in Nat /\ bs[Len(bs)].curr_ \in Nat
    BY <2>1, BaseType, BufferParts
  <2> QED
    BY <1>1, <2>2 DEF AfterWrite
<1>2. CASE ~(d < Len(bs))
  BY <1>2 DEF AfterWrite
<1> QED
  BY <1>1, <1>2

\* What is written can be used again.
LEMMA SpentIsSpare ==
  ASSUME NEW b \in FixedBuffers, NEW w \in Nat, Spent(b, w)
  PROVE  Spare(Reset(b), w)
<1>1. Reset(b).curr_ = 0 /\ Reset(b).data = b.data
  BY DEF Reset, FixedBuffers
<1> QED
  BY <1>1 DEF Spare, Stale, Spent

LEMMA NewIsSpare ==
  ASSUME NEW w \in Nat
  PROVE  Spare(NewFixedBuffer, w) /\ Spare(Null, w)
BY DEF Spare, Stale, NewFixedBuffer, NoLine

LEMMA LineParts ==
  ASSUME Inv, LineInv
  PROVE  /\ current_buffer_ \in FixedBuffers /\ next_buffer_ \in FixedBuffers \cup {Null}
         /\ buffers_ \in Seq(FixedBuffers) /\ buffersToWrite \in Seq(FixedBuffers)
         /\ new_buffer1 \in FixedBuffers \cup {Null}
         /\ new_buffer2 \in FixedBuffers \cup {Null}
         /\ done_writing \in 0..Len(buffersToWrite) /\ done_writing \in Nat
         /\ appended \in Nat /\ Len(written) \in Nat
         /\ AfterWrite(buffersToWrite, done_writing, Len(written)) \in Nat
<1>1. /\ current_buffer_ \in FixedBuffers /\ next_buffer_ \in FixedBuffers \cup {Null}
      /\ buffers_ \in Seq(FixedBuffers) /\ buffersToWrite \in Seq(FixedBuffers)
      /\ new_buffer1 \in FixedBuffers \cup {Null}
      /\ new_buffer2 \in FixedBuffers \cup {Null}
      /\ done_writing \in 0..Len(buffersToWrite) /\ appended \in 0..MaxLines
  BY DEF Inv, TypeOK
<1>2. Len(written) \in Nat /\ written \in Seq(Nat)
  BY DEF LineInv
<1>3. done_writing \in Nat /\ appended \in Nat
  BY <1>1, AsyncLoggingAssumption
<1> QED
  BY <1>1, <1>2, <1>3, AfterWriteType

LEMMA LineInvInit == Init => LineInv
<1> SUFFICES ASSUME Init PROVE LineInv
  OBVIOUS
<1>1. /\ written = <<>> /\ buffersToWrite = <<>> /\ buffers_ = <<>> /\ done_writing = 0
      /\ current_buffer_ = NewFixedBuffer /\ next_buffer_ = NewFixedBuffer
      /\ new_buffer1 = Null /\ new_buffer2 = Null /\ appended = 0
  BY DEF Init
<1>2. written \in Seq(Nat) /\ Len(written) = 0 /\ \A i \in 1..0 : FALSE
  BY <1>1
<1>3. \A i \in (0 + 1)..0 : FALSE
  OBVIOUS
<1>4. ToWrite(<<>>, 0, 0) /\ AfterWrite(<<>>, 0, 0) = 0
  BY <1>2, <1>3 DEF ToWrite, AfterWrite
<1>5. /\ NewFixedBuffer \in FixedBuffers /\ NewFixedBuffer.curr_ = 0
      /\ Stale(NewFixedBuffer, 0)
  BY BufferTypes DEF NewFixedBuffer, Stale, NoLine
<1>6. InFront(<<>>, NewFixedBuffer, 0, 0, 0)
  <2>1. Len(<<>>) = 0 /\ Base(0) = 0 /\ 0 + Base(0) = 0
    BY BaseType
  <2>2. Carries(NewFixedBuffer, 0)
    BY <1>5 DEF Carries
  <2> QED
    BY <1>5, <2>1, <2>2 DEF InFront
<1>7. Spare(NewFixedBuffer, 0) /\ Spare(Null, 0)
  BY NewIsSpare
<1> QED
  BY <1>1, <1>2, <1>4, <1>6, <1>7 DEF LineInv

LEMMA AppendFitsLines ==
  ASSUME Inv, LineInv, AppendFits
  PROVE  LineInv'
<1>1. PICK m : m = AfterWrite(buffersToWrite, done_writing, Len(written))
  OBVIOUS
<1>2. /\ current_buffer_' = BufferAppend(current_buffer_, appended + 1)
      /\ appended' = appended + 1 /\ Avail(current_buffer_) > 1
      /\ UNCHANGED <<next_buffer_, buffers_, new_buffer1, new_buffer2, buffersToWrite,
                     done_writing, phase, written>>
  BY DEF AppendFits, back
<1>3. InFront(buffers_, current_buffer_, m, Len(written), appended)
  BY <1>1 DEF LineInv
<1>4. InFront(buffers_, BufferAppend(current_buffer_, appended + 1), m, Len(written),
              appended + 1)
  BY <1>1, <1>2, <1>3, LineParts, FitsInFront
<1>5. InFront(buffers_', current_buffer_', m, Len(written'), appended')
  BY <1>2, <1>4
<1>6. m = AfterWrite(buffersToWrite', done_writing', Len(written'))
  BY <1>1, <1>2
<1> QED
  BY <1>2, <1>5, <1>6 DEF LineInv

LEMMA AppendFullLines ==
  ASSUME Inv, LineInv, AppendFull
  PROVE  LineInv'
<1>1. PICK m : m = AfterWrite(buffersToWrite, done_writing, Len(written))
  OBVIOUS
<1>2. PICK b : b = IF next_buffer_ # Null THEN next_buffer_ ELSE NewFixedBuffer
  OBVIOUS
<1>3. /\ current_buffer_' = BufferAppend(b, appended + 1)
      /\ buffers_' = Append(buffers_, current_buffer_) /\ next_buffer_' = Null
      /\ appended' = appended + 1 /\ ~(Avail(current_buffer_) > 1) /\ phase' = Notified
      /\ UNCHANGED <<new_buffer1, new_buffer2, buffersToWrite, done_writing, written>>
  BY <1>2 DEF AppendFull, back
<1>4. b \in FixedBuffers /\ b.curr_ = 0 /\ Stale(b, Len(written))
  <2>1. CASE next_buffer_ # Null
    BY <1>2, <2>1, LineParts DEF LineInv, Spare
  <2>2. CASE next_buffer_ = Null
    BY <1>2, <2>2, LineParts, BufferTypes DEF NewFixedBuffer, Stale, NoLine
  <2> QED
    BY <2>1, <2>2
<1>5. InFront(buffers_, current_buffer_, m, Len(written), appended)
  BY <1>1 DEF LineInv
<1>6. InFront(Append(buffers_, current_buffer_), BufferAppend(b, appended + 1), m,
              Len(written), appended + 1)
  BY <1>1, <1>3, <1>4, <1>5, LineParts, FullInFront
<1>7. InFront(buffers_', current_buffer_', m, Len(written'), appended')
  BY <1>3, <1>6
<1>8. m = AfterWrite(buffersToWrite', done_writing', Len(written'))
  BY <1>1, <1>3
<1>9. phase' # "write" => phase # "write"
  BY <1>3 DEF Notified
<1>10. Spare(Null, Len(written'))
  BY <1>3, LineParts, NewIsSpare
<1> QED
  BY <1>3, <1>7, <1>8, <1>9, <1>10 DEF LineInv

LEMMA SwapLines ==
  ASSUME Inv, LineInv, Swap
  PROVE  LineInv'
<1>1. PICK w : w = Len(written)
  OBVIOUS
<1>2. /\ buffersToWrite' = Append(buffers_, current_buffer_) /\ buffers_' = <<>>
      /\ current_buffer_' = new_buffer1 /\ new_buffer1' = Null
      /\ phase' = "write" /\ done_writing' = 0 /\ UNCHANGED <<appended, written>>
  BY DEF Swap
<1>3. Spare(next_buffer_', w) /\ Spare(new_buffer2', w)
  <2>1. Spare(new_buffer2, w) /\ Spare(next_buffer_, w) /\ Spare(Null, w)
    BY <1>1, LineParts, NewIsSpare DEF LineInv
  <2>2. CASE next_buffer_ = Null
    <3>1. next_buffer_' = new_buffer2 /\ new_buffer2' = Null
      BY <2>2 DEF Swap
    <3> QED
      BY <2>1, <3>1
  <2>3. CASE next_buffer_ # Null
    <3>1. next_buffer_' = next_buffer_ /\ new_buffer2' = new_buffer2
      BY <2>3 DEF Swap
    <3> QED
      BY <2>1, <3>1
  <2> QED
    BY <2>2, <2>3
<1>4. new_buffer1 \in FixedBuffers /\ new_buffer1.curr_ = 0 /\ Stale(new_buffer1, w)
  <2>1. new_buffer1 # Null
    BY DEF Swap, Inv, TypeOK
  <2> QED
    BY <1>1, <2>1, LineParts DEF LineInv, Spare
<1>5. phase # "write" /\ buffersToWrite = <<>>
  BY DEF Swap, LineInv
<1>6. AfterWrite(buffersToWrite, done_writing, w) = w
  <2>1. Len(buffersToWrite) = 0 /\ ~(done_writing < 0)
    BY <1>5, LineParts
  <2> QED
    BY <2>1 DEF AfterWrite
<1>7. InFront(buffers_, current_buffer_, w, w, appended)
  BY <1>1, <1>6 DEF LineInv
<1>8. /\ ToWrite(Append(buffers_, current_buffer_), 0, w)
      /\ AfterWrite(Append(buffers_, current_buffer_), 0, w) = appended
      /\ InFront(<<>>, new_buffer1, appended, w, appended)
  BY <1>1, <1>4, <1>7, LineParts, SwapsFront
<1>9. /\ ToWrite(buffersToWrite', done_writing', w)
      /\ AfterWrite(buffersToWrite', done_writing', w) = appended
      /\ InFront(buffers_', current_buffer_', appended, w, appended')
  BY <1>2, <1>8
<1>10. Len(written') = w /\ Spare(new_buffer1', w)
  BY <1>1, <1>2, LineParts, NewIsSpare
<1>11. written' \in Seq(Nat) /\ \A i \in 1..w : written'[i] = i
  BY <1>1, <1>2 DEF LineInv
<1> QED
  BY <1>2, <1>3, <1>9, <1>10, <1>11 DEF LineInv

LEMMA WriteBufferLines ==
  ASSUME Inv, LineInv, WriteBuffer
  PROVE  LineInv'
<1>1. PICK w : w = Len(written)
  OBVIOUS
<1>2. PICK b : b = buffersToWrite[done_writing + 1]
  OBVIOUS
<1>3. /\ done_writing < Len(buffersToWrite) /\ done_writing' = done_writing + 1
      /\ written' = written \o NewLines(b) /\ phase = "write"
      /\ UNCHANGED <<next_buffer_, current_buffer_, buffers_, new_buffer1, new_buffer2,
                     buffersToWrite, phase, appended>>
  BY <1>2 DEF WriteBuffer, front
<1>4. /\ w \in Nat /\ written \in Seq(Nat) /\ \A i \in 1..w : written[i] = i
      /\ ToWrite(buffersToWrite, done_writing, w)
  BY <1>1, LineParts DEF LineInv
<1>5. b \in FixedBuffers /\ b.curr_ \in Nat
  <2>1. b \in FixedBuffers
    BY <1>2, <1>3, LineParts
  <2> QED
    BY <2>1, BufferParts
<1>6. PICK v : v = w + b.curr_
  OBVIOUS
<1>7. /\ v \in Nat /\ w <= v /\ ToWrite(buffersToWrite, done_writing + 1, v)
      /\ AfterWrite(buffersToWrite, done_writing + 1, v)
           = AfterWrite(buffersToWrite, done_writing, w)
      /\ Carries(b, w) /\ Stale(b, w)
  <2>1. v = w + buffersToWrite[done_writing + 1].curr_
    BY <1>2, <1>6
  <2>2. buffersToWrite \in Seq(FixedBuffers) /\ done_writing \in Nat
    BY LineParts
  <2>3. /\ v \in Nat /\ w <= v /\ ToWrite(buffersToWrite, done_writing + 1, v)
        /\ AfterWrite(buffersToWrite, done_writing + 1, v)
             = AfterWrite(buffersToWrite, done_writing, w)
        /\ Carries(buffersToWrite[done_writing + 1], w)
        /\ Stale(buffersToWrite[done_writing + 1], w)
    BY ONLY <1>3, <1>4, <2>1, <2>2, WritesOne
  <2> QED
    BY <1>2, <2>3
<1>8. PICK new : new = [n \in 1..b.curr_ |-> w + n]
  OBVIOUS
<1>9. NewLines(b) = new
  BY <1>1, <1>4, <1>5, <1>7, <1>8, NewLinesAre
<1>10. /\ new \in Seq(Nat) /\ Len(new) = b.curr_
       /\ \A n \in 1..b.curr_ : new[n] = w + n
  <2>1. \A n \in 1..b.curr_ : w + n \in Nat
    BY <1>4, <1>5
  <2> QED
    BY <1>5, <1>8, <2>1
<1>11. /\ written' \in Seq(Nat) /\ Len(written') = v
       /\ \A i \in 1..v : written'[i] = IF i <= w THEN written[i] ELSE new[i - w]
  <2>1. written' = written \o new
    BY <1>3, <1>9
  <2>2. /\ written \o new \in Seq(Nat) /\ Len(written \o new) = Len(written) + Len(new)
        /\ \A i \in 1..Len(written) + Len(new) :
             (written \o new)[i] = IF i <= Len(written) THEN written[i]
                                                        ELSE new[i - Len(written)]
    BY <1>4, <1>10, ConcatProperties
  <2> QED
    BY <1>1, <1>6, <1>10, <2>1, <2>2
<1>12. \A i \in 1..v : written'[i] = i
  <2> SUFFICES ASSUME NEW i \in 1..v PROVE written'[i] = i
    OBVIOUS
  <2>1. CASE i <= w
    BY <1>4, <1>7, <1>11, <2>1
  <2>2. CASE ~(i <= w)
    <3>1. i - w \in 1..b.curr_ /\ w + (i - w) = i
      BY <1>4, <1>5, <1>6, <1>7, <2>2
    <3> QED
      BY <1>10, <1>11, <2>2, <3>1
  <2> QED
    BY <2>1, <2>2
<1>13. InFront(buffers_', current_buffer_', AfterWrite(buffersToWrite', done_writing', v), v,
               appended')
  <2>1. InFront(buffers_, current_buffer_, AfterWrite(buffersToWrite, done_writing, w), w,
                appended)
    BY <1>1 DEF LineInv
  <2>2. InFront(buffers_, current_buffer_, AfterWrite(buffersToWrite, done_writing, w), v,
                appended)
    BY <1>4, <1>7, <2>1, InFrontLater
  <2> QED
    BY <1>3, <1>7, <2>2
<1>14. Spare(next_buffer_', v) /\ Spare(new_buffer1', v) /\ Spare(new_buffer2', v)
  <2>1. Spare(next_buffer_, w) /\ Spare(new_buffer1, w) /\ Spare(new_buffer2, w)
    BY <1>1 DEF LineInv
  <2>2. Spare(next_buffer_, v) /\ Spare(new_buffer1, v) /\ Spare(new_buffer2, v)
    BY <1>4, <1>7, <2>1, StaleLater
  <2> QED
    BY <1>3, <2>2
<1>15. ToWrite(buffersToWrite', done_writing', v)
  BY <1>3, <1>7
<1> QED
  BY <1>3, <1>11, <1>12, <1>13, <1>14, <1>15 DEF LineInv

\* Each of the buffers that ReturnBuffers takes is one of those written.
LEMMA BackIsSpare ==
  ASSUME NEW us \in Seq(FixedBuffers), NEW bs \in Seq(FixedBuffers), NEW w \in Nat,
         \A i \in 1..Len(us) : Spent(us[i], w), Len(bs) <= Len(us),
         \A i \in 1..Len(bs) : bs[i] = us[i]
  PROVE  Spare(Back(bs), w)
<1>1. CASE bs = <<>>
  BY <1>1, NewIsSpare DEF Back
<1>2. CASE bs # <<>>
  <2>1. Len(bs) \in 1..Len(bs) /\ Len(bs) \in 1..Len(us) /\ bs[Len(bs)] \in FixedBuffers
    BY <1>2
  <2>2. Spent(bs[Len(bs)], w)
    BY <2>1
  <2> QED
    BY <1>2, <2>1, <2>2, SpentIsSpare DEF Back
<1> QED
  BY <1>1, <1>2

LEMMA ReturnBuffersLines ==
  ASSUME Inv, LineInv, ReturnBuffers
  PROVE  LineInv'
<1>1. PICK w : w = Len(written)
  OBVIOUS
<1>2. PICK kept : kept = Kept(buffersToWrite)
  OBVIOUS
<1>3. PICK rest : rest = IF new_buffer1 = Null THEN SubSeq(kept, 1, Len(kept) - 1) ELSE kept
  OBVIOUS
<1>4. /\ phase = "write" /\ done_writing = Len(buffersToWrite)
      /\ new_buffer1' = IF new_buffer1 = Null THEN Back(kept) ELSE new_buffer1
      /\ new_buffer2' = IF new_buffer2 = Null THEN Back(rest) ELSE new_buffer2
      /\ buffersToWrite' = <<>> /\ done_writing' = 0
      /\ UNCHANGED <<next_buffer_, current_buffer_, buffers_, appended, written>>
  BY <1>2, <1>3 DEF ReturnBuffers, front
<1>5. /\ w \in Nat /\ written \in Seq(Nat) /\ \A i \in 1..w : written[i] = i
      /\ \A i \in 1..Len(buffersToWrite) : Spent(buffersToWrite[i], w)
      /\ buffersToWrite \in Seq(FixedBuffers)
  BY <1>1, <1>4, LineParts DEF LineInv, ToWrite
<1>6. new_buffer1 = Null /\ Len(buffersToWrite) >= 1
  BY <1>4 DEF Inv, Shape
<1>7. /\ kept \in Seq(FixedBuffers) /\ Len(kept) >= 1 /\ Len(kept) <= Len(buffersToWrite)
      /\ \A i \in 1..Len(kept) : kept[i] = buffersToWrite[i]
  <2>1. kept \in Seq(FixedBuffers) /\ Len(kept) >= 1
    BY <1>2, <1>5, <1>6, KeptType
  <2>2. CASE Len(buffersToWrite) > 2
    <3>1. kept = SubSeq(buffersToWrite, 1, 2)
      BY <1>2, <2>2 DEF Kept
    <3>2. kept = [i \in 1..2 |-> buffersToWrite[i]]
      BY <1>5, <2>2, <3>1
    <3> QED
      BY <2>1, <2>2, <3>2
  <2>3. CASE ~(Len(buffersToWrite) > 2)
    BY <1>2, <1>5, <2>1, <2>3 DEF Kept
  <2> QED
    BY <2>2, <2>3
<1>8. /\ rest \in Seq(FixedBuffers) /\ Len(rest) <= Len(buffersToWrite)
      /\ \A i \in 1..Len(rest) : rest[i] = buffersToWrite[i]
  <2>1. rest = SubSeq(kept, 1, Len(kept) - 1)
    BY <1>3, <1>6
  <2>2. rest \in Seq(FixedBuffers) /\ Len(rest) = Len(kept) - 1
    BY <1>7, <2>1, FrontType
  <2>3. \A i \in 1..Len(rest) : rest[i] = kept[i] /\ i \in 1..Len(kept)
    BY <1>7, <2>1, <2>2
  <2> QED
    BY <1>5, <1>7, <2>2, <2>3
<1>9. Spare(Back(kept), w) /\ Spare(Back(rest), w)
  BY <1>5, <1>7, <1>8, BackIsSpare
<1>10. Spare(new_buffer1', w) /\ Spare(new_buffer2', w) /\ Spare(next_buffer_', w)
  <2>1. Spare(new_buffer1, w) /\ Spare(new_buffer2, w) /\ Spare(next_buffer_, w)
    BY <1>1 DEF LineInv
  <2> QED
    BY <1>4, <1>9, <2>1
<1>11. ToWrite(<<>>, 0, w) /\ AfterWrite(<<>>, 0, w) = w
  <2>1. (\A i \in 1..0 : FALSE) /\ (\A i \in (0 + 1)..0 : FALSE) /\ Len(<<>>) = 0
    OBVIOUS
  <2> QED
    BY <2>1 DEF ToWrite, AfterWrite
<1>12. AfterWrite(buffersToWrite, done_writing, w) = w
  BY <1>4, <1>5 DEF AfterWrite
<1>13. InFront(buffers_, current_buffer_, w, w, appended)
  BY <1>1, <1>12 DEF LineInv
<1> QED
  BY <1>1, <1>4, <1>5, <1>10, <1>11, <1>13 DEF LineInv

\* There is no back end before Start.
NotStarted == owner = "new" => phase = "none"

LEMMA NotStartedHolds == Spec => []NotStarted
<1>1. Init => NotStarted
  BY DEF Init, NotStarted
<1>2. NotStarted /\ [Next]_vars => NotStarted'
  BY DEF NotStarted, Next, AppendFits, AppendFull, Start, Stop, StopNotifies, StopJoins,
         BackEnd, Begin, TestRunning, Wait, WaitTimesOut, Swap, WriteBuffer,
         ReturnBuffers, Tick, Notified, vars
<1> QED
  BY <1>1, <1>2, PTL DEF Spec

LEMMA LineInvStep == Inv /\ NotStarted /\ LineInv /\ [Next]_vars => LineInv'
<1> SUFFICES ASSUME Inv, NotStarted, LineInv, [Next]_vars PROVE LineInv'
  OBVIOUS
<1>1. CASE AppendFits
  BY <1>1, AppendFitsLines
<1>2. CASE AppendFull
  BY <1>2, AppendFullLines
<1>3. CASE Swap
  BY <1>3, SwapLines
<1>4. CASE WriteBuffer
  BY <1>4, WriteBufferLines
<1>5. CASE ReturnBuffers
  BY <1>5, ReturnBuffersLines
<1>6. CASE Begin
  <2>1. /\ new_buffer1' = NewFixedBuffer /\ new_buffer2' = NewFixedBuffer
        /\ phase = "begin" /\ phase' = "test"
        /\ UNCHANGED <<next_buffer_, current_buffer_, buffers_, buffersToWrite,
                       done_writing, appended, written>>
    BY <1>6 DEF Begin, front
  <2>2. Spare(NewFixedBuffer, Len(written))
    BY LineParts, NewIsSpare
  <2> QED
    BY <2>1, <2>2 DEF LineInv
<1>7. CASE \/ Start \/ Stop \/ StopNotifies \/ StopJoins \/ TestRunning \/ Wait
           \/ WaitTimesOut \/ Tick \/ UNCHANGED vars
  <2>1. UNCHANGED <<front, back, appended, written>>
    BY <1>7 DEF Start, Stop, StopNotifies, StopJoins, TestRunning, Wait, WaitTimesOut,
                Tick, vars
  <2>2. phase = "write" => phase' = "write"
    BY <1>7 DEF Start, Stop, StopNotifies, StopJoins, TestRunning, Wait, WaitTimesOut,
                Tick, vars, Notified, NotStarted
  <2> QED
    BY <2>1, <2>2 DEF LineInv, front, back
<1> QED
  BY <1>1, <1>2, <1>3, <1>4, <1>5, <1>6, <1>7 DEF Next, BackEnd

-----------------------------------------------------------------------------
(* The way to the files, from the invariant.                                *)

Unwritten == Len(buffersToWrite) - done_writing
QueueFrom == AfterWrite(buffersToWrite, done_writing, Len(written))

\* The line before those of the i-th buffer on the way.
LineBefore(i) == IF i <= Unwritten THEN Len(written) + Base(i - 1)
                 ELSE QueueFrom + Base(i - Unwritten - 1)

LEMMA WayIs ==
  ASSUME Inv, LineInv
  PROVE  /\ Unwritten \in Nat /\ Len(buffers_) \in Nat
         /\ DOMAIN Way = 1..(Unwritten + Len(buffers_) + 1)
         /\ \A i \in 1..Unwritten : Way[i] = buffersToWrite[done_writing + i]
         /\ \A i \in 1..Len(buffers_) : Way[Unwritten + i] = buffers_[i]
         /\ Way[Unwritten + Len(buffers_) + 1] = current_buffer_
<1>1. PICK us : us = SubSeq(buffersToWrite, done_writing + 1, Len(buffersToWrite))
  OBVIOUS
<1>2. Unwritten \in Nat /\ Len(buffers_) \in Nat
  BY LineParts DEF Unwritten
<1>3. /\ us \in Seq(FixedBuffers) /\ Len(us) = Unwritten
      /\ \A i \in 1..Unwritten : us[i] = buffersToWrite[done_writing + i]
  <2>1. /\ buffersToWrite \in Seq(FixedBuffers) /\ done_writing \in Nat
        /\ done_writing <= Len(buffersToWrite) /\ Len(buffersToWrite) \in Nat
    BY LineParts
  <2>2. us = [i \in 1..Unwritten |-> buffersToWrite[done_writing + i]]
    <3>1. us = [i \in 1..(Len(buffersToWrite) - (done_writing + 1) + 1) |->
                  buffersToWrite[i + (done_writing + 1) - 1]]
      BY <1>1, <2>1
    <3>2. Len(buffersToWrite) - (done_writing + 1) + 1 = Unwritten
      BY <2>1 DEF Unwritten
    <3>3. \A i \in 1..Unwritten : i + (done_writing + 1) - 1 = done_writing + i
      BY <1>2, <2>1
    <3> QED
      BY <3>1, <3>2, <3>3
  <2>3. \A i \in 1..Unwritten : buffersToWrite[done_writing + i] \in FixedBuffers
    <3>1. \A i \in 1..Unwritten : done_writing + i \in 1..Len(buffersToWrite)
      BY <2>1 DEF Unwritten
    <3> QED
      BY <2>1, <3>1
  <2> QED
    BY <1>2, <2>2, <2>3
<1>4. PICK vs : vs = us \o buffers_
  OBVIOUS
<1>5. /\ vs \in Seq(FixedBuffers) /\ Len(vs) = Unwritten + Len(buffers_)
      /\ \A i \in 1..Unwritten + Len(buffers_) :
           vs[i] = IF i <= Unwritten THEN us[i] ELSE buffers_[i - Unwritten]
  BY <1>3, <1>4, LineParts, ConcatProperties
<1>6. PICK one : one = <<current_buffer_>>
  OBVIOUS
<1>7. one \in Seq(FixedBuffers) /\ Len(one) = 1 /\ one[1] = current_buffer_
  BY <1>6, LineParts
<1>8. PICK way : way = vs \o one
  OBVIOUS
<1>9. /\ way \in Seq(FixedBuffers) /\ Len(way) = Unwritten + Len(buffers_) + 1
      /\ \A i \in 1..(Unwritten + Len(buffers_) + 1) :
           way[i] = IF i <= Unwritten + Len(buffers_) THEN vs[i]
                    ELSE one[i - (Unwritten + Len(buffers_))]
  <2>1. /\ vs \o one \in Seq(FixedBuffers) /\ Len(vs \o one) = Len(vs) + Len(one)
        /\ \A i \in 1..Len(vs) + Len(one) :
             (vs \o one)[i] = IF i <= Len(vs) THEN vs[i] ELSE one[i - Len(vs)]
    BY <1>5, <1>7, ConcatProperties
  <2> QED
    BY <1>2, <1>5, <1>7, <1>8, <2>1
<1>10. Way = way
  BY <1>1, <1>4, <1>6, <1>8 DEF Way
<1>11. DOMAIN way = 1..(Unwritten + Len(buffers_) + 1)
  BY <1>9
<1>12. ASSUME NEW i \in 1..Unwritten PROVE way[i] = buffersToWrite[done_writing + i]
  <2>1. /\ i \in 1..(Unwritten + Len(buffers_) + 1) /\ i \in 1..(Unwritten + Len(buffers_))
        /\ i <= Unwritten /\ i <= Unwritten + Len(buffers_)
    BY <1>2, <1>12
  <2> QED
    BY <1>3, <1>5, <1>9, <1>12, <2>1
<1>13. ASSUME NEW i \in 1..Len(buffers_) PROVE way[Unwritten + i] = buffers_[i]
  <2>1. PICK k : k = Unwritten + i
    OBVIOUS
  <2>2. /\ k \in 1..(Unwritten + Len(buffers_) + 1) /\ k \in 1..(Unwritten + Len(buffers_))
        /\ ~(k <= Unwritten) /\ k <= Unwritten + Len(buffers_) /\ k - Unwritten = i
    BY <1>2, <1>13, <2>1
  <2> QED
    BY <1>5, <1>9, <2>1, <2>2
<1>14. way[Unwritten + Len(buffers_) + 1] = current_buffer_
  <2>1. PICK k : k = Unwritten + Len(buffers_) + 1
    OBVIOUS
  <2>2. /\ k \in 1..(Unwritten + Len(buffers_) + 1)
        /\ ~(k <= Unwritten + Len(buffers_)) /\ k - (Unwritten + Len(buffers_)) = 1
    BY <1>2, <2>1
  <2> QED
    BY <1>7, <1>9, <2>1, <2>2
<1> QED
  BY <1>2, <1>10, <1>11, <1>12, <1>13, <1>14

\* Each buffer on the way carries the lines after those of the one before it.
LEMMA WayCarries ==
  ASSUME Inv, LineInv, NEW i \in DOMAIN Way
  PROVE  /\ Way[i] \in FixedBuffers /\ Way[i].curr_ \in Nat /\ LineBefore(i) \in Nat
         /\ Carries(Way[i], LineBefore(i)) /\ Len(written) <= LineBefore(i)
         /\ i + 1 \in DOMAIN Way => LineBefore(i + 1) = LineBefore(i) + Way[i].curr_
         /\ i + 1 \notin DOMAIN Way => appended = LineBefore(i) + Way[i].curr_
<1> DEFINE U == buffersToWrite
           d == done_writing
           n == Unwritten
           q == Len(buffers_)
           w == Len(written)
           m == QueueFrom
<1>1. /\ U \in Seq(FixedBuffers) /\ d \in Nat /\ Len(U) \in Nat /\ w \in Nat /\ m \in Nat
      /\ n \in Nat /\ q \in Nat /\ Len(U) = d + n /\ buffers_ \in Seq(FixedBuffers)
      /\ current_buffer_ \in FixedBuffers /\ appended \in Nat
  BY LineParts, WayIs DEF Unwritten, QueueFrom
<1>2. /\ ToWrite(U, d, w) /\ InFront(buffers_, current_buffer_, m, w, appended)
  BY DEF LineInv, QueueFrom
<1>3. i \in 1..(n + q + 1) /\ (i + 1 \in DOMAIN Way <=> i < n + q + 1)
  BY <1>1, WayIs
<1>4. w <= m
  <2>1. CASE d < Len(U)
    <3>1. m = w + Base(Len(U) - d - 1) + U[Len(U)].curr_
      BY <2>1 DEF QueueFrom, AfterWrite
    <3>2. Len(U) - d - 1 \in Nat /\ U[Len(U)] \in FixedBuffers
      BY <1>1, <2>1
    <3>3. Base(Len(U) - d - 1) \in Nat /\ U[Len(U)].curr_ \in Nat
      BY <3>2, BaseType, BufferParts
    <3> QED
      BY <1>1, <3>1, <3>3
  <2>2. CASE ~(d < Len(U))
    BY <1>1, <2>2 DEF QueueFrom, AfterWrite
  <2> QED
    BY <2>1, <2>2
<1>5. CASE i <= n
  <2>1. Way[i] = U[d + i] /\ d + i \in (d + 1)..Len(U) /\ d + i \in 1..Len(U)
    BY <1>1, <1>3, <1>5, WayIs
  <2>2. i - 1 \in Nat /\ d + i - d - 1 = i - 1 /\ i - 1 + 1 = i
    BY <1>1, <1>3
  <2>3. LineBefore(i) = w + Base(i - 1)
    BY <1>5 DEF LineBefore
  <2>4. /\ Way[i] \in FixedBuffers /\ Carries(Way[i], LineBefore(i))
        /\ d + i < Len(U) => Full(Way[i])
    BY <1>1, <1>2, <2>1, <2>2, <2>3 DEF ToWrite
  <2>5. Way[i].curr_ \in Nat
    BY <2>4, BufferParts
  <2>6. Base(i - 1) \in Nat /\ Base(i) = Base(i - 1) + (Slots - 1)
    BY <2>2, BaseType
  <2>7. LineBefore(i) \in Nat /\ w <= LineBefore(i) /\ i + 1 \in DOMAIN Way
    BY <1>1, <1>3, <1>5, <2>3, <2>6
  <2>8. LineBefore(i + 1) = LineBefore(i) + Way[i].curr_
    <3>1. CASE i < n
      <4>1. i + 1 <= n /\ i + 1 - 1 = i /\ d + i < Len(U)
        BY <1>1, <1>3, <3>1
      <4>2. LineBefore(i + 1) = w + Base(i)
        BY <4>1 DEF LineBefore
      <4>3. Way[i].curr_ = Slots - 1
        BY <2>4, <4>1 DEF Full
      <4> QED
        BY <1>1, <2>3, <2>6, <4>2, <4>3, SlotsType
    <3>2. CASE i = n
      <4>1. ~(i + 1 <= n) /\ i + 1 - n - 1 = 0 /\ d < Len(U) /\ Len(U) - d - 1 = i - 1
            /\ d + i = Len(U)
        BY <1>1, <1>3, <3>2
      <4>2. LineBefore(i + 1) = m + Base(0)
        <5>1. PICK e : e = i + 1
          OBVIOUS
        <5>2. LineBefore(e) = m + Base(e - n - 1)
          BY <4>1, <5>1 DEF LineBefore
        <5>3. e - n - 1 = 0
          BY <1>1, <1>3, <3>2, <5>1
        <5> QED
          BY <5>1, <5>2, <5>3
      <4>3. m = w + Base(i - 1) + Way[i].curr_
        BY <2>1, <4>1 DEF QueueFrom, AfterWrite
      <4>4. Base(0) = 0
        BY <1>1, BaseType
      <4> QED
        BY <1>1, <2>3, <4>2, <4>3, <4>4
    <3> QED
      BY <1>1, <1>3, <1>5, <3>1, <3>2
  <2> QED
    BY <2>4, <2>5, <2>7, <2>8
<1>6. CASE ~(i <= n)
  <2>1. PICK k : k = i - n
    OBVIOUS
  <2>2. k \in 1..(q + 1) /\ i = n + k /\ k - 1 \in Nat /\ k - 1 + 1 = k /\ k \in Nat
    BY <1>1, <1>3, <1>6, <2>1
  <2>3. LineBefore(i) = m + Base(k - 1)
    BY <1>6, <2>1 DEF LineBefore
  <2>4. Base(k - 1) \in Nat /\ Base(k) = Base(k - 1) + (Slots - 1)
    BY <2>2, BaseType
  <2>5. LineBefore(i) \in Nat /\ w <= LineBefore(i)
    BY <1>1, <1>4, <2>3, <2>4
  <2>6. CASE k <= q
    <3>1. k \in 1..q
      BY <1>1, <2>2, <2>6
    <3>2. Way[i] = buffers_[k]
      BY <2>2, <3>1, WayIs
    <3>3. Way[i] \in FixedBuffers /\ Carries(Way[i], LineBefore(i)) /\ Full(Way[i])
      BY <1>1, <1>2, <2>3, <3>1, <3>2 DEF InFront
    <3>4. i + 1 \in DOMAIN Way /\ ~(i + 1 <= n) /\ i + 1 - n - 1 = k
      BY <1>1, <1>3, <1>6, <2>2, <2>6
    <3>5. LineBefore(i + 1) = m + Base(k)
      <4>1. PICK e : e = i + 1
        OBVIOUS
      <4>2. LineBefore(e) = m + Base(e - n - 1)
        BY <3>4, <4>1 DEF LineBefore
      <4>3. e - n - 1 = k
        BY <1>1, <2>2, <4>1
      <4> QED
        BY <4>1, <4>2, <4>3
    <3>6. Way[i].curr_ = Slots - 1 /\ Way[i].curr_ \in Nat
      BY <3>3, BufferParts DEF Full
    <3>7. LineBefore(i + 1) = LineBefore(i) + Way[i].curr_
      BY <1>1, <2>3, <2>4, <3>5, <3>6
    <3> QED
      BY <2>5, <3>3, <3>4, <3>6, <3>7
  <2>7. CASE ~(k <= q)
    <3>1. k = q + 1 /\ k - 1 = q /\ i = n + q + 1 /\ ~(i < n + q + 1)
      BY <1>1, <2>2, <2>7
    <3>2. Way[i] = current_buffer_
      BY <3>1, WayIs
    <3>3. Carries(Way[i], LineBefore(i)) /\ appended = LineBefore(i) + Way[i].curr_
      BY <1>2, <2>3, <3>1, <3>2 DEF InFront
    <3>4. Way[i] \in FixedBuffers /\ Way[i].curr_ \in Nat
      BY <1>1, <3>2, BufferParts
    <3> QED
      BY <1>3, <2>5, <3>1, <3>3, <3>4
  <2> QED
    BY <2>6, <2>7
<1> QED
  BY <1>5, <1>6

\* A set of numbers has a least one, and a bounded one a greatest.
LEMMA LeastNat ==
  ASSUME NEW T, T \subseteq Nat, T # {}
  PROVE  \E x \in T : \A y \in T : x <= y
<1>1. PICK x \in T : \A y \in T : ~(<<y, x>> \in OpToRel(<, Nat))
  BY NatLessThanWellFounded, WFMin
<1>2. ASSUME NEW y \in T PROVE x <= y
  <2>1. ~(<<y, x>> \in OpToRel(<, Nat)) /\ x \in Nat /\ y \in Nat
    BY <1>1
  <2>2. ~(y < x)
    BY <2>1 DEF OpToRel
  <2>3. x \in Nat /\ y \in Nat
    BY <2>1
  <2> QED
    BY ONLY <2>2, <2>3
<1> QED
  BY <1>2

LEMMA GreatestNat ==
  ASSUME NEW n \in Nat, NEW T, T \subseteq 0..n, T # {}
  PROVE  \E x \in T : \A y \in T : y <= x
<1> DEFINE S == {n - x : x \in T}
<1>1. S \subseteq Nat /\ S # {}
  <2>1. \A x \in T : n - x \in Nat
    OBVIOUS
  <2>2. PICK x : x \in T
    OBVIOUS
  <2>3. n - x \in S
    BY <2>2
  <2> QED
    BY <2>1, <2>3
<1>2. PICK z \in S : \A y \in S : z <= y
  BY <1>1, LeastNat
<1>3. PICK x \in T : z = n - x
  BY <1>2
<1>4. ASSUME NEW y \in T PROVE y <= x
  <2>1. n - x <= n - y
    BY <1>2, <1>3, <1>4
  <2>2. x \in Nat /\ y \in Nat
    BY <1>4
  <2> QED
    BY <2>1, <2>2
<1> QED
  BY <1>4

LEMMA FirstOnWay ==
  ASSUME Inv, LineInv
  PROVE  1 \in DOMAIN Way /\ LineBefore(1) = Len(written)
<1>1. /\ Unwritten \in Nat /\ Len(buffers_) \in Nat /\ Len(written) \in Nat
      /\ Len(buffersToWrite) \in Nat /\ done_writing \in Nat
      /\ DOMAIN Way = 1..(Unwritten + Len(buffers_) + 1)
  BY WayIs, LineParts
<1>2. 1 \in DOMAIN Way /\ Base(0) = 0
  BY <1>1, BaseType
<1>3. CASE 1 <= Unwritten
  <2>1. LineBefore(1) = Len(written) + Base(1 - 1) /\ 1 - 1 = 0
    BY <1>3 DEF LineBefore
  <2> QED
    BY <1>1, <1>2, <2>1
<1>4. CASE ~(1 <= Unwritten)
  <2>1. Unwritten = 0 /\ ~(done_writing < Len(buffersToWrite)) /\ 1 - Unwritten - 1 = 0
    BY <1>1, <1>4 DEF Unwritten
  <2>2. QueueFrom = Len(written)
    BY <2>1 DEF QueueFrom, AfterWrite
  <2>3. LineBefore(1) = QueueFrom + Base(1 - Unwritten - 1)
    BY <1>4 DEF LineBefore
  <2>4. LineBefore(1) = QueueFrom + Base(0)
    BY <2>1, <2>3
  <2> QED
    BY <1>1, <1>2, <2>2, <2>4
<1> QED
  BY <1>2, <1>3, <1>4

\* A later buffer's lines come after all of an earlier one's.
LEMMA LaterOnWay ==
  ASSUME Inv, LineInv, NEW i \in DOMAIN Way, NEW k \in DOMAIN Way, i < k
  PROVE  LineBefore(i) + Way[i].curr_ <= LineBefore(k)
<1> DEFINE end == LineBefore(i) + Way[i].curr_
           T == {x \in DOMAIN Way : i < x /\ ~(end <= LineBefore(x))}
<1>1. PICK n \in Nat : DOMAIN Way = 1..n
  <2>1. /\ DOMAIN Way = 1..(Unwritten + Len(buffers_) + 1)
        /\ Unwritten + Len(buffers_) + 1 \in Nat
    BY WayIs
  <2> QED
    BY <2>1
<1>2. end \in Nat
  BY WayCarries
<1>3. ASSUME T # {} PROVE FALSE
  <2>1. T \subseteq Nat
    BY <1>1
  <2>2. PICK x \in T : \A y \in T : x <= y
    BY <1>3, <2>1, LeastNat
  <2>3. x \in 1..n /\ i \in 1..n /\ i < x /\ ~(end <= LineBefore(x))
    BY <1>1, <2>2
  <2>4. PICK y : y = x - 1
    OBVIOUS
  <2>5. y \in DOMAIN Way /\ y + 1 = x /\ i <= y /\ y < x /\ y \in Nat /\ x \in DOMAIN Way
    BY <1>1, <2>3, <2>4
  <2>6. /\ LineBefore(x) = LineBefore(y) + Way[y].curr_
        /\ Way[y].curr_ \in Nat /\ LineBefore(y) \in Nat
    BY <2>5, WayCarries
  <2>7. CASE y = i
    <3>1. LineBefore(x) = end
      BY <2>6, <2>7
    <3> QED
      BY <1>2, <2>3, <3>1
  <2>8. CASE y # i
    <3>1. y \notin T
      BY <2>1, <2>2, <2>5
    <3>2. i < y
      BY <2>3, <2>5, <2>8
    <3>3. end <= LineBefore(y)
      BY <2>5, <3>1, <3>2
    <3> QED
      BY <1>2, <2>3, <2>6, <3>3
  <2> QED
    BY <2>7, <2>8
<1>4. k \notin T
  BY <1>3
<1> QED
  BY <1>4

\* No line given to Append is lost, overtaken or dropped, for buffers of every size
\* and any number of lines: the files hold the first ones in order and the buffers
\* on their way all others, whatever is left in the slots of buffers used again.
THEOREM LinesInOrderHolds == Spec => []LinesInOrder
<1>1. Inv /\ LineInv => LinesInOrder
  <2> SUFFICES ASSUME Inv, LineInv PROVE LinesInOrder
    OBVIOUS
  <2>1. PICK w \in Nat : w = Len(written)
    BY LineParts
  <2>2. PICK n \in Nat : DOMAIN Way = 1..n
    <3>1. /\ DOMAIN Way = 1..(Unwritten + Len(buffers_) + 1)
          /\ Unwritten + Len(buffers_) + 1 \in Nat
      BY WayIs
    <3> QED
      BY <3>1
  <2>3. written = [i \in 1..Len(written) |-> i]
    <3>1. written \in Seq(Nat) /\ \A i \in 1..Len(written) : written[i] = i
      BY DEF LineInv
    <3>2. written = [i \in 1..Len(written) |-> written[i]]
      BY <3>1
    <3> QED
      BY <3>1, <3>2
  <2>4. ASSUME NEW p \in Filled
        PROVE  /\ p[1] \in DOMAIN Way /\ p[1] \in Nat /\ p[2] \in Nat
               /\ p[2] \in 1..Way[p[1]].curr_ /\ Way[p[1]].curr_ \in Nat
               /\ LineBefore(p[1]) \in Nat /\ w <= LineBefore(p[1])
               /\ LineAt(p) = LineBefore(p[1]) + p[2]
    <3>1. p[1] \in DOMAIN Way /\ p[2] \in 1..Slots /\ p[2] <= Way[p[1]].curr_
      BY <2>4 DEF Filled
    <3>2. /\ Way[p[1]].curr_ \in Nat /\ LineBefore(p[1]) \in Nat
          /\ Carries(Way[p[1]], LineBefore(p[1])) /\ w <= LineBefore(p[1])
      BY <2>1, <3>1, WayCarries
    <3>3. p[2] \in 1..Way[p[1]].curr_ /\ p[1] \in Nat /\ p[2] \in Nat
      BY <2>2, <3>1, <3>2, SlotsType
    <3>4. LineAt(p) = LineBefore(p[1]) + p[2]
      BY <3>2, <3>3 DEF LineAt, Carries
    <3> QED
      BY <3>1, <3>2, <3>3, <3>4
  <2>5. ASSUME NEW p \in Filled PROVE LineAt(p) \in (w + 1)..appended
    <3>1. LineBefore(p[1]) + Way[p[1]].curr_ <= appended
      <4>1. PICK z : z = n
        OBVIOUS
      <4>2. 1 \in DOMAIN Way /\ z \in DOMAIN Way /\ z + 1 \notin DOMAIN Way
        BY <2>2, <4>1, FirstOnWay
      <4>3. /\ appended = LineBefore(z) + Way[z].curr_
            /\ Way[z].curr_ \in Nat /\ LineBefore(z) \in Nat
        BY <4>2, WayCarries
      <4>4. CASE p[1] = z
        BY <4>3, <4>4
      <4>5. CASE p[1] # z
        <5>1. p[1] \in DOMAIN Way /\ p[1] < z
          BY <2>2, <2>4, <2>5, <4>1, <4>5
        <5>2. LineBefore(p[1]) + Way[p[1]].curr_ <= LineBefore(z)
          BY <4>2, <5>1, LaterOnWay
        <5> QED
          BY <2>4, <2>5, <4>3, <5>2
      <4> QED
        BY <4>4, <4>5
    <3> QED
      BY <2>1, <2>4, <2>5, <3>1, LineParts
  <2>6. ASSUME NEW x \in (w + 1)..appended PROVE \E p \in Filled : x = LineAt(p)
    <3> DEFINE T == {i \in DOMAIN Way : LineBefore(i) < x}
    <3>1. x \in Nat /\ w < x /\ x <= appended
      BY <2>1, <2>6, LineParts
    <3>2. T \subseteq 0..n /\ 1 \in T
      BY <2>1, <2>2, <3>1, FirstOnWay
    <3>3. PICK i \in T : \A k \in T : k <= i
      BY <3>2, GreatestNat
    <3>4. i \in DOMAIN Way /\ LineBefore(i) < x /\ i \in Nat
      BY <2>2, <3>3
    <3>5. /\ Way[i].curr_ \in Nat /\ LineBefore(i) \in Nat /\ Way[i] \in FixedBuffers
          /\ Carries(Way[i], LineBefore(i))
      BY <3>4, WayCarries
    <3>6. x <= LineBefore(i) + Way[i].curr_
      <4>1. CASE i + 1 \in DOMAIN Way
        <5>1. i + 1 \notin T
          BY <3>3, <3>4
        <5>2. LineBefore(i + 1) = LineBefore(i) + Way[i].curr_
          BY <3>4, <4>1, WayCarries
        <5>3. ~(LineBefore(i + 1) < x)
          BY <4>1, <5>1
        <5> QED
          BY <3>1, <3>5, <5>2, <5>3
      <4>2. CASE i + 1 \notin DOMAIN Way
        <5>1. appended = LineBefore(i) + Way[i].curr_
          BY <3>4, <4>2, WayCarries
        <5> QED
          BY <3>1, <5>1
      <4> QED
        BY <4>1, <4>2
    <3>7. PICK j : j = x - LineBefore(i)
      OBVIOUS
    <3>8. j \in 1..Way[i].curr_ /\ LineBefore(i) + j = x /\ j <= Way[i].curr_
      BY <3>1, <3>4, <3>5, <3>6, <3>7
    <3>9. j \in 1..Slots
      BY <3>5, <3>8, BufferParts
    <3>10. Way[i].data[j] = x
      BY <3>5, <3>8 DEF Carries
    <3>11. <<i, j>> \in Filled /\ LineAt(<<i, j>>) = x
      BY <3>4, <3>8, <3>9, <3>10 DEF Filled, LineAt
    <3> QED
      BY <3>11
  <2>7. {LineAt(p) : p \in Filled} = (Len(written) + 1)..appended
    BY <2>1, <2>5, <2>6
  <2>8. ASSUME NEW p \in Filled, NEW q \in Filled, Before(p, q)
        PROVE  LineAt(p) < LineAt(q)
    <3>1. CASE p[1] < q[1]
      <4>1. LineBefore(p[1]) + Way[p[1]].curr_ <= LineBefore(q[1])
        BY <2>4, <2>8, <3>1, LaterOnWay
      <4> QED
        BY <2>4, <2>8, <4>1
    <3>2. CASE p[1] = q[1] /\ p[2] < q[2]
      BY <2>4, <2>8, <3>2
    <3> QED
      BY <2>8, <3>1, <3>2 DEF Before
  <2> QED
    BY <2>3, <2>7, <2>8 DEF LinesInOrder
<1> QED
  BY <1>1, InvHolds, NotStartedHolds, LineInvInit, LineInvStep, PTL DEF Spec
=============================================================================
