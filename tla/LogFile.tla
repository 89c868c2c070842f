------------------------------ MODULE LogFile ------------------------------
(***************************************************************************)
(* LogFile (logger/log_file.cc): when a log file is ended and the next one  *)
(* begun.  A LogFile is a record, an operation an operator that returns the *)
(* LogFile after the call.  Sizes are counted in appends (AsyncLogging      *)
(* appends whole buffers of one size) and are cut off when they are over    *)
(* the limit.  Flushing, which decides only when the kernel sees the bytes, *)
(* is left out, and so is the name of the file, which is its last_roll_.    *)
(***************************************************************************)
EXTENDS Integers

CONSTANTS
  RollSize,         \* roll_size_, in appends
  CheckEveryN,      \* check_every_n_
  kRollPerSeconds_

ASSUME LogFileAssumption ==
  /\ RollSize \in Nat /\ CheckEveryN \in Nat \ {0}
  /\ kRollPerSeconds_ \in Nat \ {0}

LogFiles ==
  [written_bytes : 0..(RollSize + 1), count_ : 0..(CheckEveryN - 1),
   start_of_period_ : Nat, last_roll_ : Nat,
   late : Nat]      \* history: appends to the current file after its period

\* The second at which the period of now began.
StartOfPeriod(now) == (now \div kRollPerSeconds_) * kRollPerSeconds_

\* A new file is begun unless the current one was begun in this second.
RollFile(f, now) ==
  IF now > f.last_roll_
    THEN [f EXCEPT !.last_roll_ = now, !.start_of_period_ = StartOfPeriod(now),
                   !.written_bytes = 0, !.late = 0]
    ELSE f

\* The constructor.
NewLogFile(now) ==
  RollFile([written_bytes |-> 0, count_ |-> 0, start_of_period_ |-> 0,
            last_roll_ |-> 0, late |-> 0], now)

\* file_->Append
Written(f, now) ==
  [f EXCEPT !.written_bytes = IF @ > RollSize THEN @ ELSE @ + 1,
            !.late = IF StartOfPeriod(now) # f.start_of_period_ THEN @ + 1 ELSE @]

\* Mutant: one append too late.
CheckDueLate(f) == f.count_ >= CheckEveryN

\* Is the period looked at after this append?
CheckDue(f) == f.count_ + 1 >= CheckEveryN

AppendInLock(f, now) ==
  LET g == Written(f, now)
      checked == [g EXCEPT !.count_ = 0]
  IN CASE g.written_bytes > RollSize -> RollFile(g, now)
       [] g.written_bytes <= RollSize /\ ~CheckDue(g) -> [g EXCEPT !.count_ = @ + 1]
       [] OTHER -> IF StartOfPeriod(now) # g.start_of_period_
                     THEN RollFile(checked, now) ELSE checked
=============================================================================
