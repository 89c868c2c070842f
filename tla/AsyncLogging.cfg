CONSTANTS
  RollSize = 3
  CheckEveryN = 2
  kRollPerSeconds_ = 2
  Slots = 3
  MaxLines = 5
  MaxTime = 3
SPECIFICATION FairSpec
INVARIANT LinesInOrder
INVARIANT BackEndReady
INVARIANT RollsAfterPeriod
PROPERTY LineIsWritten
PROPERTY StopReturns
CHECK_DEADLOCK FALSE
