SPECIFICATION FairSpec
CONSTANTS
  r = r
  s = s
  o = o
  Timers <- MCTimers
  Interval <- MCInterval
  MaxTime = 3
  ClockSteps = TRUE
CHECK_DEADLOCK FALSE
INVARIANT ArmedForEarliest
INVARIANT OneOwner
PROPERTY DueTimerRuns
