CONSTANTS
  a = a
  b = b
  c = c
  d = d
  w1 = w1
  w2 = w2
  NoTask = NoTask
  Workers = {w1, w2}
  Starts <- MCStarts
  Producers = {p1, p2}
  Tasks <- MCTasks
  Parent <- MCParent
  Sizes = {1}
SPECIFICATION FairSpec
INVARIANT NoLostNotify
INVARIANT Fifo
PROPERTY StopEnds
PROPERTY AcceptedIsTaken
CHECK_DEADLOCK FALSE
