SPECIFICATION FairSpec
CONSTANTS
  LoopThread = loop
  Threads = {t1, t2}
  Functors = {f1, f2, f3}
  IoChannels = {c1}
  EarlyQueue = FALSE
INVARIANT NoLostWakeup
PROPERTY ImplementsFunctorQueue
PROPERTY QueuedFunctorRuns
PROPERTY QuitEndsLoop
