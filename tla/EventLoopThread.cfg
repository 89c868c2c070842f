SPECIFICATION ThreadFairSpec
CONSTANTS
  LoopThread = loop
  Owner = owner
  Threads = {owner}
  Functors = {f1, f2}
  IoChannels = {c1}
  EarlyQueue = TRUE
  LoopQuits = TRUE
INVARIANT DanglingUseOnlyInQuit
PROPERTY StartLoopReturns
PROPERTY DtorOfRunningLoopReturns
