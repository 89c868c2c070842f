SPECIFICATION ServerFairSpec
CONSTANTS
  ThreadNums = {0, 2, 3}
  MaxThreads = 3
  Others = {t1}
  MaxConns = 5
  MaxFds = 3
INVARIANT OneTeardown
PROPERTY PendingIsAccepted
PROPERTY DtorFreesAll
