SPECIFICATION FairSpec
CONSTANTS
  Conns = {1, 2, 3, 4, 5, 6}
  NoConn = none
  Clients = {t1, t2}
  MinSize = 1
  MaxSize = 6
  MaxIdle = 2
INVARIANT Accounting
INVARIANT ProducerStocked
INVARIANT OldestFirst
PROPERTY PoolServes
