SPECIFICATION FairSpec
CONSTANTS
  Threads = {t1, t2, t3}
  Conn = {c1, c2, c3, c4}
  NoConn = NoConn
  MaxSize = 2
  MaxLeftover = 1
  InitFirst = TRUE
INVARIANT TypeOK
INVARIANT Conservation
INVARIANT WakeupNotLost
PROPERTY GetReturnsOnceQuiet
PROPERTY ImplementsPool
