SPECIFICATION FairSpec
CONSTANTS
  Calls = {c1, c2}
  Initers = {i1}
  Closers = {k1}
  Conn = {x1, x2, x3}
  NoConn = NoConn
  PoolSizes = {1}
  MaxDynamic = 1
  MaxLeaks = 0
PROPERTY GetReturns
PROPERTY CloseReturns
