SPECIFICATION Spec
CONSTANTS
  Calls = {c1, c2}
  Initers = {i1, i2}
  Closers = {k1, k2}
  Conn = {x1, x2, x3, x4}
  NoConn = NoConn
  PoolSizes = {0, 2}
  MaxDynamic = 1
  MaxLeaks = 1
SYMMETRY Symmetry
INVARIANT TypeOK
INVARIANT Accounting
INVARIANT DrainedMeansIdle
INVARIANT LimitsKept
PROPERTY OpenPoolKeepsConnections
PROPERTY ImplementsPool
