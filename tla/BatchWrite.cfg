SPECIFICATION Spec
CONSTANTS
  Conns = {c1, c2}
  Drivers = {"sqlite", "mysql", "postgresql", "mysql_async"}
  MaxRows = 3
  MaxBatch = 2
  TogglesQuiet = TRUE
SYMMETRY Symmetry
INVARIANT TypeOK
 
 
 
PROPERTY UserTransactionKept
