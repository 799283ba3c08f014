SPECIFICATION Spec
CONSTANTS
  Threads = {t1, t2}
  Drivers = {"sqlite", "mysql", "postgresql", "mysql_async"}
  Fields = {"plain", "enum", "optional_enum", "view"}
  MaxRows = 2
SYMMETRY Symmetry
INVARIANT TypeOK
 
 
