SPECIFICATION Spec
CONSTANTS
  Drivers = {"sqlite", "mysql", "postgresql"}
  Keys = {0, 1, 2}
  Descs <- MCDescs
  MaxParts = 2
  MaxThings = 1
INVARIANT TypeOK
PROPERTY RemovesItsRange
 
 
