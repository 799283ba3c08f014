SPECIFICATION Spec
CONSTANTS
  Drivers = {"sqlite", "mysql", "mysql_async", "postgresql"}
  Parameters <- MCParameters
  Values <- MCValues
  Fragments <- MCFragments
  MaxFragments = 3
  MaxCalls = 4
  MaxMixed = 2
  MaxArgs = 2
CHECK_DEADLOCK FALSE
INVARIANT TypeOK
INVARIANT ReadsAsWritten
INVARIANT ConditionIsSent
