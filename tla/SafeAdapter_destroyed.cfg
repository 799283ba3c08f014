SPECIFICATION AdapterSpec
CONSTANTS
  MaxCancels = 0
INVARIANT DestroyedNeverResumed
