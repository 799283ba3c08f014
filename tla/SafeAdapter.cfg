SPECIFICATION FairAdapterSpec
CONSTANTS
  MaxCancels = 2
INVARIANT AdapterTypeOK
INVARIANT ResumedAtMostOnce
INVARIANT ResumeFindsOutcome
INVARIANT CancellationNotLost
PROPERTY EventuallyResumed
