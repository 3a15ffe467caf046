SPECIFICATION FairMSpec
CONSTANTS
    Callers = {c1, c2}
    MaxAddr = 2
    Values = {0, 1}
    BlockSize = 2
    Contents <- Erased
    Jobs <- MCJobs
    MaxCalls = 2
    MaxLost = 1
    MaxLoads = 1
INVARIANT OneAtATime
INVARIANT CacheFollows
PROPERTY ConfirmedWhenQuiet
PROPERTY CallsReturn
\* all calls have been made
CHECK_DEADLOCK FALSE
