SPECIFICATION FairLSpec
CONSTANTS
    NChannels = 2
    NBlocks = 2
    MaxScans = 2
    MaxLost = 1
    MaxRestarts = 1
INVARIANT FileIsLatest
INVARIANT Represented
INVARIANT NameWhole
PROPERTY Kept
PROPERTY EventuallyNamed
\* every bound is reached in the end, and then the system stops
CHECK_DEADLOCK FALSE
