SPECIFICATION ASpec
CONSTANTS
    Callers = {c1, c2}
    MaxAddr = 5
    Values = {0, 1, 2, 255}
    BlockSize = 2
    Contents <- MCContents
    Jobs <- MCJobs
    MaxCalls = 20
    MaxLost = 0
    MaxLoads = 0
    NSlots = 2
    Shared = TRUE
    Channels = {1, 2}
    Sources = {1, 2}
    TableOps <- MCTableOps
    MaxOps = 3
    MaxTimeouts = 1
    ReloadAlone = TRUE
INVARIANT TableFollows
INVARIANT SourcesOnce
PROPERTY PickedFreeAlone
\* all operations have been called
CHECK_DEADLOCK FALSE
