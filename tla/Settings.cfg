CONSTANTS
    Callers = {c1, c2}
    Advertised <- MCAdvertised
    Layout = "classic"
    Keys <- MCKeys
    Changes <- MCChanges
    None = None
    MaxCalls = 3
    MaxLost = 1
SPECIFICATION FairTSSpec
INVARIANTS Settled NothingInvented
PROPERTY CallsEnd
CHECK_DEADLOCK FALSE
