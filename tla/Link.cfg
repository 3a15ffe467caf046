SPECIFICATION LinkFairSpec
CONSTANTS
    w1 = w1
    w2 = w2
    w3 = w3
    r1 = r1
    r2 = r2
    NoWriter = NoWriter
    Dead = Dead
    User = User
    Writers <- MCWriters
    Loops <- MCLoops
    MaxMsgs = 1
    MaxConns = 3
    MaxErrors = 0
    Oversized = TRUE
    FlowControl = FALSE
    MaxRaises = 1
INVARIANT SingleTransport
INVARIANT DisconnectFirst
INVARIANT ChangesAlternate
PROPERTY Reconnects
PROPERTY LoopsEnd
\* the bounds are reached in the end, and then the system stops
CHECK_DEADLOCK FALSE
