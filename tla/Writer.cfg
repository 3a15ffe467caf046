SPECIFICATION FairSpec
CONSTANTS
    w1 = w1
    w2 = w2
    w3 = w3
    Writers <- MCWriters
    NoWriter = NoWriter
    Dead = Dead
    MaxMsgs = 2
    MaxConns = 3
    MaxErrors = 1
    Oversized = TRUE
    FlowControl = TRUE
INVARIANT WriterMutex
INVARIANT InOrder
INVARIANT NothingForgotten
INVARIANT JoinSound
PROPERTY ImplementsOutbox
PROPERTY DeliveredUnlessStopped
PROPERTY InFlightSurvives
\* every bound is reached in the end, and then the system stops
CHECK_DEADLOCK FALSE
