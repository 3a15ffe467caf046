CONSTANTS
    MaxAddress = 2
    Site <- MCSite
    Spec <- MCSpec
    Has <- MCHas
    Sources = {"bus", "vlp"}
    Initial = 2
    Interval = 1
    MaxDelay = 2
    MaxLost = 1
SPECIFICATION FairSSpec
INVARIANTS RightRoute ChannelsRight
PROPERTIES ScanIsWhole ScanEnds
CHECK_DEADLOCK FALSE
