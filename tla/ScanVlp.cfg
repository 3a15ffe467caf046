CONSTANTS
    MaxAddress = 2
    Site <- MCOneSub
    Spec <- MCSpec
    Has <- MCHas
    Sources = {"vlp"}
    Initial = 2
    Interval = 1
    MaxDelay = 2
    MaxLost = 1
SPECIFICATION SSpec
INVARIANT BlocksActive
