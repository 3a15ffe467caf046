CONSTANTS
    NoPrecision = None
    Modules <- MCModules
    None = None
    MaxFrames = 3
    MaxTroubles = 1
SPECIFICATION SSpec
INVARIANTS LatestStands Informed
CHECK_DEADLOCK FALSE
