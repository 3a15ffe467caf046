CONSTANTS
    NoPrecision = NoPrecision
    Fine = 1
    Coarse = 4
    Degree = 8
    Temperatures <- MCTemperatures
    Presets = {"comfort", "night"}
    Targets = {1}
    MaxSleep = 2
    MaxCalls = 3
    MaxReports = 2
SPECIFICATION THSpec
INVARIANTS AskedFor TemperatureFits
CHECK_DEADLOCK FALSE
