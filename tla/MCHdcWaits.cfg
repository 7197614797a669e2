CONSTANTS
    PinAtStart = {FALSE}
    MaxTriggers = 6
    MaxBuses = 3
SPECIFICATION MCSpec
INVARIANT WaitsForData
CHECK_DEADLOCK FALSE
