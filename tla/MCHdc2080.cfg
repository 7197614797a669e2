CONSTANTS
    PinAtStart = {TRUE, FALSE}
    MaxTriggers = 6
    MaxBuses = 3
SPECIFICATION MCSpec
INVARIANTS
    HdcInv
    LagsAtMostOne
    FreshUntilLeftOver
CHECK_DEADLOCK FALSE
