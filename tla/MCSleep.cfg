\* A command in the last 20 ms of a stalled movement.
CONSTANTS
    Watch = 4
    Near = 1
    Small = 2
    Slow = 3
    Fast = 3
    Patience = 1
    QueueLen = 2
    PosMod = 64
    StartPos = 31
    ActMod = 2
    Ends <- MCEnds
    Targets = {34}
    Percents = {0, 50}
    Nudges <- MCNudges
    MaxEdges = 2
    MaxCommands = 2
    MaxMishaps = 0
    MaxEvents = 4
SPECIFICATION MCSpec
INVARIANTS
    SleepsWithoutEvents
CHECK_DEADLOCK FALSE
