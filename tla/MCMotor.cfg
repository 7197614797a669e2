\* Small positions around the middle of the range, a counter of 2 edges and a
\* queue of 1, so that watch events and commands overtake their reader; the
\* tasks are scheduled.
CONSTANTS
    Watch = 2
    Near = 1
    Small = 2
    Slow = 3
    Fast = 3
    Patience = 1
    QueueLen = 1
    PosMod = 64
    StartPos = 31
    ActMod = 2
    Ends <- MCEnds
    Targets = {34}
    Percents = {75}
    Nudges <- MCNudges
    MaxEdges = 3
    MaxCommands = 2
    MaxMishaps = 1
    MaxEvents = 4
SPECIFICATION MCFairSpec
INVARIANTS
    MotorInv
    EncoderBeforeDrive
    AtRestAgreed
    MovesReported
    WakeKept
PROPERTIES
    KeepsPromise
    CountsConserved
    SettlesDown
    WakeServed
    ComesToRest
CHECK_DEADLOCK FALSE
