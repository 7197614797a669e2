\* 16 values to a word, so that 127 = INT64_MAX is (7, 15); 4 for 100 percent.
CONSTANTS
    Half = 16
    Precise = 50
    Blur = 1
    Full = 4
    Unit = 2
    LiftMod = 16
    ByteMod = 8
    Short = 4
    Starts = {127}
    Ends <- MCEnds
    Jumps <- MCJumps
    Values = {0, 3, 15}
    Percents = {0, 1, 4}
    Nudges <- MCNudges
    MaxSamples = 2
    MaxCommands = 3
SPECIFICATION MCSpec
INVARIANTS
    PositionInv
    ReadsWhole
    AimsWithinEnds
    RoundTrip
    ReportsPercent
CHECK_DEADLOCK FALSE
