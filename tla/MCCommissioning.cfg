CONSTANTS
    QueueLen = 2
    HoldPolls = 2
    Hour = 2
    BeatMod = 3
SPECIFICATION FairSpec
INVARIANTS
    CommissioningInv
    NeverStranded
    PressSignalled
PROPERTIES
    HoldIsNoticed
    BootEnds
    BatteryRefreshed
