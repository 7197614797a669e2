CONSTANTS
    Desireds <- MCDesireds
    Velocities = {0, 32767, 65535}
    MinSpeeds <- MCMinSpeeds
    Offsets = {0, 20000, 65535}
    Steps = 100
    BaseSpeed = 24000
    FullSpeed = 32768
    Word = 65536
    MaxSets = 2
SPECIFICATION MCSpec
INVARIANTS
    SpeedInv
    DrivesAsAsked
PROPERTIES
    NeverSlower
