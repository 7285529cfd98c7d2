SPECIFICATION Spec
CONSTANTS
    InitHoldCycles = 2
    PostInitGraceCycles = 0
    ConfirmThreshold = 2
    UnlatchCycles = 3
    RecoveryCycles = 2
    CreepDebounceTicks = 2
    MaxAbnormal = 1
PROPERTY
    ClearedMeansClear
