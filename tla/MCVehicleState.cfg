SPECIFICATION FairSpec
CONSTANTS
    InitHoldCycles = 2
    PostInitGraceCycles = 1
    ConfirmThreshold = 2
    UnlatchCycles = 3
    RecoveryCycles = 2
    CreepDebounceTicks = 2
    MaxAbnormal = 2
INVARIANTS
    TypeOK
    FaultsStopInTime
    OneLatchPerStop
    BswMHearsOfStops
PROPERTIES
    RecoveryNeedsQuiet
    FullInitHold
    Recovers
