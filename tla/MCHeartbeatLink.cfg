\* A sender with up to two bus-off episodes, one lost frame and one restart.
SPECIFICATION FairSpec
CONSTANTS
    AliveMod = 5
    MaxConsecFail = 3
    HbTimeoutTicks = 6
    HbConfirmTicks = 3
    HbRecoveryThreshold = 3
    HbStuckDegradedMax = 1
    HbFaultEscalateMax = 1
    HB_PERIOD_CYCLES = 3
    StartupGraceTicks = 2
    MaxSkew = 2
    MaxLosses = 1
    MaxOutages = 2
    MaxRestarts = 1
INVARIANTS
    TypeOK
    NoFalseTrip
    OutageKeepsSequence
PROPERTIES
    ConfirmedAfterSilence
    TimeoutResolves
