\* The safety controller under single faults and selected pairs of faults.
SPECIFICATION FairSpec
CONSTANTS
    AliveMod = 2
    MaxConsecFail = 2
    HbTimeoutTicks = 2
    HbConfirmTicks = 2
    HbRecoveryThreshold = 2
    HbStuckDegradedMax = 2
    HbFaultEscalateMax = 2
    StartupGraceTicks = 2
    PlausDebounceTicks = 2
    BackupCutoffTicks = 3
    CreepDebounceCycles = 2
    ReadbackThreshold = 2
    SelfTestPeriod = 8
    Ecus = {"CVC", "FZC"}
    BusSilenceTicks = 3
    MonitoringTxPeriod = 2
    WatchdogTicks = 2
    Torques <- MCTorques
    Currents <- MCCurrents
    HbContents <- MCHbContents
    FaultHypotheses <- MCFaultHypotheses
INVARIANTS
    TypeOK
    ClosedOnlyWhenHealthy
    DeadEcuCutsPower
    EStopCutsPower
    DriveFaultCutsPower
    TripHasCause
    StatusIsTrue
PROPERTIES
    KeepsPromise
    UnhealthyIsReset
