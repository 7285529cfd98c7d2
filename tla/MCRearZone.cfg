SPECIFICATION FairSpec
CONSTANTS
    Torques <- SomeTorques
    CmdTimeout = 2
    CmdRecovery = 2
    Currents = {0, 20, 40}
    Overcurrent = 25
    AvgWindow = 4
    OcDebounce = 3
    OcRecovery = 4
    StallChecks = 2
    DirChecks = 2
    StallGrace = 2
    DirGrace = 1
    StallMinTorque = 10
    MotorPeriod = 2
    SafetyPeriod = 4
    FailLimit = 2
    Temps <- SomeTemps
    WatchdogPeriods = 2
    Disturbances <- OneAtATime
INVARIANTS
    TypeOK
    DrivesAsCommanded
    StaleDriveEnds
PROPERTIES
    DeadTime
    OvercurrentTracked
    CriticalEnds
