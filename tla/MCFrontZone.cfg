SPECIFICATION FairSpec
CONSTANTS
    AngleMax = 2
    DegToTenths = 2
    PlausThreshold = 2
    PlausDebounce = 2
    RateLimit = 1
    SteerLatchClear = 4
    CounterMod = 6
    FullBrake = 2
    DeviationThreshold = 1
    BrakeDebounce = 2
    OscThreshold = 1
    OscDebounce = 2
    BrakeLatchClear = 4
    CutoffRepeat = 2
    BrakeCounterMod = 5
    EstopDeadline = 2
    StateDeadline = 2
    CommandDeadline = 2
    PostInitGraceCycles = 1
    ErrWarnCycles = 2
    TxPeriod = 3
    TxStart = 1
    WatchdogCycles = 5
    Disturbances <- OneAtATime
INVARIANTS
    TypeOK
    EstopHoldsBrake
    DeviationKeepsBraking
    ImplausibleKeepsNeutral
    CutoffNotWithdrawn
PROPERTIES
    CutoffReported
    NeutralUntilReset
    MagnitudeRateLimited
    BrakeLatchEnds
