SPECIFICATION Spec
CONSTANTS
    Configs <- CodeThresholds
    PollCycles = 5
    Deadline = 15
    AliveMod = 3
    MaxGap = 6
INVARIANTS
    TypeOK
    SilentIsFound
    HealthyIsAlive
PROPERTIES
    ImplementsWindow
