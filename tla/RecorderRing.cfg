SPECIFICATION Spec
CONSTANTS
    Semantic <- SomeSemantic
    Events <- SomeEvents
    Capacity = 3
    Retention = 3
    MinInterval = 2
    MaxBytes = 5
    ClockFails = TRUE
    LastTime = 6
    MaxPushes = 5
INVARIANTS
    TypeOK
    DropsCounted
    KeepsWindow
    GovernedApart
    ExportsNewest
    CoverageHonest
    AbsenceDistinguished
