SPECIFICATION FairSpec
CONSTANTS
    MaxRead = 3
    MaxRetained = 2
    MaxUnits = 7
    MaxRotations = 2
INVARIANTS
    ExportsNewest
    ContinuityMeansDrained
    RotationReported
PROPERTIES
    CatchesUp
