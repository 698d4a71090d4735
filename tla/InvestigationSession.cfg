SPECIFICATION Spec
CONSTANTS
    a = a
    b = b
    Clients <- TwoClients
    SessionOrder <- OneSession
    Evidences <- SomeEvidences
    Unopenable <- SomeUnopenable
    Refreshed <- OneRefresh
    ExtraRefs <- NoExtra
    MaxLabels = 1
    MaxSessions = 1
    MaxRequests = 2
    MaxCrashes = 1
INVARIANTS
    TypeOK
    LoneContinuationKept
    PackLeads
    LoneCleanUpBounds
CHECK_DEADLOCK FALSE
