SPECIFICATION Spec
CONSTANTS
    a = a
    b = b
    Clients <- TwoClients
    LocalRuns <- OneRun
    FleetIds <- TwoFleets
    Inventories <- SomeInventories
    Observations <- SomeObservations
    Statuses <- SomeStatuses
    MaxRequests = 2
    MaxCrashes = 1
INVARIANTS
    SealedRunIntact
    FleetEvidenceComplete
    FleetEvidenceBacked
CHECK_DEADLOCK FALSE
