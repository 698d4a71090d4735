SPECIFICATION Spec
CONSTANTS
    d1 = d1
    d2 = d2
    Daemons <- TwoDaemons
    Markers <- TwoMarkers
    Triggers <- OneTrigger
    MaxFrozenIncidents = 2
    MaxMarks = 1
    MaxFirings = 2
    MaxFaults = 1
    Absent = Absent
    Torn = Torn
SYMMETRY DaemonSymmetry
INVARIANTS
    TypeOK
    AdmissionExclusive
    BudgetRespected
    OneIncompleteBundle
    ValidBundleCoherent
    AnswerMatchesInventory
PROPERTIES
    FrozenUntouched
    ImplementsIncidentStore
