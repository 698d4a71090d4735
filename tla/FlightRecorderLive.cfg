SPECIFICATION FairSpec
CONSTANTS
    d1 = d1
    d2 = d2
    Daemons <- TwoDaemons
    Markers <- TwoMarkers
    Triggers <- OneTrigger
    MaxFrozenIncidents = 2
    MaxMarks = 1
    MaxFirings = 1
    MaxFaults = 0
    Absent = Absent
    Torn = Torn
PROPERTIES
    PendingDrained
    LockReleased
