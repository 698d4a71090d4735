SPECIFICATION FairSpec
CONSTANTS
    d1 = d1
    d2 = d2
    Daemons <- OneDaemon
    Markers <- TwoMarkers
    Triggers <- NoTriggers
    MaxFrozenIncidents = 2
    MaxMarks = 1
    MaxFirings = 1
    MaxFaults = 0
    Absent = Absent
    Torn = Torn
PROPERTIES PendingMarkerAnswered
