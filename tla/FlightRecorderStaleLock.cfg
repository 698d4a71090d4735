SPECIFICATION FairSpec
CONSTANTS
    d1 = d1
    d2 = d2
    Daemons <- OneDaemon
    Markers <- OneMarker
    Triggers <- OneTrigger
    MaxFrozenIncidents = 2
    MaxMarks = 1
    MaxFirings = 1
    MaxFaults = 1
    Absent = Absent
    Torn = Torn
PROPERTIES MarkerAnsweredAfterRestart
