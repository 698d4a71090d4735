SPECIFICATION FairSpec
CONSTANTS
    adc = adc
    mcp = mcp
    pi5 = pi5
    run1 = run1
    run2 = run2
    Daemon = targetd
    None = None
    Absent = Absent
    Empty = Empty
    Garbled = Garbled
    ProfileIds <- OneProfile
    Clients <- TwoClients
    Runs <- OneRun
    MaxCommands = 2
    MaxKills = 1
INVARIANTS
    TypeOK
    StatusCoherent
PROPERTIES
    LoneCommandTakesEffect
    UnreadableHeals
