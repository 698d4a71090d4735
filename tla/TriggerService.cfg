SPECIFICATION TriggerSpec
CONSTANTS
    pi5 = pi5
    demo = demo
    NoProfile = NoProfile
    Profiles <- TwoProfiles
    Rules <- ShippedRules
    Collected <- ShippedCollected
    Semantic <- SomeSemantic
    Kmsg = "kmsg"
    Values <- TwoValues
    MaxFrozenIncidents = 1
    LastTime = 1
    MaxFirings = 2
INVARIANTS
    FiringsHaveEvidence
    WritesBounded
