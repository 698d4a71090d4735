SPECIFICATION Spec
CONSTANTS
    a = a
    b = b
    Clients <- TwoClients
    Targets <- TwoTargets
    Entries <- SomeEntries
    Selectors <- SomeSelectors
    InventoryName <- SomeNames
    Invites <- TwoInvites
    Lifetimes <- SomeLifetimes
    MaxTime = 2
    MaxRequests = 3
    MaxCrashes = 1
INVARIANTS
    EnrollmentKept
    SelectionCurrent
    InvitesHold
CHECK_DEADLOCK FALSE
