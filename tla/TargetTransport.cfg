SPECIFICATION Spec
CONSTANTS
    Plans <- MCPlans
    Transports = {"ssh", "managed"}
    Endpoints = {"valid", "hostless", "invalid"}
    Holders = {TRUE, FALSE}
    MaxLines = 2
INVARIANTS
    NoLeftovers
PROPERTIES
    ImplementsTargetCall
    CallEnds
CHECK_DEADLOCK FALSE
