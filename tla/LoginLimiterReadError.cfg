SPECIFICATION Spec
CONSTANTS
    r1 = r1
    r2 = r2
    admin = admin
    root = root
    Requests <- TwoRequests
    Users <- OneUser
    Limit = 2
    Cooldown = 2
    PruneInterval = 4
    Second = 2
    ReadErrors <- EveryKey
    WriteErrors <- NoKeys
    MaxTime = 0
    MaxLogins = 4
    MaxRestarts = 1
CHECK_DEADLOCK FALSE
PROPERTIES FailedReadsLowerNothing
SYMMETRY Interchangeable
