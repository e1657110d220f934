SPECIFICATION Spec
CONSTANTS
    r1 = r1
    r2 = r2
    admin = admin
    root = root
    Requests <- TwoRequests
    Users <- TwoUsers
    Limit = 2
    Cooldown = 2
    PruneInterval = 4
    Second = 2
    ReadErrors <- JustRoot
    WriteErrors <- JustRoot
    MaxTime = 2
    MaxLogins = 3
    MaxRestarts = 1
CHECK_DEADLOCK FALSE
INVARIANTS TypeOK CountsAreReal
PROPERTIES BlocksHold StoredCountsNeverFall
SYMMETRY Interchangeable
