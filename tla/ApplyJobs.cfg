SPECIFICATION RunnerFairSpec
CONSTANTS
    Cores <- OneCore
    Managers <- OneManager
    MaxJobs = 2
    MaxRetries = 1
INVARIANTS WorkExclusion LocksHaveOwners AttemptsInTurn OneActiveJob OnlyTimeoutsLeaveWork
PROPERTIES ImplementsLifecycle JobsEnd LockIsReleased
