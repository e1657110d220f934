SPECIFICATION SyncSpec
CONSTANTS
    A = A
    B = B
    s1 = s1
    s2 = s2
    Cores <- BothCores
    Managers <- OneManager
    MaxJobs = 1
    MaxRetries = 1
    Configs <- AllKinds
    Invalid <- BadOne
    Unbuildable <- BrokenOne
    NoConfig = NoConfig
    Dead = Dead
    Savers <- OneSaver
    AutoApply = TRUE
    Manual = TRUE
    Timeouts = FALSE
    Faults = TRUE
    MaxSaves = 2
    MaxRenewals = 0
    MaxCrashes = 1
CHECK_DEADLOCK FALSE
INVARIANTS OnlyValidRuns NoSilentDrift FailureShows
PROPERTIES RecordedIsLive
SYMMETRY Interchangeable
