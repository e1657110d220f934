SPECIFICATION SyncSpec
CONSTANTS
    A = A
    B = B
    s1 = s1
    s2 = s2
    Cores <- OneCore
    Managers <- BothManagers
    MaxJobs = 2
    MaxRetries = 0
    Configs <- OneBad
    Invalid <- BadOne
    Unbuildable <- NoneOf
    NoConfig = NoConfig
    Dead = Dead
    Savers <- TwoSavers
    AutoApply = TRUE
    Manual = TRUE
    Timeouts = TRUE
    Faults = FALSE
    MaxSaves = 2
    MaxRenewals = 0
    MaxCrashes = 0
CHECK_DEADLOCK FALSE
INVARIANTS SyncTypeOK NoSilentDrift InstallUndisturbed
SYMMETRY Interchangeable
