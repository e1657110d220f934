SPECIFICATION SyncFairSpec
CONSTANTS
    A = A
    B = B
    s1 = s1
    s2 = s2
    Cores <- OneCore
    Managers <- OneManager
    MaxJobs = 8
    MaxRetries = 0
    Configs <- TwoConfigs
    Invalid <- NoneOf
    Unbuildable <- NoneOf
    NoConfig = NoConfig
    Dead = Dead
    Savers <- OneSaver
    AutoApply = TRUE
    Manual = FALSE
    Timeouts = FALSE
    Faults = FALSE
    MaxSaves = 3
    MaxRenewals = 1
    MaxCrashes = 0
CHECK_DEADLOCK FALSE
PROPERTIES Converges
