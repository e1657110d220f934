SPECIFICATION PanelSpec
CONSTANTS
    TrackedCores <- OneCore
    AutoApply <- OnAndOff
    MaxSaves = 2
    MaxJobs = 2
    MaxFaults = 1
    MaxEdits = 2
    RowIds <- TwoInbounds
    ResyncEvery = 1
    MaxMoves = 2
    MaxQueue = 2
    MaxDrops = 1
    MaxActs = 4
    MaxFailures = 1
    MaxChanges = 1
    MaxMisses = 1
    InboundIds <- TwoInbounds
    ClientIds <- OneClient
    OutboundIds <- ThreeOutbounds
    Home <- ClientAtOne
    Direct = 1
    SystemDirect = {3}
    Kinds <- JustSingbox
    MaxRules = 3
    FirstTables <- FreshOrSmall
    MaxWrites = 2
    MaxUpdates = 2
    MaxMishaps = 1
    TlsInbounds <- OneInbound
    MaxCertId = 2
    MaxOthers = 1
    MaxConfirms = 1
CHECK_DEADLOCK FALSE
INVARIANTS PanelTypeOK ToldAsItIs PollsAreBounded  SentAsShown HeadlineIsRight RulesAreWhole JudgedAsServed DrawingIsTrue
PROPERTIES EndsAreHeard FiguresAreFollowed SessionIsFollowed StatusIsFollowed  AppliedAsConfirmed
