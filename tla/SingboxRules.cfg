SPECIFICATION RoutingSpec
CONSTANTS
    InboundIds <- OneInbound
    ClientIds <- TwoClients
    OutboundIds <- TwoOutbounds
    Home <- HomeOfAll
    Direct = 1
    SystemDirect = {}
    Kinds <- JustSingbox
    MaxRules = 1
    FirstTables <- NoRules
    MaxWrites = 1
CHECK_DEADLOCK FALSE
INVARIANTS SingboxDrawnAsRouted
