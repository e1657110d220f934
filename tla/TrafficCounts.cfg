SPECIFICATION Spec
CONSTANTS
    in = in
    alice = alice
    bob = bob
    a1 = a1
    Clients <- OneClient
    Inbounds <- OneInbound
    InboundOf <- WhereTheyAre
    Singbox <- NoScopes
    Directions <- UpDown
    Admins <- OneAdmin
    Capabilities <- Grpc
    Endpoints <- AnswersAlways
    MaxBytes = 2
    MaxResets = 1
    MaxFaults = 1
INVARIANTS TypeOK CountsOnlySinceReset TotalsAreExact
PROPERTIES UsageIsKept
