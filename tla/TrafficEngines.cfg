SPECIFICATION FairSpec
CONSTANTS
    in = in
    alice = alice
    bob = bob
    a1 = a1
    Clients <- BothCores
    Inbounds <- NoScopes
    InboundOf <- WhereTheyAre
    Singbox <- JustBob
    Directions <- Up
    Admins <- OneAdmin
    Capabilities <- AnyCapability
    Endpoints <- AnyEndpoint
    MaxBytes = 1
    MaxResets = 1
    MaxFaults = 1
PROPERTIES CatchesUp
