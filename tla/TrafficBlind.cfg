SPECIFICATION Spec
CONSTANTS
    in = in
    alice = alice
    bob = bob
    a1 = a1
    Clients <- JustBob
    Inbounds <- NoScopes
    InboundOf <- WhereTheyAre
    Singbox <- JustBob
    Directions <- Up
    Admins <- OneAdmin
    Capabilities <- Grpc
    Endpoints <- AnswersAlways
    MaxBytes = 2
    MaxResets = 1
    MaxFaults = 2
INVARIANTS NextCounterIsBaseline
