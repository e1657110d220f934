------------------------------ MODULE MCTraffic ------------------------------
(* Instances of Traffic for TLC: an Xray inbound and its client, and a        *)
(* sing-box client whose inbound is not followed.                             *)
EXTENDS Traffic

CONSTANTS in, alice, bob, a1  \* model values

OneClient == {alice}
BothCores == {alice, bob}
OneInbound == {in}
NoScopes == {}
JustBob == {bob}
WhereTheyAre == [c \in {alice, bob} |-> IF c = bob THEN "untracked" ELSE in]
Up == {"up"}
UpDown == {"up", "down"}
OneAdmin == {a1}
AnyCapability == {"grpc", "unsupported", "unavailable"}
Grpc == {"grpc"}
AnyEndpoint == {"answers", "refuses", "hangs"}
AnswersAlways == {"answers"}
AnswersOrHangs == {"answers", "hangs"}
=============================================================================
