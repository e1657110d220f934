----------------------------- MODULE MCCoreSync -----------------------------
(* Instances of CoreSync for TLC.  Savers and valid configurations are         *)
(* interchangeable; symmetry is used for safety only.                          *)
EXTENDS CoreSync, TLC

CONSTANTS A, B, s1, s2  \* model values

BothManagers == {"router", "refresher"}
OneManager == {"router"}
BothCores == {"xray", "singbox"}
OneCore == {"xray"}
NoneOf == {}
TwoConfigs == {A, B}
OneBad == {A, B, "bad"}
AllKinds == {A, B, "bad", "broken"}
BrokenOne == {"broken"}
BadOne == {"bad"}
OneSaver == {s1}
TwoSavers == {s1, s2}
Interchangeable == Permutations({A, B}) \cup Permutations(TwoSavers)
=============================================================================
