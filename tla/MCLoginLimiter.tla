--------------------------- MODULE MCLoginLimiter ---------------------------
(* Instances of LoginLimiter for TLC.  Requests are interchangeable.         *)
EXTENDS LoginLimiter, TLC

CONSTANTS r1, r2, admin, root  \* model values

TwoRequests == {r1, r2}
OneUser == {admin}
TwoUsers == {admin, root}
NoKeys == {}
JustRoot == {root}
EveryKey == {Address, admin}
Interchangeable == Permutations(TwoRequests)
=============================================================================
