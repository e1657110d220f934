----------------------------- MODULE MCApplyJobs -----------------------------
(* Instances of ApplyJobs for TLC. *)
EXTENDS ApplyJobs

BothManagers == {"router", "refresher"}
OneManager == {"router"}
BothCores == {"xray", "singbox"}
OneCore == {"xray"}
=============================================================================
