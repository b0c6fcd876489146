--------------------------- MODULE MCDeployLocks ---------------------------
(* A small instance of DeployLocks: every kind of deploy, either stage. *)
EXTENDS DeployLocks, TLC

AllKinds == {"single", "bp", "set", "agent"}
AllStages == {"dev", "live-dev"}
=============================================================================
