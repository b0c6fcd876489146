------------------------------ MODULE MCBackups ------------------------------
(* A server with a few workspaces for TLC; nothing tells them apart. *)
EXTENDS Backups, TLC
Alike == Permutations(Ws)
=============================================================================
