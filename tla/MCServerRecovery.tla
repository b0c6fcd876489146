-------------------------- MODULE MCServerRecovery --------------------------
(* A lost server with a few workspaces for TLC; nothing tells them apart. *)
EXTENDS ServerRecovery, TLC
Alike == Permutations(Ws)
=============================================================================
