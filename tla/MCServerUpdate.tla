--------------------------- MODULE MCServerUpdate ---------------------------
(* Instances of ServerUpdate for TLC. *)
EXTENDS ServerUpdate
=============================================================================
