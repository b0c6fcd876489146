--------------------------- MODULE MCDeviceTrust ---------------------------
(* An instance of DeviceTrust for TLC. Neither the two accounts nor the two  *)
(* requests are told apart by anything but what happens to them.             *)
EXTENDS DeviceTrust, TLC

CONSTANTS u1, u2, r1, r2

MCUsers    == {u1, u2}
MCRequests == {r1, r2}
Symmetry   == Permutations(MCUsers) \cup Permutations(MCRequests)
=============================================================================
