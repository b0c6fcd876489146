---------------------------- MODULE MCWorkspaces ----------------------------
(* Instances of Workspaces for TLC: "pr" and "pr-two". *)
EXTENDS Workspaces, TLC

CONSTANTS pr, prtwo

PairPrTwo  == {<<prtwo, pr>>}
NoPair     == {}
Symmetry   == Permutations(Actors)
=============================================================================
