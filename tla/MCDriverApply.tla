----------------------------- MODULE MCDriverApply -----------------------------
(* Two processes of one workspace; nothing but their names tells them apart. *)
EXTENDS DriverApply, TLC

MCHome == [s \in Slices |-> "pr"]
MCName == [s \in Slices |-> s]
Alike  == Permutations(Slices)
=============================================================================
