--------------------------- MODULE MCSnapshotOps ---------------------------
(* Small instances of SnapshotOps. *)
EXTENDS SnapshotOps, TLC

TwoStages == {"dev", "production"}

Symmetry == Permutations(Tasks)
=============================================================================
