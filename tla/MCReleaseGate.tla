--------------------------- MODULE MCReleaseGate ---------------------------
(* A small instance of ReleaseGate: the writers that race with the gate. *)
EXTENDS ReleaseGate, TLC

CONSTANTS a, b, a1, b1

\* the image of each of two members
PartOf == [p \in Parts |-> IF p = a1 THEN a ELSE b]

RaceKinds == {"partial", "to_staging", "to_production", "rollback_staging",
              "rollback_production"}

Symmetry == Permutations(Tasks) \cup Permutations(Auditors)
=============================================================================
