---------------------------- MODULE Reservation ----------------------------
(***************************************************************************)
(* What the in-memory lock tables of bitswan-gitops promise (DeployManager *)
(* and SnapshotManager): a task reserves everything it will touch in one   *)
(* piece or nothing at all, nobody else touches it until the task gives    *)
(* all of it back in one piece.                                            *)
(***************************************************************************)
CONSTANTS
    Resources,  \* what can be reserved: deployments, or stages of a process
    Task,       \* the tasks that reserve
    Nobody      \* the holder of a free resource

VARIABLE holder

Free == {r \in Resources : holder[r] = Nobody}
Held(t) == {r \in Resources : holder[r] = t}

Init == holder = [r \in Resources |-> Nobody]

Reserve(t, rs) ==
    /\ Held(t) = {}
    /\ rs \subseteq Free
    /\ holder' = [r \in Resources |-> IF r \in rs THEN t ELSE holder[r]]

GiveBack(t) ==
    holder' = [r \in Resources |-> IF holder[r] = t THEN Nobody ELSE holder[r]]

Next == \E t \in Task : GiveBack(t) \/ \E rs \in SUBSET Resources : Reserve(t, rs)

Spec == Init /\ [][Next]_holder
=============================================================================
