---------------------------- MODULE ProductionSlots ----------------------------
(***************************************************************************)
(* The production stage of one business process as bitswan.yaml records    *)
(* it, and what the driver's compiler makes of the record.  Two databases, *)
(* 1 and 2, one of them live; three application slots, each wired to a     *)
(* database or idle (0); one slot live.  The slots are numbered in the     *)
(* order in which both programs look through them: blue, green, purple.    *)
(***************************************************************************)
EXTENDS Integers

Slots == 1..3
Hosts == {"production", "dr"}   \* the two hosts that move between slots
Roles == {"live", "dr", "spare"}

\* `on` says that the process has production deployments; `ver` stands for their
\* code and `fw` for the allow-list of their firewall.
Records == [wire : [Slots -> 0..2], live : Slots, db : 1..2, on : BOOLEAN,
            ver : 1..2, fw : 1..2]

OtherDb(db) == 3 - db

First(S) == CHOOSE s \in S : \A t \in S : s <= t

\* Blue live on database 1, green on the standby, purple idle.
Fresh(on) == [wire |-> [s \in Slots |-> IF s = 3 THEN 0 ELSE s],
              live |-> 1, db |-> 1, on |-> on, ver |-> 1, fw |-> 1]

-----------------------------------------------------------------------------
(* What gitops does to the record *)

Idle(y)   == {s \in Slots : y.wire[s] = 0}
OnStandby(y) == {s \in Slots \ {y.live} : y.wire[s] = OtherDb(y.db)}
DrSlot(y) == IF OnStandby(y) = {} THEN 0 ELSE First(OnStandby(y))

\* begin_zero_downtime_promote: an idle slot is wired to the live database.
Staged(y) == [y EXCEPT !.wire[First(Idle(y))] = y.db]

BugPromoted(y, target) ==
  [y EXCEPT !.live = target,
            !.wire = [s \in Slots |-> IF s = y.live /\ s # target THEN 0 ELSE @[s]]]

\* finish_zero_downtime_promote, with the databases as they are by then.
Promoted(y, target) ==
  [y EXCEPT !.live = target,
            !.wire = [s \in Slots |-> IF (s = y.live /\ s # target) \/ @[s] = 0 THEN 0
                                     ELSE IF s = target THEN y.db ELSE @[s]]]

BugSwapped(y) == [y EXCEPT !.live = DrSlot(y), !.db = @ + 1]

\* swap_production_dr, where there is a DR slot.
Swapped(y) == [y EXCEPT !.live = DrSlot(y), !.db = OtherDb(y.db)]

-----------------------------------------------------------------------------
(* What the compiler makes of it *)

Declared(y) == {s \in Slots : y.on /\ y.wire[s] # 0}

\* The host a slot serves is in the environment and the labels of its container.
Role(y, s) == IF s = y.live THEN "live" ELSE IF s = DrSlot(y) THEN "dr" ELSE "spare"
Config(y, s) == [db |-> y.wire[s], role |-> Role(y, s), ver |-> y.ver]

\* The slot a host is to reach, 0 when it is to have no route.
Upstream(y, h) ==
  LET s == IF h = "production" THEN y.live ELSE DrSlot(y)
  IN  IF s \in Declared(y) THEN s ELSE 0

Routed(y) == {h \in Hosts : Upstream(y, h) # 0}
=============================================================================
