---------------------------- MODULE SnapshotOps ----------------------------
(***************************************************************************)
(* Snapshots of one business process and what is done with them: create,   *)
(* restore, clone and delete, the restore into the disaster-recovery       *)
(* standby and the swap that takes the standby live (snapshot_manager,     *)
(* snapshot_runner and snapshot_service of bitswan-gitops, and the DR part *)
(* of AutomationService).                                                  *)
(*                                                                         *)
(* A place holds the data of one realm, service by service: dev, staging   *)
(* and production have one each, under the plain names, and production     *)
(* also has db1 and db2, one of which is live.  The data of a service is   *)
(* named after the place it first came from, so that what the application  *)
(* itself writes does not change it; a service whose database was dropped  *)
(* and not loaded again has Gone.                                          *)
(*                                                                         *)
(* A definition named Bug... is a wrong variant of the one that follows    *)
(* it.  No action uses it: it records which mistake each property catches. *)
(***************************************************************************)
EXTENDS Naturals, FiniteSets

CONSTANTS
    Stages,    \* the stages of the process, "production" among them
    Services,  \* the number of data services, handled in one fixed order
    Tasks,     \* a bound on the operations at one time
    NoTask,
    Keep,      \* AUTO_SNAPSHOTS_KEEP
    MaxSnaps   \* a bound on the snapshots ever taken

ASSUME StagesAssumption == "production" \in Stages /\ {"db1", "db2"} \cap Stages = {}
ASSUME BoundsAssumption == Services \in Nat /\ Keep \in Nat /\ MaxSnaps \in Nat
ASSUME NoTaskAssumption == NoTask \notin Tasks

Gone == "gone"
Databases == {"db1", "db2"}
Places == Stages \cup Databases
Contents == [1..Services -> Places \cup {Gone}]
Ids == 1..MaxSnaps  \* in the order in which they are taken
NoSnap == 0
Snapshots == [stage : Stages, kind : {"manual", "auto"}, content : Contents]

VARIABLES
    active,    \* SnapshotManager._active
    pc, job,   \* where each operation is, and what it was asked to do
    snap,      \* the snapshot it restores
    pre,       \* the snapshot it took of the target before
    next,      \* the service that is next to be saved or loaded
    dump,      \* the files it has saved so far
    data,      \* the content of each place
    snapshot,  \* the snapshots on disk
    taken,     \* how many were ever taken
    live,      \* backups[bp].live_db
    restored   \* disaster_recovery[bp].restored

work == <<snap, pre, next, dump>>
disk == <<snapshot, taken>>
production == <<live, restored>>
vars == <<active, pc, job, work, data, disk, production>>

Phases == {"copying", "saving", "pruning", "loading"}

Jobs == [op : {"create", "restore", "clone", "dr"}, source : Stages,
         target : Stages, db : Databases \cup {"none"}]

Blank == [k \in 1..Services |-> Gone]

\* the ids that are not on disk, taken and deleted or still to be taken
NoSnapshot == [stage |-> "production", kind |-> "none", content |-> Blank]

stored == {i \in Ids : snapshot[i] # NoSnapshot}

TypeOK ==
    /\ active \in [Stages -> Tasks \cup {NoTask}]
    /\ pc \in [Tasks -> Phases \cup {"idle"}]
    /\ job \in [Tasks -> Jobs]
    /\ snap \in [Tasks -> Ids \cup {NoSnap}]
    /\ pre \in [Tasks -> Ids \cup {NoSnap}]
    /\ next \in [Tasks -> 1..Services + 1]
    /\ dump \in [Tasks -> Contents]
    /\ data \in [Places -> Contents]
    /\ taken \in 0..MaxSnaps
    /\ snapshot \in [Ids -> Snapshots \cup {NoSnapshot}]
    /\ stored \subseteq 1..taken
    /\ live \in Databases
    /\ restored \in Ids \cup {NoSnap}

\* an operation that does not run
NoJob == [op |-> "create", source |-> "production", target |-> "production",
          db |-> "none"]

Init ==
    /\ active = [s \in Stages |-> NoTask]
    /\ pc = [t \in Tasks |-> "idle"]
    /\ job = [t \in Tasks |-> NoJob]
    /\ snap = [t \in Tasks |-> NoSnap]
    /\ pre = [t \in Tasks |-> NoSnap]
    /\ next = [t \in Tasks |-> 1]
    /\ dump = [t \in Tasks |-> Blank]
    /\ data = [p \in Places |-> [k \in 1..Services |-> p]]
    /\ snapshot = [i \in Ids |-> NoSnapshot]
    /\ taken = 0
    /\ live = "db1"
    /\ restored = NoSnap

Standby == IF live = "db1" THEN "db2" ELSE "db1"

-----------------------------------------------------------------------------
(* create_task and the spawn functions *)

BugSourceOnly(j) == {j.source}

\* every stage that the operation touches
Touched(j) == {j.source, j.target}

AllFree(j) == \A s \in Touched(j) : active[s] = NoTask

Spawn(t, o, s, u, d, i, phase) ==
    LET j == [op |-> o, source |-> s, target |-> u, db |-> d]
    IN /\ pc[t] = "idle"
       /\ AllFree(j)
       /\ active' = [st \in Stages |-> IF st \in Touched(j) THEN t ELSE active[st]]
       /\ job' = [job EXCEPT ![t] = j]
       /\ snap' = [snap EXCEPT ![t] = i]
       /\ pc' = [pc EXCEPT ![t] = phase]
       /\ UNCHANGED <<pre, next, dump, data, disk, production>>

\* a snapshot of production is one of the database that is live now
SpawnCreate(t, s) ==
    LET db == IF s = "production" THEN live ELSE "none"
    IN Spawn(t, "create", s, s, db, NoSnap, "copying")

SpawnRestore(t, i, u) ==
    /\ i \in stored
    /\ u # "production"
    /\ Spawn(t, "restore", snapshot[i].stage, u, "none", i, "saving")

\* target stage "dr": into the database that is the standby now, with nothing
\* worth saving first
SpawnDrRestore(t, i) ==
    /\ i \in stored
    /\ Spawn(t, "dr", snapshot[i].stage, "production", Standby, i, "loading")

SpawnClone(t, s, u) ==
    /\ s # u
    /\ u # "production"
    /\ Spawn(t, "clone", s, u, "none", NoSnap, "copying")

BugCountsFiles(ids) ==
    /\ snapshot' = [i \in Ids |-> IF i \in ids THEN NoSnapshot ELSE snapshot[i]]
    /\ taken' = Cardinality(stored \ ids)

\* the ids are times, so that none is used twice
Remove(ids) ==
    /\ snapshot' = [i \in Ids |-> IF i \in ids THEN NoSnapshot ELSE snapshot[i]]
    /\ UNCHANGED taken

\* delete_snapshot, at once
BugNeverBusy(s) == FALSE

IsBusy(s) == active[s] # NoTask

Delete(i) ==
    /\ i \in stored
    /\ ~ IsBusy(snapshot[i].stage)
    /\ Remove({i})
    /\ UNCHANGED <<active, pc, job, work, data, production>>

\* swap_production_dr
Swap ==
    /\ live' = Standby
    /\ UNCHANGED <<active, pc, job, work, data, disk, restored>>

-----------------------------------------------------------------------------
(* The coroutines *)

Goto(t, phase) ==
    /\ pc' = [pc EXCEPT ![t] = phase]
    /\ UNCHANGED <<active, job>>

\* bp_resource_names: without a database it is the plain name, which a clone
\* uses also for production
Resource(stage, db) == IF db = "none" THEN stage ELSE db

From(t) ==
    IF pc[t] = "saving" THEN job[t].target ELSE Resource(job[t].source, job[t].db)

Into(t) == Resource(job[t].target, job[t].db)

\* update_task with a terminal status, whichever it is
Unlocked(t) == {s \in Touched(job[t]) : active[s] = t}

End(t) ==
    /\ active' = [s \in Stages |-> IF s \in Unlocked(t) THEN NoTask ELSE active[s]]
    /\ pc' = [pc EXCEPT ![t] = "idle"]
    /\ job' = [job EXCEPT ![t] = NoJob]
    /\ snap' = [snap EXCEPT ![t] = NoSnap]
    /\ pre' = [pre EXCEPT ![t] = NoSnap]
    /\ next' = [next EXCEPT ![t] = 1]
    /\ dump' = [dump EXCEPT ![t] = Blank]

\* create_snapshot saves one service after the other in a temporary directory
Dump(t) ==
    /\ pc[t] \in {"copying", "saving"}
    /\ next[t] <= Services
    /\ dump' = [dump EXCEPT ![t][next[t]] = data[From(t)][next[t]]]
    /\ next' = [next EXCEPT ![t] = @ + 1]
    /\ UNCHANGED <<active, pc, job, snap, pre, data, disk, production>>

\* ... and renames it into place, under a new id
Publish(t, s, kind) ==
    /\ next[t] = Services + 1
    /\ taken < MaxSnaps
    /\ taken' = taken + 1
    /\ snapshot' = [snapshot EXCEPT ![taken + 1] =
                       [stage |-> s, kind |-> kind, content |-> dump[t]]]
    /\ UNCHANGED <<data, production>>

StartOver(t) ==
    /\ next' = [next EXCEPT ![t] = 1]
    /\ dump' = [dump EXCEPT ![t] = Blank]

PublishManual(t) ==
    /\ pc[t] = "copying" /\ job[t].op = "create"
    /\ Publish(t, job[t].source, "manual")
    /\ End(t)

\* the first half of a clone; then the target is saved and loaded
PublishCopy(t) ==
    /\ pc[t] = "copying" /\ job[t].op = "clone"
    /\ Publish(t, job[t].source, "auto")
    /\ snap' = [snap EXCEPT ![t] = taken + 1]
    /\ StartOver(t)
    /\ Goto(t, "saving")
    /\ UNCHANGED pre

PublishPre(t) ==
    /\ pc[t] = "saving"
    /\ Publish(t, job[t].target, "auto")
    /\ pre' = [pre EXCEPT ![t] = taken + 1]
    /\ StartOver(t)
    /\ Goto(t, "pruning")
    /\ UNCHANGED snap

Autos(s) == {i \in stored : snapshot[i].stage = s /\ snapshot[i].kind = "auto"}

\* the automatic snapshots of a stage beyond the Keep newest
Beyond(s) == {i \in Autos(s) : Cardinality({n \in Autos(s) : n > i}) >= Keep}

BugPrunesBoth(t) == Beyond(job[t].target) \cup Beyond(job[t].source)

\* prune_auto_snapshots of the target; keep_ids is the snapshot just taken
Pruned(t) == Beyond(job[t].target) \ {pre[t]}

Prune(t) ==
    /\ pc[t] = "pruning"
    /\ Remove(Pruned(t))
    /\ Goto(t, "loading")
    /\ UNCHANGED <<work, data, production>>

\* one service is cleared and loaded from the snapshot's files
Load(t) ==
    /\ pc[t] = "loading"
    /\ next[t] <= Services
    /\ snap[t] \in stored
    /\ data' = [data EXCEPT ![Into(t)][next[t]] = snapshot[snap[t]].content[next[t]]]
    /\ next' = [next EXCEPT ![t] = @ + 1]
    /\ UNCHANGED <<active, pc, job, snap, pre, dump, disk, production>>

Loaded(t) == pc[t] = "loading" /\ next[t] = Services + 1

EndRestore(t) ==
    /\ Loaded(t) /\ job[t].op = "restore"
    /\ End(t)
    /\ UNCHANGED <<data, disk, production>>

\* the source stage is pruned as well; the copy is kept
EndClone(t) ==
    /\ Loaded(t) /\ job[t].op = "clone"
    /\ Remove(Beyond(job[t].source) \ {snap[t]})
    /\ End(t)
    /\ UNCHANGED <<data, production>>

\* record_dr_restore
EndDrRestore(t) ==
    /\ Loaded(t) /\ job[t].op = "dr"
    /\ restored' = snap[t]
    /\ End(t)
    /\ UNCHANGED <<data, disk, live>>

\* a command fails before it has cleared anything
Fail(t) ==
    /\ pc[t] # "idle"
    /\ End(t)
    /\ UNCHANGED <<data, disk, production>>

\* a service is cleared and its load fails, or its file is no longer there
LoadFails(t) ==
    /\ pc[t] = "loading"
    /\ next[t] <= Services
    /\ data' = [data EXCEPT ![Into(t)][next[t]] = Gone]
    /\ End(t)
    /\ UNCHANGED <<disk, production>>

\* the process restarts: locks and coroutines are gone, the data is not
Restart ==
    /\ \E t \in Tasks : pc[t] # "idle"
    /\ active' = [s \in Stages |-> NoTask]
    /\ pc' = [t \in Tasks |-> "idle"]
    /\ job' = [t \in Tasks |-> NoJob]
    /\ snap' = [t \in Tasks |-> NoSnap]
    /\ pre' = [t \in Tasks |-> NoSnap]
    /\ next' = [t \in Tasks |-> 1]
    /\ dump' = [t \in Tasks |-> Blank]
    /\ UNCHANGED <<data, disk, production>>

-----------------------------------------------------------------------------
Start(t) ==
    \/ \E s \in Stages : SpawnCreate(t, s)
    \/ \E i \in Ids : SpawnDrRestore(t, i)
    \/ \E i \in Ids, s \in Stages : SpawnRestore(t, i, s)
    \/ \E s, u \in Stages : SpawnClone(t, s, u)

Proceed(t) ==
    \/ Dump(t) \/ PublishManual(t) \/ PublishCopy(t) \/ PublishPre(t) \/ Prune(t)
    \/ Load(t) \/ EndRestore(t) \/ EndClone(t) \/ EndDrRestore(t)
    \/ Fail(t) \/ LoadFails(t)

Next ==
    \/ \E t \in Tasks : Start(t) \/ Proceed(t)
    \/ \E i \in Ids : Delete(i)
    \/ Swap \/ Restart

Spec == Init /\ [][Next]_vars

-----------------------------------------------------------------------------
(* Properties *)

\* create_snapshot reads the services one after the other; what it has saved
\* is still what the place holds, so that a snapshot is of one moment
\* (SnapshotManager locks the stages of every operation).
DumpsOneMoment ==
    \A t \in Tasks : pc[t] \in {"copying", "saving"} =>
        \A k \in 1..Services : k < next[t] => dump[t][k] = data[From(t)][k]

\* What a restore has loaded is still there: when it reports success, the place
\* holds exactly the content of the snapshot.
LoadsStay ==
    \A t \in Tasks : pc[t] = "loading" =>
        \A k \in 1..Services : k < next[t] =>
            data[Into(t)][k] = snapshot[snap[t]].content[k]

\* What an operation relies on while it goes from service to service is not
\* disturbed by another one, whichever stages the two share.
NobodyInterferes == DumpsOneMoment /\ LoadsStay

\* "restore it to roll back": while a restore replaces the data of a stage, the
\* snapshot of what was there is on disk and complete (pruning, deletion).
CanRollBack ==
    \A t \in Tasks : pc[t] = "loading" /\ job[t].op # "dr" =>
        /\ pre[t] \in stored
        /\ \A k \in 1..Services : k >= next[t] =>
              snapshot[pre[t]].content[k] = data[Into(t)][k]

\* The snapshot that an operation is to load is kept until it is loaded, by
\* whatever is pruned or deleted meanwhile, except where a stage is restored
\* from a snapshot of its own.
SourceKept ==
    \A t \in Tasks : pc[t] # "idle" /\ snap[t] # NoSnap =>
        \/ snap[t] \in stored
        \/ job[t].op = "restore" /\ job[t].source = job[t].target

=============================================================================
