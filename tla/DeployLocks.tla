---------------------------- MODULE DeployLocks ----------------------------
(***************************************************************************)
(* Deploys of bitswan-gitops: the per-deployment locks of                  *)
(* app/deploy_manager.py, the background coroutines that hold them         *)
(* (deploy_runner.py, routes/automations.py, routes/agent.py) and the      *)
(* write of the deployment entries they end in                             *)
(* (AutomationService.deploy_source_set, write_deployment_entries).        *)
(*                                                                         *)
(* The model covers one (business process, stage) scope: Deployments are   *)
(* the automations of that scope.  A task runs one of four coroutines:     *)
(*   single  _run_deploy_with_progress     POST /automations/{id}/deploy   *)
(*   bp      _run_bp_deploy_with_progress  POST /automations/deploy-bp     *)
(*   set     _run_set_deploy_with_progress sync, scaffold, pull, new copy  *)
(*   agent   start_agent_deployment        POST /agent/deployments/start   *)
(* Everything runs on one event loop: a step is the code between two       *)
(* awaits that yield.  The lock inside DeployManager is never contended,   *)
(* and the broadcast of an event does not yield.                           *)
(*                                                                         *)
(* A definition named Bug... is a wrong variant of the one that follows    *)
(* it.  No action uses it: it records which mistake each property catches. *)
(***************************************************************************)
EXTENDS FiniteSets

CONSTANTS
    Deployments, \* the deployment ids of the scope
    Tasks,       \* a bound on the number of deploys that are ever started
    NoTask,
    Kinds,       \* the kinds of deploys that are started
    Stages       \* the stages a scope may belong to

ASSUME NoTaskAssumption == NoTask \notin Tasks
ASSUME KindsAssumption == Kinds \subseteq {"single", "bp", "set", "agent"}
ASSUME StagesAssumption == Stages \subseteq {"dev", "live-dev"}

VARIABLES
    stage,    \* the stage of the scope
    source,   \* automations present in the workspace source
    entries,  \* deployment entries of the scope in bitswan.yaml
    active,   \* DeployManager._active_deploys
    known,    \* the keys of DeployManager._tasks
    status,   \* DeployTask.status
    kind,     \* which coroutine drives the task
    members,  \* DeployTask.members, or the one deployment_id
    prune,    \* the task retires entries of the scope that it does not cover
    pc,       \* where the coroutine is
    building, \* members whose _prep_one is running
    copy,     \* the entries as the task read them
    settled   \* deployments entered for good, see Overlooked

task == <<stage, kind, members, prune>>
yaml == <<entries, settled>>
vars == <<stage, source, yaml, active, known, status, kind, members, prune,
          pc, building, copy>>

Terminal == {"completed", "failed"}
Unwritten == {"spawned", "preparing", "reading", "writing"}
Running == {"spawned", "preparing", "reading", "writing", "committing",
            "enabling", "applying", "recording"}

TypeOK ==
    /\ stage \in Stages
    /\ source \subseteq Deployments
    /\ entries \subseteq Deployments
    /\ active \in [Deployments -> Tasks \cup {NoTask}]
    /\ known \subseteq Tasks
    /\ status \in [Tasks -> {"pending", "in_progress"} \cup Terminal]
    /\ kind \in [Tasks -> {"single", "bp", "set", "agent"}]
    /\ members \in [Tasks -> SUBSET Deployments]
    /\ prune \in [Tasks -> BOOLEAN]
    /\ pc \in [Tasks -> {"unborn", "done"} \cup Running]
    /\ building \in [Tasks -> SUBSET Deployments]
    /\ copy \in [Tasks -> SUBSET Deployments]
    /\ settled \subseteq Deployments

Init ==
    /\ stage \in Stages
    /\ source \in SUBSET Deployments
    /\ entries \in SUBSET source
    /\ active = [d \in Deployments |-> NoTask]
    /\ known = {}
    /\ status = [t \in Tasks |-> "pending"]
    /\ kind = [t \in Tasks |-> "single"]
    /\ members = [t \in Tasks |-> {}]
    /\ prune = [t \in Tasks |-> FALSE]
    /\ pc = [t \in Tasks |-> "unborn"]
    /\ building = [t \in Tasks |-> {}]
    /\ copy = [t \in Tasks |-> {}]
    /\ settled = entries

-----------------------------------------------------------------------------
(* The workspace: automations are scaffolded and deleted at any time *)

Scaffold(d) ==
    /\ source' = source \cup {d}
    /\ UNCHANGED <<yaml, active, known, status, task, pc, building, copy>>

DeleteSource(d) ==
    /\ source' = source \ {d}
    /\ settled' = settled \ {d}
    /\ UNCHANGED <<entries, active, known, status, task, pc, building, copy>>

-----------------------------------------------------------------------------
(* Reserving: create_task and create_bp_task *)

IsDeploying(d) == active[d] # NoTask

BugOneFreeIsEnough(ds) == \E d \in ds : ~ IsDeploying(d)

AllFree(ds) == \A d \in ds : ~ IsDeploying(d)

\* a new task takes every lock of ds, in the step that found them free
CreateTask(t, k, ds, pr) ==
    /\ k \in Kinds
    /\ pc[t] = "unborn"
    /\ ds # {}
    /\ AllFree(ds)
    /\ active' = [d \in Deployments |-> IF d \in ds THEN t ELSE active[d]]
    /\ known' = known \cup {t}
    /\ status' = [status EXCEPT ![t] = "pending"]
    /\ kind' = [kind EXCEPT ![t] = k]
    /\ members' = [members EXCEPT ![t] = ds]
    /\ prune' = [prune EXCEPT ![t] = pr]
    /\ pc' = [pc EXCEPT ![t] = "spawned"]
    /\ UNCHANGED <<stage, source, yaml, building, copy>>

\* 409 when the deployment is being deployed, else a task of its own
DeployOne(t, d) == CreateTask(t, "single", {d}, FALSE)

AgentStart(t, d) ==
    /\ stage = "live-dev"
    /\ d \in source
    /\ CreateTask(t, "agent", {d}, FALSE)

\* strict: 409 when any member of the process is being deployed
DeployBP(t) == CreateTask(t, "bp", source, TRUE)

BugPrunesAnyway(complete, sk) == complete

\* prune_scope and not skipped
Prunes(complete, sk) == complete /\ sk = {}

\* best effort: members that are being deployed are skipped.  Filter and
\* reservation are one step, so the retry after a conflict never happens.
DeploySet(t, ms) ==
    LET sk == {d \in ms : IsDeploying(d)}
    IN  /\ ms \subseteq source
        /\ \E complete \in {FALSE, ms = source} :
              CreateTask(t, "set", ms \ sk, Prunes(complete, sk))

-----------------------------------------------------------------------------
(* Ending: update_task with a terminal status, release() *)

\* what update_task does to a status; nothing once the task is forgotten
SetStatus(t, st) == status' = IF t \in known THEN [status EXCEPT ![t] = st] ELSE status

BugForgetsOthers(t) == [d \in Deployments \ members[t] |-> active[d]]

\* the locks of a known task are popped, whoever holds them
Released(t) ==
    [d \in Deployments |-> IF t \in known /\ d \in members[t] THEN NoTask ELSE active[d]]

\* coroutines that release in a `finally`
SafetyNet == {"single", "bp"}

End(t) == pc' = [pc EXCEPT ![t] = "done"]

\* a terminal status releases every lock; the agent's coroutine never sets one
EndWith(t, outcome) ==
    /\ End(t)
    /\ IF kind[t] = "agent"
         THEN UNCHANGED <<status, active>>
         ELSE SetStatus(t, outcome) /\ active' = Released(t)
    /\ UNCHANGED <<source, yaml, known, task, copy>>

\* `except Exception`, wherever the coroutine is
Fail(t) ==
    /\ pc[t] \in Running \ {"spawned", "preparing"}
    /\ EndWith(t, "failed")
    /\ UNCHANGED building

\* an admin clears the git queue while the coroutine waits there for its
\* commit: acquire() raises CancelledError, which `except Exception` misses
Cleared(t) ==
    /\ pc[t] \in {"committing", "recording"}
    /\ End(t)
    /\ active' = IF kind[t] \in SafetyNet THEN Released(t) ELSE active
    /\ UNCHANGED <<source, yaml, known, status, task, building, copy>>

BugByAgeOnly(t) == TRUE

\* cleanup_old_tasks: only tasks with a terminal status are forgotten
Reapable(t) == status[t] \in Terminal

Cleanup(t) ==
    /\ t \in known
    /\ Reapable(t)
    /\ known' = known \ {t}
    /\ UNCHANGED <<source, yaml, active, status, task, pc, building, copy>>

-----------------------------------------------------------------------------
(* The coroutine *)

Prepares == {"bp", "set"}

InProgress(t) == SetStatus(t, "in_progress")

Goto(t, l) == pc' = [pc EXCEPT ![t] = l]

Begin(t) ==
    /\ pc[t] = "spawned"
    /\ IF kind[t] = "agent" THEN UNCHANGED status ELSE InProgress(t)
    /\ IF kind[t] \in Prepares
         THEN /\ building' = [building EXCEPT ![t] = members[t]]
              /\ Goto(t, "preparing")
         ELSE /\ UNCHANGED building
              /\ Goto(t, "reading")
    /\ UNCHANGED <<source, yaml, active, known, task, copy>>

\* _prep_one and _build_report: every line of progress sets IN_PROGRESS
PrepReport(t, d) ==
    /\ d \in building[t]
    /\ InProgress(t)
    /\ UNCHANGED <<source, yaml, active, known, task, pc, building, copy>>

PrepDone(t, d) ==
    /\ d \in building[t]
    /\ building' = [building EXCEPT ![t] = @ \ {d}]
    /\ InProgress(t)
    /\ UNCHANGED <<source, yaml, active, known, task, pc, copy>>

\* gather() raises the first failure and lets the other members go on; a
\* later failure goes unnoticed
PrepFails(t, d) ==
    /\ d \in building[t]
    /\ building' = [building EXCEPT ![t] = @ \ {d}]
    /\ IF pc[t] = "preparing"
         THEN EndWith(t, "failed")
         ELSE UNCHANGED <<source, yaml, active, known, status, task, pc, copy>>

AllPrepared(t) ==
    /\ pc[t] = "preparing"
    /\ building[t] = {}
    /\ Goto(t, "reading")
    /\ UNCHANGED <<source, yaml, active, known, status, task, building, copy>>

\* read_bitswan_yaml; resolve_automation_config may then await `git show`
Read(t) ==
    /\ pc[t] = "reading"
    /\ copy' = [copy EXCEPT ![t] = entries]
    /\ Goto(t, "writing")
    /\ UNCHANGED <<source, yaml, active, known, status, task, building>>

\* live-dev configurations are read from the workspace, without a yield
Base(t) == IF stage = "live-dev" THEN entries ELSE copy[t]

\* the whole scope is written from what was read: members are upserted and,
\* under prune, everything else is retired
Retired(t) == IF prune[t] THEN Base(t) \ members[t] ELSE {}

\* A deploy under way does not know of d and has yet to write: it enumerated
\* the scope, or read the file, without d.
Overlooks(u, d) ==
    \/ pc[u] \in Unwritten /\ prune[u] /\ d \notin members[u]
    \/ pc[u] = "writing" /\ stage = "dev" /\ d \notin copy[u]

Overlooked(t, d) == \E u \in Tasks \ {t} : Overlooks(u, d)

Write(t) ==
    /\ pc[t] = "writing"
    /\ entries' = (Base(t) \ Retired(t)) \cup members[t]
    /\ settled' = settled \cup
                     {d \in members[t] \cap source : ~ Overlooked(t, d)}
    /\ copy' = [copy EXCEPT ![t] = {}]  \* it is not used again
    /\ Goto(t, "committing")
    /\ UNCHANGED <<source, active, known, status, task, building>>

\* the git turn is granted and the commit made
Commit(t) ==
    /\ pc[t] = "committing"
    /\ Goto(t, "enabling")
    /\ UNCHANGED <<source, yaml, active, known, status, task, building, copy>>

\* apply_compose_for_deployments looks every member up before it pushes
StartApply(t) ==
    /\ pc[t] = "enabling"
    /\ members[t] \subseteq entries
    /\ Goto(t, "applying")
    /\ UNCHANGED <<source, yaml, active, known, status, task, building, copy>>

\* a deploy of a whole process is recorded in the process's history, with a
\* commit of its own; live-dev is a preview and has none
Recorded(t) == kind[t] = "bp" /\ stage # "live-dev"

Applied(t) ==
    /\ pc[t] = "applying"
    /\ Recorded(t)
    /\ Goto(t, "recording")
    /\ UNCHANGED <<source, yaml, active, known, status, task, building, copy>>

Complete(t) ==
    /\ pc[t] = (IF Recorded(t) THEN "recording" ELSE "applying")
    /\ EndWith(t, "completed")
    /\ UNCHANGED building

-----------------------------------------------------------------------------
Start(t) ==
    \/ \E d \in Deployments : DeployOne(t, d) \/ AgentStart(t, d)
    \/ DeployBP(t)
    \/ \E ms \in SUBSET source : DeploySet(t, ms)

Coroutine(t) ==
    \/ Begin(t) \/ AllPrepared(t) \/ Read(t) \/ Write(t) \/ Commit(t)
    \/ StartApply(t) \/ Applied(t) \/ Complete(t) \/ Fail(t) \/ Cleared(t)

Prep(t, d) == PrepDone(t, d) \/ PrepFails(t, d)

Next ==
    \/ \E d \in Deployments : Scaffold(d) \/ DeleteSource(d)
    \/ \E t \in Tasks :
          \/ Start(t)
          \/ Coroutine(t)
          \/ \E d \in Deployments : PrepReport(t, d) \/ Prep(t, d)
          \/ Cleanup(t)

Spec == Init /\ [][Next]_vars

\* The loop runs every coroutine, and every await in one ends: builds, git
\* commands and pushes to the driver are subprocesses with an end.
Fairness ==
    \A t \in Tasks : /\ WF_vars(Coroutine(t))
                     /\ \A d \in Deployments : WF_vars(Prep(t, d))

FairSpec == Spec /\ Fairness

-----------------------------------------------------------------------------
(* Properties *)

\* A deploy whose coroutine is still running holds the lock of every member:
\* create_bp_task reserves all or nothing, and nothing that other deploys,
\* the queue's clear() or cleanup_old_tasks do takes a lock away from it.
RunnersHold ==
    \A t \in Tasks : pc[t] \in Running => \A d \in members[t] : active[d] = t

\* No lock outlives its coroutine: whoever holds a deployment is still
\* running, so a 409 always means that a deploy is really in progress.
LocksBacked ==
    \A d \in Deployments : IsDeploying(d) => pc[active[d]] \in Running

\* A lock is only ever left behind by a coroutine without a `finally`, and
\* only on a deployment that this coroutine had reserved.
LeaksOnlyWithoutNet ==
    \A d \in Deployments : IsDeploying(d) =>
        /\ d \in members[active[d]]
        /\ pc[active[d]] \in Running \/ kind[active[d]] \notin SafetyNet

\* cleanup_old_tasks never forgets a deploy that is still running: update_task
\* and release() of a forgotten task do nothing, and its locks would stay.
RunningIsTracked == \A t \in Tasks : pc[t] \in Running => t \in known

\* spawn_set_deploy: a filtered batch "must not prune, or a concurrent deploy
\* would have its live deployment retired out from under it".  An automation
\* that is in the source and has its entry keeps it, whatever deploys of a part
\* or of the whole scope are started from then on, and whatever other deploys
\* are doing meanwhile.  The exception is in settled: a deploy that was already
\* under way when the entry was written, and had enumerated the scope or read
\* bitswan.yaml without it, does undo it.
SettledKeepsItsEntry == settled \subseteq entries

\* The lock table implements all-or-nothing reservation.
Table == INSTANCE Reservation
            WITH holder <- active, Resources <- Deployments, Task <- Tasks,
                 Nobody <- NoTask

ImplementsReservation == Table!Spec

\* Whatever fails or is cleared, a coroutine that releases in a `finally` never
\* keeps a deployment locked for good.
LocksComeBack ==
    \A d \in Deployments :
        []<>(IsDeploying(d) => kind[active[d]] \notin SafetyNet)
=============================================================================
