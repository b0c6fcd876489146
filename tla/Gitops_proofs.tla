---------------------------- MODULE Gitops_proofs ----------------------------
(***************************************************************************)
(* Proofs about what keeps the requests to bitswan-gitops apart.  The      *)
(* deploy locks, for any number of deployments and of deploys, any mix of  *)
(* coroutines and either stage; and the git task queue, for any number of  *)
(* jobs and leases, any nesting of leases in jobs and any length of the    *)
(* history.                                                                *)
(***************************************************************************)
EXTENDS DeployLocks, GitQueue, TLAPS

-----------------------------------------------------------------------------
(* The deploy locks *)

(***************************************************************************)
(* The inductive invariant.  A release pops the locks of a task whoever    *)
(* holds them, so RunnersHold survives it only because no two tasks that   *)
(* release share a member, which is again RunnersHold; and a release does  *)
(* nothing for a forgotten task, so it takes RunningIsTracked, which takes *)
(* that a terminal status is only ever set by the coroutine's last step.   *)
(***************************************************************************)
OwnersSound ==
    \A d \in Deployments : IsDeploying(d) =>
        /\ d \in members[active[d]]
        /\ pc[active[d]] # "unborn"
        /\ pc[active[d]] \in Running \/ kind[active[d]] \notin SafetyNet

TerminalIsDone == \A t \in Tasks : status[t] \in Terminal => pc[t] = "done"

StartedKinds == \A t \in Tasks : pc[t] # "unborn" => kind[t] \in Kinds

IInv == /\ TypeOK
        /\ RunnersHold
        /\ RunningIsTracked
        /\ OwnersSound
        /\ TerminalIsDone
        /\ StartedKinds

-----------------------------------------------------------------------------

LEMMA InitIInv == Init => IInv
  BY NoTaskAssumption
     DEF Init, IInv, TypeOK, RunnersHold, RunningIsTracked, OwnersSound,
         TerminalIsDone, StartedKinds, IsDeploying, Running, Terminal

\* Every way to start a deploy reserves some deployments of the scope, and
\* prunes only if these are all the automations there are.
LEMMA StartReserves ==
  ASSUME IInv, NEW t \in Tasks, Start(t)
  PROVE  \E k \in Kinds, ds \in SUBSET Deployments, pr \in BOOLEAN :
            CreateTask(t, k, ds, pr) /\ (pr => ds = source)
<1>. source \subseteq Deployments
  BY DEF IInv, TypeOK
<1>1. CASE \E d \in Deployments : DeployOne(t, d) \/ AgentStart(t, d)
  <2>1. PICK d \in Deployments : DeployOne(t, d) \/ AgentStart(t, d)
    BY <1>1
  <2>2. CASE DeployOne(t, d)
    <3>1. CreateTask(t, "single", {d}, FALSE) /\ "single" \in Kinds
      BY <2>2 DEF DeployOne, CreateTask
    <3>. USE <3>1
    <3>. WITNESS "single" \in Kinds, {d} \in SUBSET Deployments,
                 FALSE \in BOOLEAN
    <3>. QED  OBVIOUS
  <2>3. CASE AgentStart(t, d)
    <3>1. CreateTask(t, "agent", {d}, FALSE) /\ "agent" \in Kinds
      BY <2>3 DEF AgentStart, CreateTask
    <3>. USE <3>1
    <3>. WITNESS "agent" \in Kinds, {d} \in SUBSET Deployments,
                 FALSE \in BOOLEAN
    <3>. QED  OBVIOUS
  <2>. QED  BY <2>1, <2>2, <2>3
<1>2. CASE DeployBP(t)
  <2>1. CreateTask(t, "bp", source, TRUE) /\ "bp" \in Kinds
    BY <1>2 DEF DeployBP, CreateTask
  <2>. QED  BY <2>1
<1>3. CASE \E ms \in SUBSET source : DeploySet(t, ms)
  <2>1. PICK ms \in SUBSET source : DeploySet(t, ms)
    BY <1>3
  <2>. DEFINE sk == {d \in ms : IsDeploying(d)}
  <2>2. PICK complete \in {FALSE, ms = source} :
            CreateTask(t, "set", ms \ sk, Prunes(complete, sk))
    BY <2>1 DEF DeploySet
  <2>3. /\ "set" \in Kinds /\ ms \ sk \in SUBSET Deployments
        /\ Prunes(complete, sk) \in BOOLEAN
        /\ Prunes(complete, sk) => ms \ sk = source
    BY <2>2 DEF CreateTask, Prunes
  <2>. QED  BY <2>2, <2>3
<1>. QED  BY <1>1, <1>2, <1>3 DEF Start

LEMMA StartKeeps ==
  ASSUME IInv, NEW t \in Tasks, Start(t)
  PROVE  IInv'
<1>1. PICK k \in Kinds, ds \in SUBSET Deployments, pr \in BOOLEAN :
           CreateTask(t, k, ds, pr)
  BY StartReserves
<1>. USE <1>1 DEF IInv, CreateTask, yaml
<1>2. TypeOK'
  BY KindsAssumption DEF TypeOK, Running
<1>3. RunnersHold'
  <2>. SUFFICES ASSUME NEW u \in Tasks, pc'[u] \in Running, NEW d \in members'[u]
                PROVE  active'[d] = u
    BY DEF RunnersHold
  <2>1. CASE u = t
    BY <2>1 DEF TypeOK
  <2>2. CASE u # t
    <3>1. active[d] = u /\ d \in Deployments
      BY <2>2 DEF TypeOK, RunnersHold
    <3>2. d \notin ds
      BY <3>1, NoTaskAssumption DEF AllFree, IsDeploying
    <3>. QED  BY <3>1, <3>2
  <2>. QED  BY <2>1, <2>2
<1>4. RunningIsTracked'
  BY DEF TypeOK, RunningIsTracked
<1>5. OwnersSound'
  <2>. SUFFICES ASSUME NEW d \in Deployments, active'[d] # NoTask
                PROVE  /\ d \in members'[active'[d]]
                       /\ pc'[active'[d]] # "unborn"
                       /\ pc'[active'[d]] \in Running \/ kind'[active'[d]] \notin SafetyNet
    BY DEF OwnersSound, IsDeploying
  <2>1. CASE d \in ds
    BY <2>1 DEF TypeOK, Running
  <2>2. CASE d \notin ds
    <3>1. active'[d] = active[d] /\ active[d] \in Tasks /\ active[d] # t
      BY <2>2 DEF TypeOK, OwnersSound, IsDeploying
    <3>. QED  BY <3>1 DEF TypeOK, OwnersSound, IsDeploying
  <2>. QED  BY <2>1, <2>2
<1>6. TerminalIsDone' /\ StartedKinds'
  BY DEF TypeOK, TerminalIsDone, StartedKinds, Terminal
<1>. QED  BY <1>2, <1>3, <1>4, <1>5, <1>6

\* A step of the coroutine that neither ends it nor touches the locks.
LEMMA MoveKeeps ==
  ASSUME IInv, TypeOK', NEW t \in Tasks, pc[t] \in Running,
         NEW l \in Running, pc' = [pc EXCEPT ![t] = l],
         status' = status \/ SetStatus(t, "in_progress"),
         UNCHANGED <<active, known, task>>
  PROVE  IInv'
<1>. USE DEF IInv, task
<1>1. RunnersHold' /\ RunningIsTracked'
  BY DEF TypeOK, RunnersHold, RunningIsTracked
<1>2. OwnersSound'
  BY DEF TypeOK, OwnersSound, IsDeploying, Running
<1>3. TerminalIsDone'
  BY DEF TypeOK, TerminalIsDone, SetStatus, Terminal, Running
<1>4. StartedKinds'
  BY DEF TypeOK, StartedKinds, Running
<1>. QED  BY <1>1, <1>2, <1>3, <1>4

\* Progress reported for a member, by the coroutine or by an orphan of it.
LEMMA ReportKeeps ==
  ASSUME IInv, TypeOK', NEW t \in Tasks,
         status' = status \/ SetStatus(t, "in_progress"),
         UNCHANGED <<active, known, task, pc>>
  PROVE  IInv'
<1>. USE DEF IInv, task
<1>1. RunnersHold' /\ RunningIsTracked' /\ StartedKinds'
  BY DEF RunnersHold, RunningIsTracked, StartedKinds
<1>2. OwnersSound'
  BY DEF OwnersSound, IsDeploying
<1>3. TerminalIsDone'
  BY DEF TypeOK, TerminalIsDone, SetStatus, Terminal
<1>. QED  BY <1>1, <1>2, <1>3

\* A release gives back exactly what the task holds, if it is running.
LEMMA ReleasedExactly ==
  ASSUME IInv, NEW t \in Tasks, pc[t] \in Running
  PROVE  /\ Released(t) = [d \in Deployments |->
                             IF active[d] = t THEN NoTask ELSE active[d]]
         /\ Released(t) \in [Deployments -> Tasks \cup {NoTask}]
<1>1. t \in known /\ \A d \in members[t] : active[d] = t
  BY DEF IInv, RunningIsTracked, RunnersHold
<1>2. ASSUME NEW d \in Deployments, active[d] = t
      PROVE  d \in members[t]
  BY <1>2, NoTaskAssumption DEF IInv, OwnersSound, IsDeploying
<1>. QED  BY <1>1, <1>2 DEF Released, IInv, TypeOK

\* The last step of a coroutine, whether or not it releases.
LEMMA EndKeeps ==
  ASSUME IInv, TypeOK', NEW t \in Tasks, pc[t] \in Running, End(t),
         active' = Released(t) \/ (active' = active /\ kind[t] \notin SafetyNet),
         status' = status \/ \E st \in Terminal : SetStatus(t, st),
         UNCHANGED <<known, task>>
  PROVE  IInv'
<1>. USE DEF IInv, task, End
<1>1. RunnersHold'
  <2>. SUFFICES ASSUME NEW u \in Tasks, pc'[u] \in Running, NEW d \in members[u]
                PROVE  active'[d] = u
    BY DEF RunnersHold
  <2>1. u # t /\ pc[u] \in Running /\ d \in Deployments
    BY DEF TypeOK, Running
  <2>2. active[d] = u
    BY <2>1 DEF RunnersHold
  <2>. QED  BY <2>1, <2>2, ReleasedExactly
<1>2. RunningIsTracked'
  BY DEF TypeOK, RunningIsTracked, Running
<1>3. OwnersSound'
  <2>. SUFFICES ASSUME NEW d \in Deployments, active'[d] # NoTask
                PROVE  /\ d \in members[active'[d]]
                       /\ pc'[active'[d]] # "unborn"
                       /\ pc'[active'[d]] \in Running \/ kind[active'[d]] \notin SafetyNet
    BY DEF OwnersSound, IsDeploying
  <2>1. active'[d] = active[d] /\ active[d] \in Tasks
    BY ReleasedExactly DEF TypeOK
  <2>2. active[d] = t => kind[t] \notin SafetyNet
    BY ReleasedExactly
  <2>. QED  BY <2>1, <2>2 DEF TypeOK, OwnersSound, IsDeploying
<1>4. TerminalIsDone'
  BY DEF TypeOK, TerminalIsDone, SetStatus
<1>5. StartedKinds'
  BY DEF TypeOK, StartedKinds, Running
<1>. QED  BY <1>1, <1>2, <1>3, <1>4, <1>5
-----------------------------------------------------------------------------
(* One step per action of the coroutine *)

LEMMA CoroutineType ==
  ASSUME TypeOK, NEW t \in Tasks, Coroutine(t)
  PROVE  TypeOK'
<1>. USE DEF TypeOK, task, yaml, Running, Terminal, Goto, End, SetStatus, InProgress
<1>1. CASE Begin(t)
  BY <1>1 DEF Begin
<1>2. CASE AllPrepared(t) \/ Read(t) \/ Commit(t) \/ StartApply(t) \/ Applied(t)
  BY <1>2 DEF AllPrepared, Read, Commit, StartApply, Applied
<1>3. CASE Write(t)
  BY <1>3 DEF Write, Base
<1>4. CASE Fail(t) \/ Complete(t)
  BY <1>4 DEF Fail, Complete, EndWith, Released
<1>5. CASE Cleared(t)
  BY <1>5 DEF Cleared, Released
<1>. QED  BY <1>1, <1>2, <1>3, <1>4, <1>5 DEF Coroutine

LEMMA CoroutineKeeps ==
  ASSUME IInv, NEW t \in Tasks, Coroutine(t)
  PROVE  IInv'
<1>0. TypeOK'
  BY CoroutineType DEF IInv
<1>1. CASE Begin(t)
  <2>1. /\ pc[t] \in Running
        /\ \E l \in Running : pc' = [pc EXCEPT ![t] = l]
        /\ status' = status \/ SetStatus(t, "in_progress")
        /\ UNCHANGED <<active, known, task>>
    BY <1>1 DEF Begin, Goto, InProgress, Running
  <2>. QED  BY <1>0, <2>1, MoveKeeps
<1>2. CASE \/ AllPrepared(t) \/ Read(t) \/ Write(t) \/ Commit(t)
           \/ StartApply(t) \/ Applied(t)
  <2>1. /\ pc[t] \in Running
        /\ \E l \in Running : pc' = [pc EXCEPT ![t] = l]
        /\ UNCHANGED <<active, known, task, status>>
    BY <1>2 DEF AllPrepared, Read, Write, Commit, StartApply, Applied, Goto, Running
  <2>. QED  BY <1>0, <2>1, MoveKeeps
<1>3. CASE Fail(t) \/ Complete(t)
  <2>1. /\ pc[t] \in Running /\ End(t) /\ UNCHANGED <<known, task>>
        /\ active' = Released(t) \/ (active' = active /\ kind[t] \notin SafetyNet)
        /\ status' = status \/ \E st \in Terminal : SetStatus(t, st)
    BY <1>3 DEF Fail, Complete, EndWith, Running, Terminal, SafetyNet
  <2>. QED  BY <1>0, <2>1, EndKeeps
<1>4. CASE Cleared(t)
  <2>1. /\ pc[t] \in Running /\ End(t) /\ UNCHANGED <<known, task, status>>
        /\ active' = Released(t) \/ (active' = active /\ kind[t] \notin SafetyNet)
    BY <1>4 DEF Cleared, Running
  <2>. QED  BY <1>0, <2>1, EndKeeps
<1>. QED  BY <1>1, <1>2, <1>3, <1>4 DEF Coroutine

LEMMA PrepKeeps ==
  ASSUME IInv, NEW t \in Tasks, NEW d \in Deployments, PrepReport(t, d) \/ Prep(t, d)
  PROVE  IInv'
<1>1. TypeOK'
  BY DEF IInv, TypeOK, PrepReport, Prep, PrepDone, PrepFails, EndWith, End,
         Released, SetStatus, InProgress, task, yaml, Running, Terminal
<1>2. CASE PrepReport(t, d) \/ PrepDone(t, d)
  <2>1. status' = status \/ SetStatus(t, "in_progress")
    BY <1>2 DEF PrepReport, PrepDone, InProgress
  <2>2. UNCHANGED <<active, known, task, pc>>
    BY <1>2 DEF PrepReport, PrepDone
  <2>. QED  BY <1>1, <2>1, <2>2, ReportKeeps
<1>3. CASE PrepFails(t, d) /\ pc[t] = "preparing"
  <2>1. /\ pc[t] \in Running /\ End(t) /\ UNCHANGED <<known, task>>
        /\ active' = Released(t) \/ (active' = active /\ kind[t] \notin SafetyNet)
        /\ status' = status \/ \E st \in Terminal : SetStatus(t, st)
    BY <1>3 DEF PrepFails, EndWith, Running, Terminal, SafetyNet
  <2>. QED  BY <1>1, <2>1, EndKeeps
<1>4. CASE PrepFails(t, d) /\ pc[t] # "preparing"
  <2>1. status' = status /\ UNCHANGED <<active, known, task, pc>>
    BY <1>4 DEF PrepFails
  <2>. QED  BY <1>1, <2>1, ReportKeeps
<1>. QED  BY <1>2, <1>3, <1>4 DEF Prep

LEMMA CleanupKeeps ==
  ASSUME IInv, NEW t \in Tasks, Cleanup(t)
  PROVE  IInv'
<1>. USE DEF IInv, Cleanup, task, yaml
<1>1. TypeOK' /\ RunnersHold' /\ TerminalIsDone' /\ StartedKinds'
  BY DEF TypeOK, RunnersHold, TerminalIsDone, StartedKinds
<1>2. OwnersSound'
  BY DEF OwnersSound, IsDeploying
<1>3. RunningIsTracked'
  BY DEF RunningIsTracked, TerminalIsDone, Reapable, Running
<1>. QED  BY <1>1, <1>2, <1>3

LEMMA NextKeeps == IInv /\ [Next]_vars => IInv'
<1>. SUFFICES ASSUME IInv, [Next]_vars
              PROVE  IInv'
  OBVIOUS
<1>1. ASSUME NEW d \in Deployments, Scaffold(d) \/ DeleteSource(d)
      PROVE  IInv'
  BY <1>1 DEF IInv, TypeOK, RunnersHold, RunningIsTracked, OwnersSound, IsDeploying,
         TerminalIsDone, StartedKinds, Scaffold, DeleteSource, task, yaml
<1>2. CASE UNCHANGED vars
  BY <1>2 DEF vars, IInv, TypeOK, RunnersHold, RunningIsTracked, OwnersSound,
         IsDeploying, TerminalIsDone, StartedKinds, yaml
<1>. QED
  BY <1>1, <1>2, StartKeeps, CoroutineKeeps, PrepKeeps, CleanupKeeps DEF Next

-----------------------------------------------------------------------------
(* Theorems *)

\* What the deploy locks always satisfy, and what the rest is derived from.
THEOREM Inductive == Spec => []IInv
<1>. QED  BY InitIInv, NextKeeps, PTL DEF Spec

\* The state of the deploy manager and of the coroutines stays well formed.
THEOREM TypeCorrect == Spec => []TypeOK
<1>1. IInv => TypeOK
  BY DEF IInv
<1>. QED  BY <1>1, Inductive, PTL

\* A running deploy holds the lock of each of its members: no other deploy,
\* no clear() and no clean-up takes one away before the coroutine ends.
THEOREM RunnersAlwaysHold == Spec => []RunnersHold
<1>1. IInv => RunnersHold
  BY DEF IInv
<1>. QED  BY <1>1, Inductive, PTL

\* cleanup_old_tasks never forgets a deploy that is still running.
THEOREM RunningNeverForgotten == Spec => []RunningIsTracked
<1>1. IInv => RunningIsTracked
  BY DEF IInv
<1>. QED  BY <1>1, Inductive, PTL

\* A lock that outlives its coroutine was left by one without a `finally`.
THEOREM OnlyNetlessLeak == Spec => []LeaksOnlyWithoutNet
<1>1. IInv => LeaksOnlyWithoutNet
  BY DEF IInv, OwnersSound, LeaksOnlyWithoutNet
<1>. QED  BY <1>1, Inductive, PTL

\* If every coroutine released in a `finally`, as two of the four do, no lock
\* would ever outlive its deploy.
THEOREM NetsNeverLeak == ASSUME Kinds \subseteq SafetyNet PROVE Spec => []LocksBacked
<1>1. IInv => LocksBacked
  BY NoTaskAssumption
     DEF IInv, TypeOK, OwnersSound, StartedKinds, LocksBacked, IsDeploying
<1>. QED  BY <1>1, Inductive, PTL

-----------------------------------------------------------------------------
(***************************************************************************)
(* The entries.  An entry is safe from the deploys under way because none  *)
(* overlooks it, and from those to come because a deploy that prunes has   *)
(* every automation of the source among its members, and a file is read    *)
(* with every settled entry in it.                                         *)
(***************************************************************************)
SettledOK ==
    /\ settled \subseteq entries
    /\ settled \subseteq source
    /\ \A d \in settled, u \in Tasks : ~ Overlooks(u, d)

LEMMA InitSettled == Init => SettledOK
  BY DEF Init, SettledOK, Overlooks, Unwritten

\* A step that writes no file, and lets nobody overlook more than before.
LEMMA CalmKeepsSettled ==
  ASSUME SettledOK, UNCHANGED <<stage, source, entries, settled, prune, members>>,
         \A u \in Tasks : pc'[u] \in Unwritten => pc[u] \in Unwritten,
         \A u \in Tasks : pc'[u] = "writing" =>
             copy'[u] = entries \/ (pc[u] = "writing" /\ copy'[u] = copy[u])
  PROVE  SettledOK'
  BY DEF SettledOK, Overlooks

LEMMA StartKeepsSettled ==
  ASSUME IInv, SettledOK, NEW t \in Tasks, Start(t)
  PROVE  SettledOK'
<1>1. PICK k \in Kinds, ds \in SUBSET Deployments, pr \in BOOLEAN :
           CreateTask(t, k, ds, pr) /\ (pr => ds = source)
  BY StartReserves
<1>2. /\ UNCHANGED <<stage, source, entries, settled, copy>>
      /\ pc'[t] = "spawned" /\ prune'[t] = pr /\ members'[t] = ds
      /\ \A u \in Tasks : u # t => /\ pc'[u] = pc[u] /\ prune'[u] = prune[u]
                                   /\ members'[u] = members[u]
  BY <1>1 DEF CreateTask, yaml, IInv, TypeOK
<1>3. ASSUME NEW d \in settled, NEW u \in Tasks PROVE ~ Overlooks(u, d)'
  <2>1. CASE u = t
    BY <1>1, <1>2, <2>1 DEF SettledOK, Overlooks
  <2>2. CASE u # t
    BY <1>2, <2>2 DEF SettledOK, Overlooks
  <2>. QED  BY <2>1, <2>2
<1>. QED  BY <1>2, <1>3 DEF SettledOK

LEMMA WriteKeepsSettled ==
  ASSUME IInv, SettledOK, NEW t \in Tasks, Write(t)
  PROVE  SettledOK'
<1>1. /\ UNCHANGED <<stage, source, prune, members>>
      /\ pc'[t] = "committing"
      /\ \A u \in Tasks : u # t => pc'[u] = pc[u] /\ copy'[u] = copy[u]
  BY DEF Write, Goto, task, IInv, TypeOK
<1>2. ASSUME NEW d \in settled PROVE d \in entries'
  <2>1. ~ Overlooks(t, d) /\ d \in entries
    BY DEF SettledOK
  <2>2. d \in Base(t)
    <3>1. stage \in {"dev", "live-dev"}
      BY StagesAssumption DEF IInv, TypeOK
    <3>. QED  BY <2>1, <3>1 DEF Base, Overlooks, Write
  <2>3. d \notin Retired(t)
    BY <2>1 DEF Retired, Overlooks, Write, Unwritten
  <2>. QED  BY <2>2, <2>3 DEF Write
<1>3. settled' \subseteq entries' /\ settled' \subseteq source'
  BY <1>1, <1>2 DEF Write, SettledOK
<1>4. ASSUME NEW d \in settled', NEW u \in Tasks PROVE ~ Overlooks(u, d)'
  <2>1. CASE u = t
    BY <1>1, <2>1 DEF Overlooks, Unwritten
  <2>2. CASE u # t
    <3>1. ~ Overlooks(u, d)
      BY <2>2 DEF Write, Overlooked, SettledOK
    <3>. QED  BY <1>1, <2>2, <3>1 DEF Overlooks
  <2>. QED  BY <2>1, <2>2
<1>. QED  BY <1>3, <1>4 DEF SettledOK

LEMMA CoroutineKeepsSettled ==
  ASSUME IInv, SettledOK, NEW t \in Tasks, Coroutine(t)
  PROVE  SettledOK'
<1>. USE DEF task, yaml, Goto, End, Unwritten
<1>0. TypeOK
  BY DEF IInv
<1>1. CASE Begin(t) \/ AllPrepared(t) \/ Read(t)
  BY <1>0, <1>1, CalmKeepsSettled DEF TypeOK, Begin, AllPrepared, Read
<1>2. CASE Commit(t) \/ StartApply(t) \/ Applied(t)
  BY <1>0, <1>2, CalmKeepsSettled DEF TypeOK, Commit, StartApply, Applied
<1>3. CASE Fail(t) \/ Complete(t) \/ Cleared(t)
  BY <1>0, <1>3, CalmKeepsSettled DEF TypeOK, Fail, Complete, Cleared, EndWith
<1>. QED  BY <1>1, <1>2, <1>3, WriteKeepsSettled DEF Coroutine

LEMMA NextKeepsSettled == IInv /\ SettledOK /\ [Next]_vars => SettledOK'
<1>. SUFFICES ASSUME IInv, SettledOK, [Next]_vars
              PROVE  SettledOK'
  OBVIOUS
<1>1. ASSUME NEW d \in Deployments, Scaffold(d) \/ DeleteSource(d)
      PROVE  SettledOK'
  BY <1>1 DEF Scaffold, DeleteSource, SettledOK, Overlooks, task, yaml
<1>2. ASSUME NEW t \in Tasks, NEW d \in Deployments, PrepReport(t, d) \/ Prep(t, d)
      PROVE  SettledOK'
  BY <1>2, CalmKeepsSettled
     DEF PrepReport, Prep, PrepDone, PrepFails, EndWith, End, task, yaml, IInv,
         TypeOK, Unwritten
<1>3. CASE UNCHANGED vars \/ \E t \in Tasks : Cleanup(t)
  BY <1>3, CalmKeepsSettled DEF vars, yaml, Cleanup, task
<1>. QED
  BY <1>1, <1>2, <1>3, StartKeepsSettled, CoroutineKeepsSettled DEF Next

\* An automation that has been entered in bitswan.yaml, with no deploy under
\* way that overlooks it, keeps its entry as long as its source is there: no
\* deploy of a part of the scope, of the whole of it, or of a set filtered by
\* what is being deployed (spawn_set_deploy) takes it out.
THEOREM SettledNeverLost == Spec => []SettledKeepsItsEntry
<1>1. IInv /\ SettledOK /\ [Next]_vars => SettledOK'
  BY NextKeepsSettled
<1>2. SettledOK => SettledKeepsItsEntry
  BY DEF SettledOK, SettledKeepsItsEntry
<1>. QED  BY <1>1, <1>2, Inductive, InitSettled, PTL DEF Spec

-----------------------------------------------------------------------------
(* Refinement *)

LEMMA StartIsReserve ==
  ASSUME IInv, NEW t \in Tasks, Start(t)
  PROVE  Table!Next
<1>1. PICK k \in Kinds, ds \in SUBSET Deployments, pr \in BOOLEAN :
           CreateTask(t, k, ds, pr)
  BY StartReserves
<1>2. Table!Held(t) = {}
  <2>. SUFFICES ASSUME NEW d \in Deployments, active[d] = t PROVE FALSE
    BY DEF Table!Held
  <2>. QED  BY <1>1, NoTaskAssumption DEF IInv, OwnersSound, IsDeploying, CreateTask
<1>3. Table!Reserve(t, ds)
  BY <1>1, <1>2 DEF CreateTask, AllFree, IsDeploying, Table!Reserve, Table!Free
<1>. QED  BY <1>3 DEF Table!Next

LEMMA EndIsGiveBack ==
  ASSUME IInv, NEW t \in Tasks, pc[t] \in Running, active' = Released(t)
  PROVE  Table!Next
<1>1. Table!GiveBack(t)
  BY ReleasedExactly DEF Table!GiveBack
<1>. QED  BY <1>1 DEF Table!Next

LEMMA NextRefines == IInv /\ [Next]_vars => [Table!Next]_active
<1>. SUFFICES ASSUME IInv, [Next]_vars, active' # active
              PROVE  Table!Next
  OBVIOUS
<1>1. PICK t \in Tasks : \/ Start(t) \/ Coroutine(t) \/ Cleanup(t)
                         \/ \E d \in Deployments : PrepReport(t, d) \/ Prep(t, d)
  BY DEF Next, vars, Scaffold, DeleteSource
<1>2. CASE Start(t)
  BY <1>2, StartIsReserve
<1>3. CASE Coroutine(t)
  <2>1. pc[t] \in Running /\ active' = Released(t)
    BY <1>3 DEF Coroutine, Begin, AllPrepared, Read, Write, Commit, StartApply, Applied,
           Complete, Fail, Cleared, EndWith, Running
  <2>. QED  BY <2>1, EndIsGiveBack
<1>4. CASE \E d \in Deployments : PrepReport(t, d) \/ Prep(t, d)
  <2>1. pc[t] \in Running /\ active' = Released(t)
    BY <1>4 DEF PrepReport, Prep, PrepDone, PrepFails, EndWith, Running
  <2>. QED  BY <2>1, EndIsGiveBack
<1>5. CASE Cleanup(t)
  BY <1>5 DEF Cleanup
<1>. QED  BY <1>1, <1>2, <1>3, <1>4, <1>5

\* DeployManager implements all-or-nothing reservation, whatever the
\* coroutines that use it do.
THEOREM Refinement == Spec => ImplementsReservation
<1>1. Init => Table!Init
  BY DEF Init, Table!Init
<1>2. Spec => []IInv
  BY Inductive
<1>. QED  BY <1>1, <1>2, NextRefines, PTL DEF Spec, ImplementsReservation, Table!Spec

-----------------------------------------------------------------------------
(* The git task queue *)

(***************************************************************************)
(* The inductive invariant.  GitExclusion alone is not inductive: it takes *)
(* where each task stands (in the queue, with its function, with its       *)
(* record) and where the coroutine behind each lease stands relative to    *)
(* the lease's status to see that a turn is given to nobody who has left.  *)
(***************************************************************************)
OneRunning == \A t \in TaskIds : taskStatus[t] = "running" <=> t = running

LiveKnown == \A t \in TaskIds : taskStatus[t] \in {"queued", "running"} => t \in recorded

QueuedHasFn == \A t \in TaskIds : taskStatus[t] = "queued" => t \in fns
FnNotStarted == \A t \in fns : taskStatus[t] \in {"queued", "cancelled"}
CancelledStatus == \A t \in cancelled : taskStatus[t] = "cancelled"

QueuedInQueue ==
    \A t \in TaskIds : taskStatus[t] = "queued" => \E i \in 1..Len(queue) : queue[i] = t

NestedInv ==
    \A l \in Leases : InQueueTask(l) =>
        /\ taskStatus[l] = "new"
        /\ caller[l] \in {"outside", "inside", "left"}
        /\ caller[l] = "inside" => running = Owner[l]

LeaseInv ==
    \A l \in Leases : ~ InQueueTask(l) =>
        /\ taskStatus[l] = "queued" => caller[l] = "waiting"
        /\ l \in granted => taskStatus[l] \in {"running", "completed", "failed"}
        /\ caller[l] = "waiting" => taskStatus[l] # "new"
        /\ caller[l] \in {"waiting", "inside"} => l \in registered
        /\ caller[l] = "inside" => running = l
        /\ l \in granted /\ caller[l] = "waiting" => running = l
        /\ running = l => /\ l \in granted
                          /\ caller[l] \in {"waiting", "inside"} \/ l \in released
        /\ l \in released => caller[l] = "left"

QueueInv == /\ QueueTypeOK
            /\ OneRunning
            /\ LiveKnown
            /\ QueuedHasFn
            /\ FnNotStarted
            /\ CancelledStatus
            /\ QueuedInQueue
            /\ NestedInv
            /\ LeaseInv

-----------------------------------------------------------------------------

LEMMA QueueInvInit == QueueInit => QueueInv
  BY DisjointTasks, OwnerAssumption
     DEF QueueInit, QueueInv, QueueTypeOK, OneRunning, LiveKnown, QueuedHasFn, FnNotStarted,
         CancelledStatus, QueuedInQueue, NestedInv, LeaseInv, TaskIds, Statuses,
         Finished, CallerStates, InQueueTask

\* What submit() does to the parts of the invariant that speak of the queue
\* and of the task records; the leases are the concern of its callers.
LEMMA SubmitKeeps ==
  ASSUME QueueInv, NEW t \in TaskIds, Submit(t)
  PROVE  /\ taskStatus' \in [TaskIds -> Statuses] /\ recorded' \subseteq TaskIds
         /\ fns' \subseteq TaskIds /\ order' \in Seq(TaskIds)
         /\ cancelled' \subseteq TaskIds /\ queue' \in Seq(TaskIds)
         /\ OneRunning' /\ LiveKnown' /\ QueuedHasFn' /\ FnNotStarted'
         /\ CancelledStatus' /\ QueuedInQueue'
<1>. USE DEF QueueInv, QueueTypeOK, Submit, QueueWith
<1>1. Trimmed \subseteq {u \in TaskIds : taskStatus[u] \in Finished}
  BY DEF Trimmed, Trimmable
<1>2. /\ taskStatus' \in [TaskIds -> Statuses] /\ recorded' \subseteq TaskIds
      /\ fns' \subseteq TaskIds /\ order' \in Seq(TaskIds)
      /\ cancelled' \subseteq TaskIds /\ queue' \in Seq(TaskIds)
  BY DEF Statuses
<1>3. OneRunning'
  BY DEF OneRunning
<1>4. LiveKnown' /\ QueuedHasFn'
  BY <1>1 DEF LiveKnown, QueuedHasFn, Finished
<1>5. FnNotStarted' /\ CancelledStatus'
  BY DEF FnNotStarted, CancelledStatus
<1>6. QueuedInQueue'
  <2>. SUFFICES ASSUME NEW u \in TaskIds, taskStatus'[u] = "queued"
                PROVE  \E i \in 1..Len(queue') : queue'[i] = u
    BY DEF QueuedInQueue
  <2>1. CASE u = t
    <3>1. Len(queue') = Len(queue) + 1 /\ queue'[Len(queue) + 1] = t
      OBVIOUS
    <3>. QED  BY <2>1, <3>1
  <2>2. CASE u # t
    <3>1. PICK i \in 1..Len(queue) : queue[i] = u
      BY <2>2 DEF QueuedInQueue
    <3>2. i \in 1..Len(queue') /\ queue'[i] = u
      BY <3>1
    <3>. QED  BY <3>2
  <2>. QED  BY <2>1, <2>2
<1>. QED  BY <1>2, <1>3, <1>4, <1>5, <1>6

\* The worker takes the head of the queue: what is left in the queue.
LEMMA TailKeeps ==
  ASSUME QueueInv, queue # <<>>, queue' = Tail(queue)
  PROVE  /\ Head(queue) \in TaskIds
         /\ queue' \in Seq(TaskIds)
         /\ \A u \in TaskIds : taskStatus[u] = "queued" /\ u # Head(queue) =>
                \E i \in 1..Len(queue') : queue'[i] = u
<1>. USE DEF QueueInv, QueueTypeOK
<1>1. Head(queue) \in TaskIds /\ queue' \in Seq(TaskIds)
  OBVIOUS
<1>2. ASSUME NEW u \in TaskIds, taskStatus[u] = "queued", u # Head(queue)
      PROVE  \E i \in 1..Len(queue') : queue'[i] = u
  <2>1. PICK i \in 1..Len(queue) : queue[i] = u
    BY <1>2 DEF QueuedInQueue
  <2>2. i # 1
    BY <1>2, <2>1
  <2>3. i - 1 \in 1..Len(queue') /\ queue'[i - 1] = u
    BY <2>1, <2>2
  <2>. QED  BY <2>3
<1>. QED  BY <1>1, <1>2

-----------------------------------------------------------------------------
(* One lemma per action of the next-state relation *)

LEMMA SubmitJobKeeps ==
  ASSUME QueueInv, NEW j \in Jobs, SubmitJob(j)
  PROVE  QueueInv'
<1>. USE DEF QueueInv, QueueTypeOK, SubmitJob
<1>1. j \in TaskIds /\ j \notin Leases
  BY DisjointTasks DEF TaskIds
<1>2. QueueTypeOK'
  BY <1>1, SubmitKeeps DEF Submit
<1>3. NestedInv' /\ LeaseInv'
  BY <1>1 DEF NestedInv, LeaseInv, InQueueTask, Submit
<1>. QED  BY <1>1, <1>2, <1>3, SubmitKeeps

LEMMA EnterKeeps ==
  ASSUME QueueInv, NEW l \in Leases, Enter(l)
  PROVE  QueueInv'
<1>. USE DEF QueueInv, QueueTypeOK, Enter
<1>0. l \in TaskIds
  BY DEF TaskIds
<1>1. CASE InQueueTask(l)
  <2>. USE <1>1 DEF EnterNested
  <2>1. QueueTypeOK'
    BY DEF CallerStates
  <2>2. NestedInv'
    BY DEF NestedInv, InQueueTask
  <2>3. LeaseInv'
    BY DEF LeaseInv, InQueueTask
  <2>4. OneRunning' /\ LiveKnown' /\ QueuedHasFn' /\ FnNotStarted'
          /\ CancelledStatus' /\ QueuedInQueue'
    BY DEF OneRunning, LiveKnown, QueuedHasFn, FnNotStarted, CancelledStatus,
           QueuedInQueue
  <2>. QED  BY <2>1, <2>2, <2>3, <2>4
<1>2. CASE ~ InQueueTask(l)
  <2>. USE <1>2 DEF Acquire
  <2>1. QueueTypeOK'
    BY <1>0, SubmitKeeps DEF Submit, CallerStates
  <2>2. NestedInv'
    BY <1>0 DEF NestedInv, InQueueTask, Submit, TaskIds
  <2>3. ASSUME NEW k \in Leases, ~ InQueueTask(k), k # l
        PROVE  /\ taskStatus'[k] = taskStatus[k] /\ caller'[k] = caller[k]
               /\ k \in registered' <=> k \in registered
               /\ k \in granted' <=> k \in granted
               /\ k \in released' <=> k \in released
               /\ running' = running
    BY <1>0, <2>3 DEF Submit, TaskIds
  <2>4. /\ taskStatus'[l] = "queued" /\ caller'[l] = "waiting" /\ l \in registered'
        /\ l \notin granted /\ l \notin granted' /\ running # l /\ running' # l
        /\ l \notin released'
    BY <1>0 DEF Submit, LeaseInv, OneRunning
  <2>5. LeaseInv'
    BY <2>3, <2>4 DEF LeaseInv, InQueueTask
  <2>. QED  BY <1>0, <2>1, <2>2, <2>5, SubmitKeeps
<1>. QED  BY <1>1, <1>2

\* Steps of the coroutine behind a lease leave the queue and the tasks alone.
LEMMA CallerStepKeeps ==
  ASSUME QueueInv,
         UNCHANGED <<taskStatus, recorded, fns, order, cancelled, queue, running, granted>>
  PROVE  /\ OneRunning' /\ LiveKnown' /\ QueuedHasFn' /\ FnNotStarted'
         /\ CancelledStatus' /\ QueuedInQueue'
BY DEF QueueInv, OneRunning, LiveKnown, QueuedHasFn, FnNotStarted, CancelledStatus,
       QueuedInQueue

LEMMA GrantedKeeps ==
  ASSUME QueueInv, NEW l \in Leases, Granted(l)
  PROVE  QueueInv'
<1>. USE DEF QueueInv, QueueTypeOK, Granted, MayProceed
<1>1. QueueTypeOK'
  BY DEF CallerStates
<1>2. NestedInv'
  BY DEF NestedInv, InQueueTask
<1>3. LeaseInv'
  BY DEF LeaseInv, NestedInv, InQueueTask
<1>. QED  BY <1>1, <1>2, <1>3, CallerStepKeeps

LEMMA RefusedKeeps ==
  ASSUME QueueInv, NEW l \in Leases, Refused(l)
  PROVE  QueueInv'
<1>. USE DEF QueueInv, QueueTypeOK, Refused, MayProceed, SeesCancelled
<1>0. l \in TaskIds
  BY DEF TaskIds
<1>1. QueueTypeOK'
  BY DEF CallerStates
<1>2. ~ InQueueTask(l) /\ taskStatus[l] # "queued" /\ running # l /\ l \notin released
  BY <1>0 DEF NestedInv, LeaseInv, LiveKnown
<1>3. NestedInv'
  BY DEF NestedInv, InQueueTask
<1>4. LeaseInv'
  BY <1>2 DEF LeaseInv, InQueueTask
<1>. QED  BY <1>1, <1>3, <1>4, CallerStepKeeps

LEMMA LeaveKeeps ==
  ASSUME QueueInv, NEW l \in Leases, Leave(l)
  PROVE  QueueInv'
<1>. USE DEF QueueInv, QueueTypeOK, Leave
<1>1. CASE InQueueTask(l)
  <2>1. QueueTypeOK'
    BY <1>1 DEF CallerStates
  <2>2. NestedInv' /\ LeaseInv'
    BY <1>1 DEF NestedInv, LeaseInv, InQueueTask
  <2>. QED  BY <1>1, <2>1, <2>2, CallerStepKeeps
<1>2. CASE ~ InQueueTask(l)
  <2>1. l \in registered
    BY <1>2 DEF LeaseInv
  <2>2. released' = released \cup {l} /\ registered' = registered \ {l}
    BY <1>2, <2>1 DEF Release
  <2>3. QueueTypeOK'
    BY <2>2 DEF CallerStates
  <2>4. NestedInv'
    BY <1>2 DEF NestedInv, InQueueTask
  <2>5. LeaseInv'
    BY <1>2, <2>2 DEF LeaseInv, InQueueTask
  <2>. QED  BY <2>3, <2>4, <2>5, CallerStepKeeps
<1>. QED  BY <1>1, <1>2

LEMMA SkipKeeps ==
  ASSUME QueueInv, SkipTask
  PROVE  QueueInv'
<1>. USE DEF QueueInv, QueueTypeOK, SkipTask
<1>. DEFINE t == Head(queue)
<1>1. t \in TaskIds /\ Dead(t)
  BY TailKeeps
<1>2. taskStatus[t] # "queued"
  BY <1>1 DEF Dead, LiveKnown, QueuedHasFn, CancelledStatus
<1>3. QueueTypeOK'
  BY TailKeeps
<1>4. QueuedInQueue'
  BY <1>2, TailKeeps DEF QueuedInQueue
<1>5. OneRunning' /\ LiveKnown' /\ FnNotStarted' /\ CancelledStatus'
  BY DEF OneRunning, LiveKnown, FnNotStarted, CancelledStatus
<1>6. QueuedHasFn'
  BY <1>2 DEF QueuedHasFn
<1>7. NestedInv' /\ LeaseInv'
  BY DEF NestedInv, LeaseInv, InQueueTask
<1>. QED  BY <1>3, <1>4, <1>5, <1>6, <1>7

LEMMA StartTaskKeeps ==
  ASSUME QueueInv, StartTask
  PROVE  QueueInv'
<1>. USE DEF QueueInv, QueueTypeOK
<1>. DEFINE t == Head(queue)
<1>1. /\ running = NoTaskId /\ queue # <<>> /\ queue' = Tail(queue)
      /\ taskStatus' = [taskStatus EXCEPT ![t] = "running"]
      /\ running' = t /\ fns' = fns \ {t}
      /\ granted' = granted \cup ({t} \cap Leases)
      /\ ~ Dead(t)
      /\ UNCHANGED <<recorded, order, cancelled, registered, released, caller>>
  BY DEF StartTask, Idle, Grants
<1>2. t \in TaskIds /\ queue' \in Seq(TaskIds)
  BY <1>1, TailKeeps
<1>3. taskStatus[t] = "queued" /\ t \in recorded /\ t \in fns /\ t \notin cancelled
  BY <1>1 DEF Dead, FnNotStarted
<1>. HIDE DEF t
<1>4. QueueTypeOK'
  BY <1>1, <1>2 DEF Statuses
<1>5. QueuedInQueue'
  <2>1. ASSUME NEW u \in TaskIds, taskStatus'[u] = "queued"
        PROVE  taskStatus[u] = "queued" /\ u # Head(queue)
    BY <1>1, <1>2, <2>1 DEF t
  <2>. QED  BY <1>1, <2>1, TailKeeps DEF QueuedInQueue
<1>6. OneRunning'
  BY <1>1, <1>2, DisjointTasks DEF OneRunning
<1>7. LiveKnown' /\ QueuedHasFn'
  BY <1>1, <1>2, <1>3 DEF LiveKnown, QueuedHasFn
<1>8. FnNotStarted' /\ CancelledStatus'
  BY <1>1, <1>2, <1>3 DEF FnNotStarted, CancelledStatus
<1>9. NestedInv'
  <2>1. ASSUME NEW l \in Leases, InQueueTask(l)
        PROVE  l \in TaskIds /\ l # t /\ caller[l] # "inside"
    BY <1>1, <1>3, <2>1 DEF NestedInv, InQueueTask, TaskIds
  <2>. QED  BY <1>1, <2>1 DEF NestedInv, InQueueTask
<1>10. LeaseInv'
  <2>. SUFFICES ASSUME NEW l \in Leases, ~ InQueueTask(l)
                PROVE  LeaseInv!(l)!2'
    BY DEF LeaseInv, InQueueTask
  <2>1. l \in TaskIds /\ running # l
    BY <1>1, DisjointTasks DEF TaskIds
  <2>2. CASE l = t
    BY <1>1, <1>3, <2>1, <2>2 DEF LeaseInv
  <2>3. CASE l # t
    BY <1>1, <2>1, <2>3 DEF LeaseInv
  <2>. QED  BY <2>2, <2>3
<1>. QED  BY <1>4, <1>5, <1>6, <1>7, <1>8, <1>9, <1>10

\* The running task ends: nobody but the coroutine behind it, which has left,
\* counted on its turn.
LEMMA FinishKeeps ==
  ASSUME QueueInv, NEW outcome \in {"completed", "failed"},
         running \in TaskIds, Finish(outcome),
         running \in Leases => running \in released,
         \A l \in Leases : Owner[l] = running => caller[l] # "inside"
  PROVE  QueueInv'
<1>. USE DEF QueueInv, QueueTypeOK, Finish
<1>1. QueueTypeOK'
  BY DEF Statuses, Finished
<1>2. OneRunning' /\ LiveKnown' /\ QueuedHasFn'
  BY DisjointTasks DEF OneRunning, LiveKnown, QueuedHasFn
<1>3. FnNotStarted' /\ CancelledStatus' /\ QueuedInQueue'
  BY DEF FnNotStarted, CancelledStatus, QueuedInQueue, OneRunning
<1>4. NestedInv'
  BY DEF NestedInv, InQueueTask, OneRunning, TaskIds
<1>5. LeaseInv'
  <2>. SUFFICES ASSUME NEW l \in Leases, ~ InQueueTask(l)
                PROVE  LeaseInv!(l)!2'
    BY DEF LeaseInv, InQueueTask
  <2>1. l \in TaskIds /\ running' # l
    BY DisjointTasks DEF TaskIds
  <2>2. CASE l = running
    BY <2>1, <2>2 DEF LeaseInv
  <2>3. CASE l # running
    BY <2>1, <2>3 DEF LeaseInv
  <2>. QED  BY <2>2, <2>3
<1>. QED  BY <1>1, <1>2, <1>3, <1>4, <1>5

LEMMA HoldReturnsKeeps ==
  ASSUME QueueInv, HoldReturns
  PROVE  QueueInv'
<1>1. running \in Leases /\ running \in TaskIds /\ running \notin Jobs
        /\ running # NoTaskId
  BY DisjointTasks DEF QueueInv, QueueTypeOK, HoldReturns, TaskIds
<1>2. \A l \in Leases : Owner[l] # running
  BY <1>1, OwnerAssumption
<1>. QED  BY <1>1, <1>2, FinishKeeps DEF HoldReturns

LEMMA JobReturnsKeeps ==
  ASSUME QueueInv, JobReturns
  PROVE  QueueInv'
<1>1. running \in TaskIds /\ running \notin Leases
  BY DisjointTasks DEF JobReturns, TaskIds
<1>. QED  BY <1>1, FinishKeeps DEF JobReturns

LEMMA ClearKeeps ==
  ASSUME QueueInv, Clear
  PROVE  QueueInv'
<1>. USE DEF QueueInv, QueueTypeOK, Clear
<1>0. /\ \A t \in TaskIds : taskStatus[t] = "queued" => taskStatus'[t] = "cancelled"
      /\ \A t \in TaskIds : taskStatus[t] # "queued" => taskStatus'[t] = taskStatus[t]
      /\ cancelled' = cancelled \cup {t \in TaskIds : taskStatus[t] = "queued"}
  BY DEF LiveKnown
<1>1. QueueTypeOK'
  BY <1>0 DEF Statuses, Finished
<1>2. OneRunning' /\ LiveKnown' /\ QueuedHasFn' /\ QueuedInQueue'
  BY <1>0 DEF OneRunning, LiveKnown, QueuedHasFn, QueuedInQueue
<1>3. FnNotStarted' /\ CancelledStatus'
  BY <1>0 DEF FnNotStarted, CancelledStatus
<1>4. NestedInv'
  BY <1>0 DEF NestedInv, InQueueTask, TaskIds
<1>5. LeaseInv'
  BY <1>0 DEF LeaseInv, InQueueTask, TaskIds
<1>. QED  BY <1>1, <1>2, <1>3, <1>4, <1>5

LEMMA QueueInvNext == QueueInv /\ [QueueNext]_queueVars => QueueInv'
<1>. SUFFICES ASSUME QueueInv, [QueueNext]_queueVars
              PROVE  QueueInv'
  OBVIOUS
<1>1. CASE UNCHANGED queueVars
  BY <1>1 DEF QueueInv, queueVars, QueueTypeOK, OneRunning, LiveKnown, QueuedHasFn,
       FnNotStarted, CancelledStatus, QueuedInQueue, NestedInv, LeaseInv,
       InQueueTask
<1>2. ASSUME NEW j \in Jobs, SubmitJob(j)  PROVE QueueInv'
  BY <1>2, SubmitJobKeeps
<1>3. ASSUME NEW l \in Leases, Enter(l) \/ Granted(l) \/ Refused(l) \/ Leave(l)
      PROVE  QueueInv'
  BY <1>3, EnterKeeps, GrantedKeeps, RefusedKeeps, LeaveKeeps
<1>4. CASE SkipTask \/ StartTask \/ HoldReturns \/ JobReturns \/ Clear
  BY <1>4, SkipKeeps, StartTaskKeeps, HoldReturnsKeeps, JobReturnsKeeps, ClearKeeps
<1>. QED  BY <1>1, <1>2, <1>3, <1>4 DEF QueueNext

\* The strengthened invariant holds in every state of the queue.
THEOREM QueueInductive == QueueSpec => []QueueInv
<1>. QED  BY QueueInvInit, QueueInvNext, PTL DEF QueueSpec

-----------------------------------------------------------------------------
(* What the queue's users rely on *)

\* The state of the queue stays well formed.
THEOREM QueueTyped == QueueSpec => []QueueTypeOK
<1>1. QueueInv => QueueTypeOK
  BY DEF QueueInv
<1>. QED  BY <1>1, QueueInductive, PTL

\* Git-mutating operations exclude each other: a coroutine inside a
\* GitLockContext is there on the turn of the one task the worker awaits
\* (TaskQueue.acquire, GitLockContext.__aenter__).
THEOREM Exclusion == QueueSpec => []GitExclusion
<1>1. QueueInv => GitExclusion
  BY DEF QueueInv, GitExclusion, TurnOf, NestedInv, LeaseInv
<1>. QED  BY <1>1, QueueInductive, PTL

\* The worker is never left holding a turn that nobody will give back
\* (_hold in TaskQueue.acquire).
THEOREM NeverOrphaned == QueueSpec => []NoOrphanHold
<1>1. QueueInv => NoOrphanHold
  <2>. SUFFICES ASSUME QueueInv, running \in Leases
                PROVE  \/ running \in released
                       \/ running \in registered /\ caller[running] \in {"waiting", "inside"}
    BY DEF NoOrphanHold
  <2>1. ~ InQueueTask(running)
    BY DEF QueueInv, NestedInv, OneRunning, TaskIds
  <2>. QED  BY <2>1 DEF QueueInv, LeaseInv
<1>. QED  BY <1>1, QueueInductive, PTL

\* Clearing the queue and trimming its history never lose a queued task
\* (TaskQueue.clear, TaskQueue._trim_history).
THEOREM NeverLost == QueueSpec => []QueuedIsReachable
<1>1. QueueInv => QueuedIsReachable
  BY DEF QueueInv, QueuedIsReachable, LiveKnown, QueuedHasFn, CancelledStatus,
         QueuedInQueue, QueueTypeOK
<1>. QED  BY <1>1, QueueInductive, PTL

\* A cancelled task stays cancelled and a running one is never cancelled
\* (TaskQueue.clear, TaskQueue._run).
THEOREM ClearedForGood == QueueSpec => ClearedStaysCleared
<1>1. QueueInv /\ [QueueNext]_queueVars => [CancelsOnlyQueued]_queueVars
  <2>. SUFFICES ASSUME QueueInv, QueueNext
                PROVE  CancelsOnlyQueued
    OBVIOUS
  <2>. USE DEF QueueInv, QueueTypeOK, CancelsOnlyQueued
  <2>1. ASSUME NEW t \in TaskIds, Submit(t)  PROVE CancelsOnlyQueued
    BY <2>1 DEF Submit
  <2>2. ASSUME NEW j \in Jobs, SubmitJob(j)  PROVE CancelsOnlyQueued
    BY <2>1, <2>2 DEF SubmitJob, TaskIds
  <2>3. ASSUME NEW l \in Leases, Enter(l)  PROVE CancelsOnlyQueued
    BY <2>1, <2>3 DEF Enter, Acquire, EnterNested, TaskIds
  <2>4. ASSUME NEW l \in Leases, Granted(l) \/ Refused(l) \/ Leave(l)  PROVE CancelsOnlyQueued
    BY <2>4 DEF Granted, Refused, Leave
  <2>5. CASE SkipTask
    BY <2>5 DEF SkipTask
  <2>6. CASE StartTask
    BY <2>6, TailKeeps DEF StartTask, Dead
  <2>7. CASE HoldReturns \/ JobReturns
    BY <2>7, DisjointTasks DEF HoldReturns, JobReturns, Finish, OneRunning, TaskIds
  <2>8. CASE Clear
    BY <2>8 DEF Clear
  <2>. QED  BY <2>2, <2>3, <2>4, <2>5, <2>6, <2>7, <2>8 DEF QueueNext
<1>. QED  BY <1>1, QueueInductive, PTL DEF QueueSpec, ClearedStaysCleared

-----------------------------------------------------------------------------
(* The queue implements the line of GitTurn *)

(***************************************************************************)
(* The asyncio queue holds the ids of the tasks that were created last, in *)
(* the order of their creation, cleared ones among them: it is the end of  *)
(* `order`.  No task before that end is still queued, so the first one of  *)
(* the queue that is, is the head of the line.                             *)
(***************************************************************************)
Dequeued == Len(order) - Len(queue)

LineInv ==
    /\ \A i \in DOMAIN order : taskStatus[order[i]] # "new"
    /\ Dequeued \in Nat
    /\ \A i \in DOMAIN queue : queue[i] = order[Dequeued + i]
    /\ \A i \in DOMAIN order : i <= Dequeued => taskStatus[order[i]] # "queued"

LEMMA LineInvInit == QueueInit => LineInv
BY DEF QueueInit, LineInv, Dequeued

\* submit() puts a task at the end of both.
LEMMA SubmitLine ==
  ASSUME QueueInv, LineInv, NEW t \in TaskIds, Submit(t)
  PROVE  LineInv'
<1>1. /\ order \in Seq(TaskIds) /\ queue \in Seq(TaskIds)
      /\ order' = Append(order, t) /\ queue' = Append(queue, t)
      /\ taskStatus[t] = "new" /\ taskStatus' = [taskStatus EXCEPT ![t] = "queued"]
      /\ taskStatus \in [TaskIds -> Statuses]
  BY DEF QueueInv, QueueTypeOK, Submit, QueueWith
<1>2. /\ Len(order') = Len(order) + 1 /\ Len(queue') = Len(queue) + 1
      /\ Dequeued' = Dequeued /\ Dequeued \in Nat
  BY <1>1 DEF Dequeued, LineInv
<1>3. \A i \in DOMAIN order : /\ order[i] \in TaskIds \ {t} /\ order'[i] = order[i]
                              /\ taskStatus'[order[i]] = taskStatus[order[i]]
  BY <1>1 DEF LineInv
<1>4. /\ order'[Len(order) + 1] = t /\ queue'[Len(queue) + 1] = t
      /\ \A i \in DOMAIN queue : queue'[i] = queue[i]
      /\ taskStatus'[t] = "queued"
  BY <1>1
<1>5. /\ \A i \in DOMAIN order' : i \in DOMAIN order \/ i = Len(order) + 1
      /\ \A i \in DOMAIN queue' : i \in DOMAIN queue \/ i = Len(queue) + 1
  BY <1>1, <1>2
<1>6. \A i \in DOMAIN order' : taskStatus'[order'[i]] # "new"
  BY <1>3, <1>4, <1>5 DEF LineInv
<1>7. \A i \in DOMAIN queue' : queue'[i] = order'[Dequeued' + i]
  <2>1. SUFFICES ASSUME NEW i \in DOMAIN queue'  PROVE queue'[i] = order'[Dequeued + i]
    BY <1>2
  <2>2. CASE i \in DOMAIN queue
    <3>1. Dequeued + i \in DOMAIN order  BY <1>1, <2>2 DEF Dequeued, LineInv
    <3> QED BY <1>3, <1>4, <2>2, <3>1 DEF LineInv
  <2>3. CASE i = Len(queue) + 1
    <3>1. Dequeued + i = Len(order) + 1  BY <1>1, <2>3 DEF Dequeued
    <3> QED BY <1>4, <2>3, <3>1
  <2> QED BY <1>5, <2>2, <2>3
<1>8. \A i \in DOMAIN order' : i <= Dequeued' => taskStatus'[order'[i]] # "queued"
  <2>1. \A i \in DOMAIN order' : i <= Dequeued => i \in DOMAIN order
    BY <1>1, <1>2 DEF Dequeued
  <2> QED BY <1>2, <1>3, <2>1 DEF LineInv
<1> QED BY <1>2, <1>6, <1>7, <1>8 DEF LineInv

\* The worker takes the next id, whose task is not queued then or any more.
LEMMA TailLine ==
  ASSUME QueueInv, LineInv, queue # <<>>, queue' = Tail(queue), order' = order,
         \A t \in TaskIds : \/ taskStatus'[t] = taskStatus[t]
                            \/ t = Head(queue) /\ taskStatus'[t] = "running",
         taskStatus'[Head(queue)] # "queued"
  PROVE  LineInv'
<1>1. order \in Seq(TaskIds) /\ queue \in Seq(TaskIds)
  BY DEF QueueInv, QueueTypeOK
<1>2. Len(queue) > 0 /\ Len(queue') = Len(queue) - 1 /\ Dequeued' = Dequeued + 1
  BY <1>1 DEF Dequeued
<1>3. Dequeued + 1 \in DOMAIN order /\ order[Dequeued + 1] = Head(queue)
  <2>1. 1 \in DOMAIN queue /\ Head(queue) = queue[1]  BY <1>1, <1>2
  <2>2. order[Dequeued + 1] = Head(queue)  BY <2>1 DEF LineInv
  <2>3. Dequeued + 1 \in 1 .. Len(order)  BY <1>1, <1>2 DEF LineInv, Dequeued
  <2> QED BY <1>1, <2>2, <2>3
<1>4. \A i \in DOMAIN queue' : i + 1 \in DOMAIN queue /\ queue'[i] = queue[i + 1]
  BY <1>1, <1>2
<1>5. \A i \in DOMAIN queue' : queue'[i] = order'[Dequeued' + i]
  <2>1. SUFFICES ASSUME NEW i \in DOMAIN queue'
                 PROVE  queue'[i] = order[Dequeued + 1 + i]
    BY <1>2
  <2>2. queue'[i] = order[Dequeued + (i + 1)]  BY <1>4 DEF LineInv
  <2>3. Dequeued + (i + 1) = Dequeued + 1 + i  BY <1>1, <1>2 DEF LineInv
  <2> QED BY <2>2, <2>3
<1>6. \A i \in DOMAIN order : order[i] \in TaskIds  BY <1>1
<1>7. \A i \in DOMAIN order' : i <= Dequeued' => taskStatus'[order'[i]] # "queued"
  <2>1. SUFFICES ASSUME NEW i \in DOMAIN order, i <= Dequeued + 1
                 PROVE  taskStatus'[order[i]] # "queued"
    BY <1>2
  <2>2. CASE i = Dequeued + 1  BY <1>3, <2>2
  <2>3. CASE i # Dequeued + 1
    <3>1. i <= Dequeued  BY <1>1, <2>1, <2>3 DEF LineInv
    <3> QED BY <1>6, <3>1 DEF LineInv
  <2> QED BY <2>2, <2>3
<1>8. \A i \in DOMAIN order' : taskStatus'[order'[i]] # "new"
  BY <1>6 DEF LineInv
<1> QED BY <1>2, <1>5, <1>7, <1>8 DEF LineInv

\* A step that leaves the queue as it is, and makes no task new or queued.
LEMMA SameLine ==
  ASSUME QueueInv, LineInv, queue' = queue, order' = order,
         \A t \in TaskIds : \/ taskStatus'[t] = taskStatus[t]
                            \/ taskStatus'[t] \notin {"new", "queued"}
  PROVE  LineInv'
<1>1. \A i \in DOMAIN order : order[i] \in TaskIds  BY DEF QueueInv, QueueTypeOK
<1> QED BY <1>1 DEF LineInv, Dequeued

LEMMA LineInvNext == QueueInv /\ LineInv /\ [QueueNext]_queueVars => LineInv'
<1> SUFFICES ASSUME QueueInv, LineInv, [QueueNext]_queueVars  PROVE LineInv'
  OBVIOUS
<1>t. taskStatus \in [TaskIds -> Statuses] /\ running \in TaskIds \cup {NoTaskId}
  BY DEF QueueInv, QueueTypeOK
<1>1. CASE UNCHANGED queueVars  BY <1>1, SameLine DEF queueVars
<1>2. ASSUME NEW j \in Jobs, SubmitJob(j)  PROVE LineInv'
  BY <1>2, SubmitLine DEF SubmitJob, TaskIds
<1>3. ASSUME NEW l \in Leases, Enter(l)  PROVE LineInv'
  <2>1. CASE InQueueTask(l)
    BY <1>3, <2>1, SameLine DEF Enter, EnterNested
  <2>2. CASE ~ InQueueTask(l)
    BY <1>3, <2>2, SubmitLine DEF Enter, Acquire, TaskIds
  <2> QED BY <2>1, <2>2
<1>4. ASSUME NEW l \in Leases, Granted(l) \/ Refused(l) \/ Leave(l)  PROVE LineInv'
  BY <1>4, SameLine DEF Granted, Refused, Leave
<1>5. CASE SkipTask
  <2>1. Head(queue) \in TaskIds /\ taskStatus[Head(queue)] # "queued"
    BY <1>5, TailKeeps DEF SkipTask, Dead, QueueInv, LiveKnown, QueuedHasFn, CancelledStatus
  <2> QED BY <1>5, <2>1, TailLine DEF SkipTask
<1>6. CASE StartTask
  <2>1. Head(queue) \in TaskIds  BY <1>6, TailKeeps DEF StartTask
  <2> QED BY <1>6, <1>t, <2>1, TailLine DEF StartTask
<1>7. CASE HoldReturns \/ JobReturns
  <2>1. PICK outcome \in {"completed", "failed"} : Finish(outcome)
    BY <1>7 DEF HoldReturns, JobReturns
  <2> QED BY <1>t, <2>1, SameLine DEF Finish
<1>8. CASE Clear
  BY <1>8, <1>t, SameLine DEF Clear
<1> QED BY <1>1, <1>2, <1>3, <1>4, <1>5, <1>6, <1>7, <1>8 DEF QueueNext

\* The asyncio queue is the end of the order of creation, in every state of it.
THEOREM InLine == QueueSpec => [](QueueInv /\ LineInv)
<1>1. QueueInv /\ LineInv /\ [QueueNext]_queueVars => (QueueInv /\ LineInv)'
  BY QueueInvNext, LineInvNext
<1> QED BY QueueInvInit, LineInvInit, <1>1, PTL DEF QueueSpec

LEMMA NextTurns ==
  QueueInv /\ LineInv /\ [QueueNext]_queueVars => [Turn!Next]_(Turn!vars)
<1> SUFFICES ASSUME QueueInv, LineInv, [QueueNext]_queueVars
             PROVE  Turn!Next \/ UNCHANGED Turn!vars
  OBVIOUS
<1> DEFINE waiting == {t \in TaskIds : taskStatus[t] = "queued"}
<1>t. /\ taskStatus \in [TaskIds -> Statuses] /\ running \in TaskIds \cup {NoTaskId}
      /\ order \in Seq(TaskIds) /\ queue \in Seq(TaskIds)
  BY DEF QueueInv, QueueTypeOK
<1>s. order' = order /\ running' = running /\ waiting' = waiting => UNCHANGED Turn!vars
  BY DEF Turn!vars
<1>j. ASSUME NEW t \in TaskIds, Submit(t)  PROVE Turn!Join(t)
  <2>1. \A i \in DOMAIN order : order[i] # t  BY <1>j DEF Submit, LineInv
  <2>2. waiting' = waiting \cup {t}  BY <1>j, <1>t DEF Submit
  <2> QED BY <1>j, <2>1, <2>2 DEF Turn!Join, Submit
<1>1. CASE UNCHANGED queueVars  BY <1>1, <1>s DEF queueVars
<1>2. ASSUME NEW j \in Jobs, SubmitJob(j)  PROVE Turn!Next
  BY <1>2, <1>j DEF SubmitJob, TaskIds, Turn!Next
<1>3. ASSUME NEW l \in Leases, Enter(l)  PROVE Turn!Next \/ UNCHANGED Turn!vars
  <2>1. CASE InQueueTask(l)  BY <1>3, <1>s, <2>1 DEF Enter, EnterNested
  <2>2. CASE ~ InQueueTask(l)
    BY <1>3, <1>j, <2>2 DEF Enter, Acquire, TaskIds, Turn!Next
  <2> QED BY <2>1, <2>2
<1>4. ASSUME NEW l \in Leases, Granted(l) \/ Refused(l) \/ Leave(l)
      PROVE  UNCHANGED Turn!vars
  BY <1>4, <1>s DEF Granted, Refused, Leave
<1>5. CASE SkipTask  BY <1>5, <1>s DEF SkipTask
<1>6. CASE StartTask
  <2> DEFINE t == Head(queue)
  <2>1. /\ queue # <<>> /\ queue' = Tail(queue) /\ order' = order /\ ~ Dead(t)
        /\ running = NoTaskId /\ running' = t
        /\ taskStatus' = [taskStatus EXCEPT ![t] = "running"]
    BY <1>6 DEF StartTask, Idle
  <2>2. t \in TaskIds /\ taskStatus[t] = "queued"
    BY <2>1, TailKeeps DEF Dead, QueueInv, FnNotStarted
  <2>3. Dequeued + 1 \in DOMAIN order /\ order[Dequeued + 1] = t
    BY <1>t, <2>1 DEF LineInv, Dequeued
  <2>4. waiting' = waiting \ {t}  BY <1>t, <2>1, <2>2
  <2>5. Turn!HeadOfLine(Dequeued + 1)
    <3>1. \A i \in DOMAIN order : i < Dequeued + 1 => i <= Dequeued
      BY <1>t DEF LineInv
    <3> QED BY <2>2, <2>3, <3>1 DEF Turn!HeadOfLine, LineInv
  <2>6. Turn!TakeTurn  BY <2>1, <2>3, <2>4, <2>5 DEF Turn!TakeTurn
  <2> QED BY <2>6 DEF Turn!Next
<1>7. CASE HoldReturns \/ JobReturns
  <2>1. PICK outcome \in {"completed", "failed"} : Finish(outcome)
    BY <1>7 DEF HoldReturns, JobReturns
  <2>2. running \in TaskIds /\ taskStatus[running] = "running"
    BY <1>7, DisjointTasks
       DEF HoldReturns, JobReturns, QueueInv, QueueTypeOK, OneRunning, TaskIds
  <2>3. waiting' = waiting  BY <1>t, <2>1, <2>2 DEF Finish
  <2>4. Turn!GiveBack  BY <2>1, <2>2, <2>3, DisjointTasks DEF Turn!GiveBack, Finish
  <2> QED BY <2>4 DEF Turn!Next
<1>8. CASE Clear
  <2>1. waiting' = {}  BY <1>8, <1>t DEF Clear, QueueInv, LiveKnown
  <2>2. Turn!SendHome  BY <1>8, <2>1 DEF Turn!SendHome, Clear
  <2> QED BY <2>2 DEF Turn!Next
<1> QED BY <1>1, <1>2, <1>3, <1>4, <1>5, <1>6, <1>7, <1>8 DEF QueueNext

\* The queue implements the line it promises (module docstring of task_queue.py):
\* whoever waits is served in the order of arrival, one at a time, and is sent home
\* only with everyone else, however the history is trimmed and the queue cleared.
THEOREM QueueIsALine == QueueSpec => ImplementsTurn
<1>1. QueueInit => Turn!Init
  BY DEF QueueInit, Turn!Init
<1> QED BY <1>1, InLine, NextTurns, PTL DEF QueueSpec, ImplementsTurn, Turn!Spec
==============================================================================
