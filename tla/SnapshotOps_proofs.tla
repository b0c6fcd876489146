-------------------------- MODULE SnapshotOps_proofs --------------------------
(***************************************************************************)
(* Proofs about SnapshotOps, for any stages, any number of services, any   *)
(* number of operations at one time and any AUTO_SNAPSHOTS_KEEP.           *)
(*                                                                         *)
(* A place belongs to one stage, both databases of production to           *)
(* production.  The argument is that an operation holds the lock of the    *)
(* stage of every place and of every snapshot it relies on: what happens   *)
(* to a place or a snapshot of a stage that another one holds is none of   *)
(* its business (Undisturbed), so that each step has to be looked at for   *)
(* the operation that takes it only.                                       *)
(***************************************************************************)
EXTENDS SnapshotOps, TLAPS

\* A stage is locked by exactly the operation at work that touches it.
LocksHeld ==
    \A s \in Stages, t \in Tasks :
        active[s] = t <=> pc[t] # "idle" /\ s \in Touched(job[t])

\* What each kind of operation is asked for, and the phases it goes through.
JobFits(t) ==
    /\ job[t].db # "none" => job[t].target = "production"
    /\ pc[t] = "copying" => job[t].op \in {"create", "clone"} /\ snap[t] = NoSnap
    /\ pc[t] # "copying" => job[t].op # "create" /\ snap[t] # NoSnap
    /\ job[t].op = "create" => job[t].source = job[t].target
    /\ job[t].op = "clone" => job[t].source # job[t].target
    /\ job[t].op \in {"restore", "clone"} => job[t].db = "none"
    /\ job[t].op = "dr" => pc[t] = "loading"
    /\ pc[t] = "pruning" => next[t] = 1

\* The snapshot to load is one of the source, and it was taken.
Selected(t) ==
    snap[t] # NoSnap =>
        /\ snap[t] <= taken
        /\ snap[t] \in stored => snapshot[snap[t]].stage = job[t].source
        /\ \/ snap[t] \in stored
           \/ job[t].op = "restore" /\ job[t].source = job[t].target

\* From the moment it is taken until the end the snapshot of the target is on disk,
\* with what the target held of the services that are still to be loaded.
Saved(t) ==
    pc[t] \in {"pruning", "loading"} /\ job[t].op # "dr" =>
        /\ pre[t] \in stored /\ snapshot[pre[t]].stage = job[t].target
        /\ \A k \in 1..Services : k >= next[t] =>
              snapshot[pre[t]].content[k] = data[Into(t)][k]

Copied(t) ==
    pc[t] \in {"copying", "saving"} =>
        \A k \in 1..Services : k < next[t] => dump[t][k] = data[From(t)][k]

\* The snapshot was there when the first service was loaded from it, and still is.
Delivered(t) ==
    pc[t] = "loading" =>
        \A k \in 1..Services : k < next[t] =>
            snap[t] \in stored /\ data[Into(t)][k] = snapshot[snap[t]].content[k]

AtWork(t) == JobFits(t) /\ Selected(t) /\ Saved(t) /\ Copied(t) /\ Delivered(t)

TasksOK == \A t \in Tasks : IF pc[t] = "idle" THEN next[t] = 1 ELSE AtWork(t)

IInv == TypeOK /\ LocksHeld /\ TasksOK

-----------------------------------------------------------------------------
(* Places and snapshots *)

\* the stage whose lock guards a place
Owner(p) == IF p \in Databases THEN "production" ELSE p

USE StagesAssumption, BoundsAssumption, NoTaskAssumption

LEMMA StoredIsIds == stored \subseteq Ids
BY DEF stored

LEMMA ResourceIsPlace ==
  ASSUME NEW s \in Stages, NEW d \in Databases \cup {"none"}
  PROVE  Resource(s, d) \in Places
BY DEF Resource, Places

LEMMA PlacesTyped ==
  ASSUME TypeOK, NEW t \in Tasks
  PROVE  /\ From(t) \in Places /\ Into(t) \in Places
         /\ job[t] \in Jobs /\ Touched(job[t]) \subseteq Stages
<1>1. job[t] \in Jobs
  BY DEF TypeOK
<1>2. job[t].source \in Stages /\ job[t].target \in Stages
      /\ job[t].db \in Databases \cup {"none"}
  BY <1>1 DEF Jobs
<1>. QED  BY <1>1, <1>2, ResourceIsPlace DEF From, Into, Touched, Places

\* What an operation reads and what it replaces is guarded by a lock it holds.
LEMMA PlacesOwned ==
  ASSUME TypeOK, NEW t \in Tasks, pc[t] # "idle", JobFits(t)
  PROVE  /\ pc[t] \in {"copying", "saving"} => Owner(From(t)) \in Touched(job[t])
         /\ Owner(Into(t)) \in Touched(job[t])
<1>1. /\ job[t].source \in Stages /\ job[t].target \in Stages
      /\ job[t].db \in Databases \cup {"none"}
      /\ job[t].op \in {"create", "restore", "clone", "dr"}
  BY DEF TypeOK, Jobs
<1>2. Owner(job[t].source) = job[t].source /\ Owner(job[t].target) = job[t].target
  BY <1>1 DEF Owner, Databases
<1>3. job[t].db \in Databases => Owner(job[t].db) = "production"
  BY DEF Owner
<1>4. Owner(Into(t)) \in Touched(job[t])
  BY <1>1, <1>2, <1>3 DEF JobFits, Into, Resource, Touched, Databases
<1>5. ASSUME pc[t] = "copying" PROVE Owner(From(t)) \in Touched(job[t])
  BY <1>1, <1>2, <1>3, <1>5 DEF JobFits, From, Resource, Touched, Databases
<1>6. ASSUME pc[t] = "saving" PROVE Owner(From(t)) \in Touched(job[t])
  BY <1>2, <1>6 DEF From, Touched
<1>. QED  BY <1>4, <1>5, <1>6

\* Two operations at work never share a stage.
LEMMA Apart ==
  ASSUME LocksHeld, NEW t \in Tasks, NEW u \in Tasks, t # u,
         pc[t] # "idle", pc[u] # "idle", NEW s \in Stages, s \in Touched(job[t])
  PROVE  s \notin Touched(job[u])
BY DEF LocksHeld

-----------------------------------------------------------------------------
(* Types *)

\* A service saved under a new id.
LEMMA PublishTyped ==
  ASSUME TypeOK, NEW t \in Tasks, NEW s \in Stages, NEW kind \in {"manual", "auto"},
         Publish(t, s, kind)
  PROVE  /\ taken' \in 0..MaxSnaps /\ taken' = taken + 1 /\ taken' \in Ids
         /\ snapshot' \in [Ids -> Snapshots \cup {NoSnapshot}]
         /\ stored' = stored \cup {taken'} /\ stored' \subseteq 1..taken'
         /\ taken' \in stored' /\ snapshot'[taken'].stage = s
         /\ snapshot'[taken'].content = dump[t]
<1>1. taken \in Nat /\ taken < MaxSnaps /\ taken' = taken + 1 /\ taken' \in Ids
  BY DEF TypeOK, Publish, Ids
<1> DEFINE new == [stage |-> s, kind |-> kind, content |-> dump[t]]
<1>2. new \in Snapshots /\ new # NoSnapshot
  BY DEF TypeOK, Snapshots, NoSnapshot
<1>3. snapshot' = [snapshot EXCEPT ![taken'] = new]
  BY <1>1 DEF Publish
<1> HIDE DEF new
<1>4. snapshot' \in [Ids -> Snapshots \cup {NoSnapshot}] /\ snapshot'[taken'] = new
  BY <1>1, <1>2, <1>3 DEF TypeOK
<1>5. \A i \in Ids : snapshot'[i] # NoSnapshot <=> snapshot[i] # NoSnapshot \/ i = taken'
  BY <1>1, <1>2, <1>3 DEF TypeOK
<1>6. stored' = stored \cup {taken'}
  BY <1>1, <1>5 DEF stored
<1>7. stored' \subseteq 1..taken'
  <2>1. stored \subseteq 1..taken
    BY DEF TypeOK
  <2>. QED  BY <1>1, <1>6, <2>1
<1>8. new.stage = s /\ new.content = dump[t]
  BY DEF new
<1>. QED  BY <1>1, <1>4, <1>6, <1>7, <1>8

LEMMA RemoveTyped ==
  ASSUME TypeOK, NEW ids, Remove(ids)
  PROVE  /\ snapshot' \in [Ids -> Snapshots \cup {NoSnapshot}]
         /\ taken' = taken /\ stored' = stored \ ids /\ stored' \subseteq 1..taken'
<1>1. snapshot' \in [Ids -> Snapshots \cup {NoSnapshot}] /\ taken' = taken
  BY DEF Remove, TypeOK
<1>2. stored' = stored \ ids
  BY DEF Remove, stored
<1>. QED  BY <1>1, <1>2 DEF TypeOK

LEMMA EndTyped ==
  ASSUME TypeOK, NEW t \in Tasks, End(t)
  PROVE  /\ active' \in [Stages -> Tasks \cup {NoTask}]
         /\ pc' \in [Tasks -> Phases \cup {"idle"}] /\ job' \in [Tasks -> Jobs]
         /\ snap' \in [Tasks -> Ids \cup {NoSnap}]
         /\ pre' \in [Tasks -> Ids \cup {NoSnap}]
         /\ next' \in [Tasks -> 1..Services + 1] /\ dump' \in [Tasks -> Contents]
<1>1. NoJob \in Jobs /\ Blank \in Contents /\ 1 \in 1..Services + 1
  BY DEF NoJob, Jobs, Blank, Contents
<1>. QED  BY <1>1 DEF End, TypeOK

\* One cell of a function of functions.
LEMMA CellTyped ==
  ASSUME NEW S, NEW f \in [S -> Contents], NEW x \in S, NEW k \in 1..Services,
         NEW v \in Places \cup {Gone}
  PROVE  [f EXCEPT ![x][k] = v] \in [S -> Contents]
BY DEF Contents

LEMMA NextTyped ==
  ASSUME TypeOK, NEW t \in Tasks, next[t] <= Services
  PROVE  next[t] \in 1..Services /\ next[t] + 1 \in 1..Services + 1
BY DEF TypeOK

\* What the spawn functions ask for.
Asked(o, s, u, d, i, phase) ==
    /\ o = "create" => s = u /\ i = NoSnap /\ phase = "copying"
                       /\ (d # "none" => u = "production")
    /\ o = "clone" => s # u /\ i = NoSnap /\ phase = "copying" /\ d = "none"
    /\ o = "restore" => i \in stored /\ s = snapshot[i].stage /\ phase = "saving"
                        /\ d = "none"
    /\ o = "dr" => i \in stored /\ s = snapshot[i].stage /\ phase = "loading"
                   /\ u = "production"

LEMMA StartSpawns ==
  ASSUME TypeOK, NEW t \in Tasks, Start(t)
  PROVE  \E o \in {"create", "restore", "clone", "dr"}, s, u \in Stages,
            d \in Databases \cup {"none"}, i \in Ids \cup {NoSnap}, phase \in Phases :
            Spawn(t, o, s, u, d, i, phase) /\ Asked(o, s, u, d, i, phase)
<1>1. \A i \in stored : i \in Ids /\ snapshot[i].stage \in Stages
  BY DEF stored, Snapshots, TypeOK
<1>2. live \in Databases /\ Standby \in Databases
  BY DEF Standby, Databases, TypeOK
<1>3. ASSUME NEW s \in Stages, SpawnCreate(t, s)
      PROVE  \E d \in Databases \cup {"none"} :
                /\ Spawn(t, "create", s, s, d, NoSnap, "copying")
                /\ d # "none" => s = "production"
  BY <1>2, <1>3 DEF SpawnCreate
<1>4. CASE \E s \in Stages : SpawnCreate(t, s)
  BY <1>3, <1>4 DEF Phases, Asked
<1>5. CASE \E i \in Ids : SpawnDrRestore(t, i)
  BY <1>1, <1>2, <1>5 DEF SpawnDrRestore, Phases, Asked
<1>6. CASE \E i \in Ids, s \in Stages : SpawnRestore(t, i, s)
  BY <1>1, <1>6 DEF SpawnRestore, Phases, Asked
<1>7. CASE \E s, u \in Stages : SpawnClone(t, s, u)
  BY <1>7 DEF SpawnClone, Phases, Asked
<1>. QED  BY <1>4, <1>5, <1>6, <1>7 DEF Start

LEMMA StartTyped ==
  ASSUME TypeOK, NEW t \in Tasks, Start(t)
  PROVE  TypeOK'
<1>. USE DEF TypeOK
<1>1. ASSUME NEW o \in {"create", "restore", "clone", "dr"}, NEW s \in Stages,
             NEW u \in Stages, NEW d \in Databases \cup {"none"},
             NEW i \in Ids \cup {NoSnap}, NEW phase \in Phases,
             Spawn(t, o, s, u, d, i, phase)
      PROVE  TypeOK'
  <2> DEFINE j == [op |-> o, source |-> s, target |-> u, db |-> d]
  <2>1. j \in Jobs /\ job' = [job EXCEPT ![t] = j]
    BY <1>1 DEF Spawn, Jobs
  <2> HIDE DEF j
  <2>2. active' \in [Stages -> Tasks \cup {NoTask}]
    BY <1>1 DEF Spawn
  <2>3. /\ pc' \in [Tasks -> Phases \cup {"idle"}] /\ job' \in [Tasks -> Jobs]
        /\ snap' \in [Tasks -> Ids \cup {NoSnap}]
    BY <1>1, <2>1 DEF Spawn
  <2>. QED  BY <1>1, <2>2, <2>3 DEF Spawn, disk, production, stored
<1>2. PICK o \in {"create", "restore", "clone", "dr"}, s, u \in Stages,
           d \in Databases \cup {"none"}, i \in Ids \cup {NoSnap}, phase \in Phases :
              Spawn(t, o, s, u, d, i, phase)
  BY StartSpawns
<1>. QED  BY <1>1, <1>2

LEMMA ProceedTyped ==
  ASSUME TypeOK, NEW t \in Tasks, Proceed(t)
  PROVE  TypeOK'
<1>. USE DEF disk, production, work
<1>0. /\ job[t].source \in Stages /\ job[t].target \in Stages
      /\ From(t) \in Places /\ Into(t) \in Places
  BY PlacesTyped DEF Jobs
<1>1. ASSUME UNCHANGED disk
      PROVE  /\ taken' \in 0..MaxSnaps
             /\ snapshot' \in [Ids -> Snapshots \cup {NoSnapshot}]
             /\ stored' \subseteq 1..taken'
  BY <1>1 DEF TypeOK, stored
<1>2. CASE Dump(t)
  <2>1. next[t] \in 1..Services /\ next[t] + 1 \in 1..Services + 1
    BY <1>2, NextTyped DEF Dump
  <2>2. data[From(t)][next[t]] \in Places \cup {Gone}
    BY <1>0, <2>1 DEF TypeOK, Contents
  <2> DEFINE k == next[t]  v == data[From(t)][next[t]]
  <2>3. dump' \in [Tasks -> Contents]
    <3>1. dump' = [dump EXCEPT ![t][k] = v] /\ dump \in [Tasks -> Contents]
      BY <1>2 DEF Dump, TypeOK
    <3>2. k \in 1..Services /\ v \in Places \cup {Gone}
      BY <2>1, <2>2
    <3>. HIDE DEF k, v
    <3>. QED  BY <3>1, <3>2, CellTyped
  <2>4. next' \in [Tasks -> 1..Services + 1]
    BY <1>2, <2>1 DEF Dump, TypeOK
  <2>. QED  BY <1>1, <1>2, <2>3, <2>4 DEF Dump, TypeOK
<1>3. CASE PublishManual(t)
  BY <1>0, <1>3, PublishTyped, EndTyped DEF PublishManual, Publish, TypeOK
<1>4. CASE PublishCopy(t) \/ PublishPre(t)
  <2>1. /\ next' \in [Tasks -> 1..Services + 1] /\ dump' \in [Tasks -> Contents]
    <3>1. Blank \in Contents /\ 1 \in 1..Services + 1 /\ StartOver(t)
      BY <1>4 DEF PublishCopy, PublishPre, Blank, Contents
    <3>. QED  BY <3>1 DEF StartOver, TypeOK
  <2>2. pc' \in [Tasks -> Phases \cup {"idle"}] /\ UNCHANGED <<active, job>>
    BY <1>4 DEF PublishCopy, PublishPre, Goto, TypeOK, Phases
  <2>3. UNCHANGED <<data, production>>
    BY <1>4 DEF PublishCopy, PublishPre, Publish
  <2>4. CASE PublishCopy(t)
    BY <1>0, <2>1, <2>2, <2>3, <2>4, PublishTyped DEF PublishCopy, TypeOK
  <2>5. CASE PublishPre(t)
    BY <1>0, <2>1, <2>2, <2>3, <2>5, PublishTyped DEF PublishPre, TypeOK
  <2>. QED  BY <1>4, <2>4, <2>5
<1>5. CASE Prune(t)
  <2>1. pc' \in [Tasks -> Phases \cup {"idle"}] /\ UNCHANGED <<active, job>>
    BY <1>5 DEF Prune, Goto, TypeOK, Phases
  <2>. QED  BY <1>5, <2>1, RemoveTyped DEF Prune, TypeOK
<1>6. CASE Load(t)
  <2>1. next[t] \in 1..Services /\ next[t] + 1 \in 1..Services + 1
    BY <1>6, NextTyped DEF Load
  <2>2. snapshot[snap[t]].content[next[t]] \in Places \cup {Gone}
    BY <1>6, <2>1 DEF Load, TypeOK, Contents, Snapshots, stored
  <2> DEFINE k == next[t]  v == snapshot[snap[t]].content[next[t]]
  <2>3. data' \in [Places -> Contents]
    <3>1. data' = [data EXCEPT ![Into(t)][k] = v] /\ data \in [Places -> Contents]
      BY <1>6 DEF Load, TypeOK
    <3>2. k \in 1..Services /\ v \in Places \cup {Gone}
      BY <2>1, <2>2
    <3>. HIDE DEF k, v
    <3>. QED  BY <1>0, <3>1, <3>2, CellTyped
  <2>4. next' \in [Tasks -> 1..Services + 1]
    BY <1>6, <2>1 DEF Load, TypeOK
  <2>. QED  BY <1>1, <1>6, <2>3, <2>4 DEF Load, TypeOK
<1>7. CASE EndRestore(t) \/ Fail(t)
  BY <1>1, <1>7, EndTyped DEF EndRestore, Fail, TypeOK
<1>8. CASE EndClone(t)
  BY <1>8, EndTyped, RemoveTyped DEF EndClone, TypeOK
<1>9. CASE EndDrRestore(t)
  BY <1>1, <1>9, EndTyped DEF EndDrRestore, TypeOK
<1>10. CASE LoadFails(t)
  <2>1. data' \in [Places -> Contents]
    BY <1>0, <1>10, NextTyped, CellTyped DEF LoadFails, TypeOK
  <2>. QED  BY <1>1, <1>10, <2>1, EndTyped DEF LoadFails, TypeOK
<1>. QED
  BY <1>2, <1>3, <1>4, <1>5, <1>6, <1>7, <1>8, <1>9, <1>10 DEF Proceed

LEMMA InitTyped == Init => TypeOK
<1>. SUFFICES ASSUME Init PROVE TypeOK
  OBVIOUS
<1>1. NoJob \in Jobs /\ Blank \in Contents /\ 1 \in 1..Services + 1
  BY DEF NoJob, Jobs, Blank, Contents
<1>2. data \in [Places -> Contents]
  BY DEF Init, Contents
<1>3. stored = {} /\ snapshot \in [Ids -> Snapshots \cup {NoSnapshot}]
  BY DEF Init, stored
<1>. QED  BY <1>1, <1>2, <1>3 DEF Init, TypeOK, Databases, NoSnap

LEMMA StepTyped == TypeOK /\ [Next]_vars => TypeOK'
<1>. SUFFICES ASSUME TypeOK, [Next]_vars PROVE TypeOK'
  OBVIOUS
<1>. USE DEF disk, production, work
<1>1. CASE UNCHANGED vars
  BY <1>1 DEF vars, TypeOK, stored
<1>2. ASSUME NEW t \in Tasks, Start(t) \/ Proceed(t) PROVE TypeOK'
  BY <1>2, StartTyped, ProceedTyped
<1>3. ASSUME NEW i \in Ids, Delete(i) PROVE TypeOK'
  BY <1>3, RemoveTyped DEF Delete, TypeOK
<1>4. CASE Swap
  BY <1>4 DEF Swap, Standby, Databases, TypeOK, stored
<1>5. CASE Restart
  <2>1. NoJob \in Jobs /\ Blank \in Contents /\ 1 \in 1..Services + 1
    BY DEF NoJob, Jobs, Blank, Contents
  <2>. QED  BY <1>5, <2>1 DEF Restart, TypeOK, stored
<1>. QED  BY <1>1, <1>2, <1>3, <1>4, <1>5 DEF Next

-----------------------------------------------------------------------------
(* The locks *)

LEMMA SpawnLocks ==
  ASSUME TypeOK, LocksHeld, NEW t \in Tasks, NEW o, NEW s \in Stages, NEW u \in Stages,
         NEW d, NEW i, NEW phase \in Phases, Spawn(t, o, s, u, d, i, phase)
  PROVE  LocksHeld'
<1> DEFINE j == [op |-> o, source |-> s, target |-> u, db |-> d]
<1>1. /\ pc[t] = "idle" /\ AllFree(j)
      /\ active' = [st \in Stages |-> IF st \in Touched(j) THEN t ELSE active[st]]
      /\ job' = [job EXCEPT ![t] = j] /\ pc' = [pc EXCEPT ![t] = phase]
  BY DEF Spawn
<1> HIDE DEF j
<1>2. job'[t] = j /\ pc'[t] # "idle"
  BY <1>1 DEF TypeOK, Phases
<1>3. \A v \in Tasks \ {t} : job'[v] = job[v] /\ pc'[v] = pc[v]
  BY <1>1 DEF TypeOK
<1>4. \A st \in Stages : active[st] # t
  BY <1>1 DEF LocksHeld
<1>5. \A st \in Stages : st \in Touched(j) => active[st] = NoTask
  BY <1>1 DEF AllFree
<1>6. ASSUME NEW st \in Stages, NEW v \in Tasks
      PROVE  active'[st] = v <=> pc'[v] # "idle" /\ st \in Touched(job'[v])
  <2>1. CASE v = t
    BY <1>1, <1>2, <1>4, <2>1
  <2>2. CASE v # t
    BY <1>1, <1>3, <1>5, <2>2 DEF LocksHeld
  <2>. QED  BY <2>1, <2>2
<1>. QED  BY <1>6 DEF LocksHeld, Touched

LEMMA EndLocks ==
  ASSUME TypeOK, LocksHeld, NEW t \in Tasks, End(t)
  PROVE  LocksHeld'
<1>1. pc'[t] = "idle" /\ \A v \in Tasks \ {t} : job'[v] = job[v] /\ pc'[v] = pc[v]
  BY DEF End, TypeOK
<1>2. active' = [s \in Stages |-> IF s \in Unlocked(t) THEN NoTask ELSE active[s]]
  BY DEF End
<1>3. \A s \in Stages : active[s] = t => s \in Unlocked(t)
  BY DEF LocksHeld, Unlocked
<1>4. \A s \in Stages : s \in Unlocked(t) => active[s] = t
  BY DEF Unlocked
<1>5. ASSUME NEW s \in Stages, NEW v \in Tasks
      PROVE  active'[s] = v <=> pc'[v] # "idle" /\ s \in Touched(job'[v])
  BY <1>1, <1>2, <1>3, <1>4 DEF LocksHeld
<1>. QED  BY <1>5 DEF LocksHeld, Touched

\* The steps in between neither lock nor unlock.
LEMMA MidLocks ==
  ASSUME TypeOK, LocksHeld, UNCHANGED <<active, job>>,
         \A t \in Tasks : pc[t] = "idle" <=> pc'[t] = "idle"
  PROVE  LocksHeld'
BY DEF LocksHeld, Touched

LEMMA ProceedLocks ==
  ASSUME TypeOK, LocksHeld, NEW t \in Tasks, Proceed(t)
  PROVE  LocksHeld'
<1>1. CASE Dump(t) \/ Load(t)
  BY <1>1, MidLocks DEF Dump, Load
<1>2. CASE PublishCopy(t) \/ PublishPre(t) \/ Prune(t)
  <2>1. PICK phase \in Phases : Goto(t, phase)
    BY <1>2 DEF PublishCopy, PublishPre, Prune, Phases
  <2>2. pc[t] # "idle" /\ pc'[t] # "idle"
    BY <1>2, <2>1 DEF PublishCopy, PublishPre, Prune, Goto, TypeOK, Phases
  <2>. QED  BY <2>1, <2>2, MidLocks DEF Goto, TypeOK
<1>3. CASE \/ PublishManual(t) \/ EndRestore(t) \/ EndClone(t) \/ EndDrRestore(t)
           \/ Fail(t) \/ LoadFails(t)
  BY <1>3, EndLocks DEF PublishManual, EndRestore, EndClone, EndDrRestore, Fail, LoadFails
<1>. QED  BY <1>1, <1>2, <1>3 DEF Proceed

LEMMA StepLocks == TypeOK /\ LocksHeld /\ [Next]_vars => LocksHeld'
<1>. SUFFICES ASSUME TypeOK, LocksHeld, [Next]_vars PROVE LocksHeld'
  OBVIOUS
<1>1. ASSUME NEW t \in Tasks, Start(t) PROVE LocksHeld'
  BY <1>1, StartSpawns, SpawnLocks
<1>2. ASSUME NEW t \in Tasks, Proceed(t) PROVE LocksHeld'
  BY <1>2, ProceedLocks
<1>3. ASSUME NEW i \in Ids, Delete(i) PROVE LocksHeld'
  BY <1>3, MidLocks DEF Delete
<1>4. CASE Swap \/ UNCHANGED vars
  BY <1>4, MidLocks DEF Swap, vars
<1>5. CASE Restart
  BY <1>5 DEF Restart, LocksHeld
<1>. QED  BY <1>1, <1>2, <1>3, <1>4, <1>5 DEF Next

-----------------------------------------------------------------------------
(* What the others do *)

\* What an operation that holds the locks of a stage may count on.
Undisturbed(u) ==
    /\ pc'[u] = pc[u] /\ job'[u] = job[u] /\ snap'[u] = snap[u]
    /\ pre'[u] = pre[u] /\ next'[u] = next[u] /\ dump'[u] = dump[u]
    /\ \A p \in Places : Owner(p) \in Touched(job[u]) => data'[p] = data[p]
    /\ taken' \in Nat /\ taken' >= taken
    /\ \A i \in 1..taken :
          \/ snapshot'[i] = snapshot[i]
          \/ snapshot'[i] = NoSnapshot /\ snapshot[i].stage \notin Touched(job[u])

LEMMA UndisturbedWorks ==
  ASSUME TypeOK, NEW u \in Tasks, pc[u] # "idle", AtWork(u), Undisturbed(u)
  PROVE  AtWork(u)'
<1>1. taken \in Nat /\ stored \subseteq 1..taken /\ 1..taken \subseteq Ids
  BY DEF TypeOK, Ids
<1>2. /\ Owner(Into(u)) \in Touched(job[u]) /\ Into(u) \in Places /\ From(u) \in Places
      /\ pc[u] \in {"copying", "saving"} => Owner(From(u)) \in Touched(job[u])
  BY PlacesOwned, PlacesTyped DEF AtWork
<1>3. Into(u)' = Into(u) /\ From(u)' = From(u) /\ data'[Into(u)] = data[Into(u)]
  BY <1>2 DEF Undisturbed, Into, From
<1>4. JobFits(u)'
  BY DEF AtWork, JobFits, Undisturbed
<1>5. ASSUME NEW i \in 1..taken, snapshot[i].stage \in Touched(job[u])
      PROVE  snapshot'[i] = snapshot[i] /\ (i \in stored <=> i \in stored')
  BY <1>1, <1>5 DEF Undisturbed, stored
<1>6. \A i \in 1..taken : i \notin stored => i \notin stored'
  BY <1>1 DEF Undisturbed, stored
<1>7. job[u].source \in Touched(job[u]) /\ job[u].target \in Touched(job[u])
  BY DEF Touched
<1>8. Selected(u)'
  <2>. SUFFICES ASSUME snap[u] # NoSnap PROVE Selected(u)'
    BY DEF Selected, Undisturbed
  <2>1. snap[u] \in 1..taken /\ snap'[u] = snap[u] /\ job'[u] = job[u]
    BY <1>1 DEF AtWork, Selected, Undisturbed, TypeOK, Ids
  <2>2. taken' \in Nat /\ snap[u] <= taken'
    BY <1>1, <2>1 DEF Undisturbed
  <2>3. snap[u] \in stored' => snapshot'[snap[u]].stage = job[u].source
    BY <1>5, <1>6, <1>7, <2>1 DEF AtWork, Selected
  <2>4. snap[u] \in stored => snap[u] \in stored'
    BY <1>5, <1>7, <2>1 DEF AtWork, Selected
  <2>. QED  BY <2>1, <2>2, <2>3, <2>4 DEF AtWork, Selected
<1>9. Saved(u)'
  BY <1>1, <1>3, <1>5, <1>7 DEF AtWork, Saved, Undisturbed
<1>10. Copied(u)'
  BY <1>2, <1>3 DEF AtWork, Copied, Undisturbed
<1>11. Delivered(u)'
  <2>. SUFFICES ASSUME pc[u] = "loading", NEW k \in 1..Services, k < next[u]
                PROVE  /\ snap[u] \in stored'
                       /\ data[Into(u)][k] = snapshot'[snap[u]].content[k]
    BY <1>3 DEF Delivered, Undisturbed
  <2>1. snap[u] \in stored /\ data[Into(u)][k] = snapshot[snap[u]].content[k]
    BY DEF AtWork, Delivered
  <2>2. snap[u] \in 1..taken /\ snapshot[snap[u]].stage \in Touched(job[u])
    BY <1>1, <1>7, <2>1 DEF AtWork, Selected, JobFits
  <2>. QED  BY <1>5, <2>1, <2>2
<1>. QED  BY <1>4, <1>8, <1>9, <1>10, <1>11 DEF AtWork

\* A new snapshot disturbs nobody, ...
LEMMA PublishAdds ==
  ASSUME TypeOK, NEW t \in Tasks, NEW s \in Stages, NEW kind \in {"manual", "auto"},
         Publish(t, s, kind)
  PROVE  /\ taken' \in Nat /\ taken' >= taken
         /\ \A i \in 1..taken : snapshot'[i] = snapshot[i]
<1>1. taken \in Nat /\ taken' = taken + 1 /\ 1..taken \subseteq Ids
  BY DEF Publish, TypeOK, Ids
<1>2. \A i \in Ids : i # taken + 1 => snapshot'[i] = snapshot[i]
  BY DEF Publish, TypeOK
<1>. QED  BY <1>1, <1>2

\* ... and the removal of snapshots of one stage those only that touch it.
LEMMA RemoveDrops ==
  ASSUME TypeOK, NEW ids, Remove(ids), NEW s, \A i \in ids : snapshot[i].stage = s
  PROVE  /\ taken' \in Nat /\ taken' >= taken
         /\ \A i \in 1..taken :
               \/ snapshot'[i] = snapshot[i]
               \/ snapshot'[i] = NoSnapshot /\ snapshot[i].stage = s
<1>1. taken \in Nat /\ taken' = taken /\ 1..taken \subseteq Ids
  BY DEF Remove, TypeOK, Ids
<1>. QED  BY <1>1 DEF Remove

LEMMA NothingTaken ==
  ASSUME TypeOK, UNCHANGED disk
  PROVE  /\ taken' \in Nat /\ taken' >= taken
         /\ \A i \in 1..taken : snapshot'[i] = snapshot[i]
BY DEF TypeOK, disk

\* The step of an operation, as the others see it.
OnlyActs(t) ==
    \A u \in Tasks \ {t} :
        /\ pc'[u] = pc[u] /\ job'[u] = job[u] /\ snap'[u] = snap[u]
        /\ pre'[u] = pre[u] /\ next'[u] = next[u] /\ dump'[u] = dump[u]

LEMMA LocksProtect ==
  ASSUME TypeOK, LocksHeld, NEW t \in Tasks, pc[t] # "idle", OnlyActs(t),
         \A p \in Places : Owner(p) \notin Touched(job[t]) => data'[p] = data[p],
         taken' \in Nat, taken' >= taken,
         \A i \in 1..taken :
            \/ snapshot'[i] = snapshot[i]
            \/ snapshot'[i] = NoSnapshot /\ snapshot[i].stage \in Touched(job[t])
  PROVE  \A u \in Tasks \ {t} : pc[u] # "idle" => Undisturbed(u)
<1>. SUFFICES ASSUME NEW u \in Tasks \ {t}, pc[u] # "idle" PROVE Undisturbed(u)
  OBVIOUS
<1>1. \A s : s \in Touched(job[t]) => s \notin Touched(job[u])
  BY Apart, PlacesTyped
<1>. QED  BY <1>1 DEF Undisturbed, OnlyActs

\* It is enough to look at the operation that acts.
LEMMA TasksKept ==
  ASSUME TypeOK, TasksOK, NEW t \in Tasks, OnlyActs(t),
         \A u \in Tasks \ {t} : pc[u] # "idle" => Undisturbed(u),
         IF pc'[t] = "idle" THEN next'[t] = 1 ELSE AtWork(t)'
  PROVE  TasksOK'
<1>. SUFFICES ASSUME NEW u \in Tasks
              PROVE  IF pc'[u] = "idle" THEN next'[u] = 1 ELSE AtWork(u)'
  BY DEF TasksOK, AtWork, JobFits, Selected, Saved, Copied, Delivered
<1>1. CASE u = t
  BY <1>1
<1>2. CASE u # t /\ pc[u] = "idle"
  BY <1>2 DEF OnlyActs, TasksOK
<1>3. CASE u # t /\ pc[u] # "idle"
  <2>1. AtWork(u)' /\ pc'[u] = pc[u]
    BY <1>3, UndisturbedWorks DEF TasksOK, OnlyActs
  <2>. QED  BY <1>3, <2>1
<1>. QED  BY <1>1, <1>2, <1>3

-----------------------------------------------------------------------------
(* The steps *)

LEMMA StartWorks ==
  ASSUME IInv, NEW t \in Tasks, Start(t)
  PROVE  TasksOK'
<1>. USE DEF IInv
<1>1. PICK o \in {"create", "restore", "clone", "dr"}, s, u \in Stages,
           d \in Databases \cup {"none"}, i \in Ids \cup {NoSnap}, phase \in Phases :
              Spawn(t, o, s, u, d, i, phase) /\ Asked(o, s, u, d, i, phase)
  BY StartSpawns
<1>2. /\ pc[t] = "idle" /\ pc'[t] = phase /\ snap'[t] = i /\ next'[t] = 1
      /\ job'[t] = [op |-> o, source |-> s, target |-> u, db |-> d]
      /\ UNCHANGED <<data, disk, production>> /\ OnlyActs(t)
  BY <1>1 DEF Spawn, TypeOK, TasksOK, OnlyActs
<1>3. \A v \in Tasks \ {t} : pc[v] # "idle" => Undisturbed(v)
  BY <1>2, NothingTaken DEF Undisturbed, OnlyActs
<1>4. stored \subseteq 1..taken /\ taken \in Nat /\ stored' = stored
  BY <1>2 DEF TypeOK, stored, disk
<1>5. i # NoSnap => i \in stored /\ snapshot[i].stage = s
  BY <1>1 DEF Asked
<1>6. JobFits(t)'
  <2>1. phase # "pruning" /\ (phase = "copying" <=> o \in {"create", "clone"})
    BY <1>1 DEF Asked
  <2>2. o \in {"restore", "dr"} => i # NoSnap
    BY <1>1, <1>4 DEF Asked, NoSnap
  <2>3. (o = "dr" => phase = "loading") /\ (d # "none" => u = "production")
    BY <1>1 DEF Asked
  <2>. QED  BY <1>1, <1>2, <2>1, <2>2, <2>3 DEF JobFits, Asked
<1>7. Selected(t)'
  <2>1. i # NoSnap => i \in stored' /\ i <= taken /\ snapshot[i].stage = s
    <3>1. i # NoSnap => i \in 1..taken
      BY <1>4, <1>5
    <3>. QED  BY <1>4, <1>5, <3>1
  <2>2. /\ job'[t].source = s /\ snap'[t] = i /\ taken' = taken /\ snapshot' = snapshot
    BY <1>2 DEF disk
  <2>. QED  BY <2>1, <2>2 DEF Selected
<1>8. Saved(t)'
  BY <1>1, <1>2 DEF Saved, Asked
<1>9. Copied(t)' /\ Delivered(t)'
  BY <1>2 DEF Copied, Delivered
<1>10. pc'[t] # "idle"
  BY <1>1, <1>2 DEF Phases
<1>. QED  BY <1>2, <1>3, <1>6, <1>7, <1>8, <1>9, <1>10, TasksKept DEF AtWork

LEMMA DumpWorks ==
  ASSUME IInv, NEW t \in Tasks, Dump(t)
  PROVE  TasksOK'
<1>. USE DEF IInv
<1>1. /\ pc[t] \in {"copying", "saving"} /\ next[t] \in 1..Services
      /\ next'[t] = next[t] + 1 /\ OnlyActs(t) /\ AtWork(t)
      /\ UNCHANGED <<pc, job, snap, pre, data, disk>>
  BY NextTyped DEF Dump, TypeOK, OnlyActs, TasksOK
<1>2. \A u \in Tasks \ {t} : pc[u] # "idle" => Undisturbed(u)
  BY <1>1, NothingTaken DEF Undisturbed, OnlyActs
<1>3. /\ From(t)' = From(t)
      /\ \A k \in 1..Services :
            dump'[t][k] = IF k = next[t] THEN data[From(t)][k] ELSE dump[t][k]
  <2>1. From(t)' = From(t)
    BY <1>1 DEF From
  <2>2. dump' = [dump EXCEPT ![t][next[t]] = data[From(t)][next[t]]]
    BY DEF Dump
  <2>3. dump[t] \in [1..Services -> Places \cup {Gone}] /\ dump \in [Tasks -> Contents]
    BY DEF TypeOK, Contents
  <2>. QED  BY <1>1, <2>1, <2>2, <2>3
<1>4. Copied(t)'
  BY <1>1, <1>3 DEF AtWork, Copied
<1>5. JobFits(t)' /\ Selected(t)' /\ Saved(t)' /\ Delivered(t)'
  BY <1>1 DEF AtWork, JobFits, Selected, Saved, Delivered, disk, stored
<1>. QED  BY <1>1, <1>2, <1>4, <1>5, TasksKept DEF AtWork

\* An operation that ends leaves nothing to rely on.
LEMMA EndActs ==
  ASSUME TypeOK, NEW t \in Tasks, End(t)
  PROVE  pc'[t] = "idle" /\ next'[t] = 1 /\ OnlyActs(t)
BY DEF End, TypeOK, OnlyActs

LEMMA EndWorks ==
  ASSUME IInv, NEW t \in Tasks,
         \/ EndRestore(t) \/ EndDrRestore(t) \/ Fail(t) \/ LoadFails(t)
         \/ PublishManual(t) \/ EndClone(t)
  PROVE  TasksOK'
<1>. USE DEF IInv
<1>1. pc[t] # "idle" /\ End(t)
  BY DEF EndRestore, EndDrRestore, Fail, LoadFails, PublishManual, EndClone, Loaded
<1>2. pc'[t] = "idle" /\ next'[t] = 1 /\ OnlyActs(t) /\ AtWork(t)
  BY <1>1, EndActs DEF TasksOK
<1>3. \A p \in Places : Owner(p) \notin Touched(job[t]) => data'[p] = data[p]
  <2>1. CASE LoadFails(t)
    <3>1. Owner(Into(t)) \in Touched(job[t])
      BY <1>1, <1>2, PlacesOwned DEF AtWork
    <3>. QED  BY <2>1, <3>1 DEF LoadFails, TypeOK
  <2>2. CASE ~LoadFails(t)
    BY <2>2 DEF EndRestore, EndDrRestore, Fail, PublishManual, Publish, EndClone
  <2>. QED  BY <2>1, <2>2
<1>4. /\ taken' \in Nat /\ taken' >= taken
      /\ \A i \in 1..taken :
            \/ snapshot'[i] = snapshot[i]
            \/ snapshot'[i] = NoSnapshot /\ snapshot[i].stage \in Touched(job[t])
  <2>1. CASE PublishManual(t)
    BY <2>1, PublishAdds, PlacesTyped DEF PublishManual, Jobs
  <2>2. CASE EndClone(t)
    <3>1. \A i \in Beyond(job[t].source) \ {snap[t]} : snapshot[i].stage = job[t].source
      BY DEF Beyond, Autos
    <3>. QED  BY <2>2, <3>1, RemoveDrops DEF EndClone, Touched
  <2>3. CASE UNCHANGED disk
    BY <2>3, NothingTaken
  <2>. QED  BY <2>1, <2>2, <2>3 DEF EndRestore, EndDrRestore, Fail, LoadFails, disk
<1>. QED  BY <1>1, <1>2, <1>3, <1>4, LocksProtect, TasksKept

LEMMA PublishCopyWorks ==
  ASSUME IInv, NEW t \in Tasks, PublishCopy(t)
  PROVE  TasksOK'
<1>. USE DEF IInv
<1>1. /\ pc[t] = "copying" /\ pc'[t] = "saving" /\ next'[t] = 1 /\ snap'[t] = taken'
      /\ UNCHANGED <<job, data>> /\ OnlyActs(t) /\ AtWork(t) /\ job[t].op = "clone"
      /\ Publish(t, job[t].source, "auto")
  BY DEF PublishCopy, Goto, StartOver, Publish, OnlyActs, TypeOK, TasksOK
<1>2. job[t].source \in Stages
  BY PlacesTyped DEF Jobs
<1>3. /\ taken' \in stored' /\ taken' \in Ids
      /\ snapshot'[taken'].stage = job[t].source
  BY <1>1, <1>2, PublishTyped
<1>4. \A u \in Tasks \ {t} : pc[u] # "idle" => Undisturbed(u)
  BY <1>1, <1>2, PublishAdds DEF Undisturbed, OnlyActs
<1>5. JobFits(t)' /\ Selected(t)'
  BY <1>1, <1>3 DEF AtWork, JobFits, Selected, Ids, NoSnap
<1>6. Saved(t)' /\ Copied(t)' /\ Delivered(t)'
  BY <1>1 DEF Saved, Copied, Delivered
<1>. QED  BY <1>1, <1>4, <1>5, <1>6, TasksKept DEF AtWork

\* What was saved of the target is what it holds: nobody has loaded into it since.
LEMMA PublishPreWorks ==
  ASSUME IInv, NEW t \in Tasks, PublishPre(t)
  PROVE  TasksOK'
<1>. USE DEF IInv
<1>1. /\ pc[t] = "saving" /\ pc'[t] = "pruning" /\ next'[t] = 1 /\ pre'[t] = taken'
      /\ next[t] = Services + 1
      /\ UNCHANGED <<job, data, snap>> /\ OnlyActs(t) /\ AtWork(t)
      /\ Publish(t, job[t].target, "auto")
  BY DEF PublishPre, Goto, StartOver, Publish, OnlyActs, TypeOK, TasksOK
<1>2. job[t].target \in Stages /\ job[t].op \in {"create", "restore", "clone", "dr"}
  BY PlacesTyped DEF Jobs
<1>3. /\ taken' \in stored' /\ taken' = taken + 1 /\ stored' = stored \cup {taken'}
      /\ snapshot'[taken'].stage = job[t].target
      /\ snapshot'[taken'].content = dump[t]
  BY <1>1, <1>2, PublishTyped
<1>4. /\ taken' >= taken /\ taken \in Nat /\ stored \subseteq 1..taken
      /\ \A i \in 1..taken : snapshot'[i] = snapshot[i]
  BY <1>1, <1>2, PublishAdds DEF TypeOK
<1>5. \A u \in Tasks \ {t} : pc[u] # "idle" => Undisturbed(u)
  BY <1>1, <1>2, PublishAdds DEF Undisturbed, OnlyActs
<1>6. JobFits(t)'
  BY <1>1, <1>2 DEF AtWork, JobFits
<1>7. Selected(t)'
  <2>1. snap[t] # NoSnap => snap[t] \in Nat /\ snap[t] <= taken /\ snap[t] # taken'
    BY <1>1, <1>3, <1>4 DEF AtWork, JobFits, Selected, TypeOK, Ids
  <2>. QED  BY <1>1, <1>3, <1>4, <2>1 DEF AtWork, Selected
<1>8. Saved(t)'
  <2>1. From(t) = job[t].target /\ (Into(t) = job[t].target \/ job[t].op = "dr")
    BY <1>1, <1>2 DEF AtWork, JobFits, From, Into, Resource
  <2>2. \A k \in 1..Services : dump[t][k] = data[From(t)][k]
    BY <1>1 DEF AtWork, Copied
  <2>3. Into(t)' = Into(t)
    BY <1>1 DEF Into
  <2>. QED  BY <1>1, <1>3, <2>1, <2>2, <2>3 DEF Saved
<1>9. Copied(t)' /\ Delivered(t)'
  BY <1>1 DEF Copied, Delivered
<1>. QED  BY <1>1, <1>5, <1>6, <1>7, <1>8, <1>9, TasksKept DEF AtWork

\* The snapshot just taken is spared by name, and the one to load is of another
\* stage, unless a stage is restored from a snapshot of its own.
LEMMA PruneWorks ==
  ASSUME IInv, NEW t \in Tasks, Prune(t)
  PROVE  TasksOK'
<1>. USE DEF IInv
<1>1. /\ pc[t] = "pruning" /\ pc'[t] = "loading" /\ OnlyActs(t) /\ AtWork(t)
      /\ UNCHANGED <<job, snap, pre, next, dump, data>> /\ Remove(Pruned(t))
  BY DEF Prune, Goto, OnlyActs, TypeOK, TasksOK, work
<1>2. \A i \in Pruned(t) : snapshot[i].stage = job[t].target /\ i # pre[t]
  BY DEF Pruned, Beyond, Autos
<1>3. /\ taken' \in Nat /\ taken' >= taken
      /\ \A i \in 1..taken :
            \/ snapshot'[i] = snapshot[i]
            \/ snapshot'[i] = NoSnapshot /\ snapshot[i].stage = job[t].target
  BY <1>1, <1>2, RemoveDrops
<1>4. \A u \in Tasks \ {t} : pc[u] # "idle" => Undisturbed(u)
  BY <1>1, <1>3, LocksProtect DEF Touched
<1>5. stored' = stored \ Pruned(t) /\ taken' = taken
      /\ \A i \in stored' : snapshot'[i] = snapshot[i]
  BY <1>1, RemoveTyped DEF Remove, stored
<1>6. next[t] = 1 /\ job[t].op # "dr"
  BY <1>1 DEF AtWork, JobFits
<1>7. JobFits(t)' /\ Copied(t)' /\ Delivered(t)'
  BY <1>1, <1>6 DEF AtWork, JobFits, Copied, Delivered
<1>8. Selected(t)'
  <2>1. snap[t] \in Pruned(t) => job[t].source = job[t].target \/ snap[t] \notin stored
    BY <1>1, <1>2 DEF AtWork, Selected, JobFits
  <2>2. job[t].op \in {"restore", "clone"} /\ (job[t].op = "clone" =>
           job[t].source # job[t].target)
    BY <1>1, <1>6, PlacesTyped DEF AtWork, JobFits, Jobs
  <2>. QED  BY <1>1, <1>5, <2>1, <2>2 DEF AtWork, Selected, JobFits
<1>9. Saved(t)'
  <2>1. Into(t)' = Into(t)
    BY <1>1 DEF Into
  <2>. QED  BY <1>1, <1>2, <1>5, <1>6, <2>1 DEF AtWork, Saved
<1>. QED  BY <1>1, <1>4, <1>7, <1>8, <1>9, TasksKept DEF AtWork

LEMMA LoadWorks ==
  ASSUME IInv, NEW t \in Tasks, Load(t)
  PROVE  TasksOK'
<1>. USE DEF IInv
<1>1. /\ pc[t] = "loading" /\ next[t] \in 1..Services /\ next'[t] = next[t] + 1
      /\ snap[t] \in stored /\ OnlyActs(t) /\ AtWork(t)
      /\ UNCHANGED <<pc, job, snap, pre, dump, disk>>
  BY NextTyped DEF Load, TypeOK, OnlyActs, TasksOK
<1>2. Owner(Into(t)) \in Touched(job[t]) /\ Into(t) \in Places
  BY <1>1, PlacesOwned, PlacesTyped DEF AtWork
<1>3. \A p \in Places : p # Into(t) => data'[p] = data[p]
  BY DEF Load, TypeOK
<1>4. \A u \in Tasks \ {t} : pc[u] # "idle" => Undisturbed(u)
  BY <1>1, <1>2, <1>3, NothingTaken, LocksProtect
<1>5. \A k \in 1..Services :
         data'[Into(t)][k] = IF k = next[t] THEN snapshot[snap[t]].content[k]
                                            ELSE data[Into(t)][k]
  <2>1. data' = [data EXCEPT ![Into(t)][next[t]] = snapshot[snap[t]].content[next[t]]]
    BY DEF Load
  <2>2. data[Into(t)] \in [1..Services -> Places \cup {Gone}]
        /\ data \in [Places -> Contents]
    BY <1>2 DEF TypeOK, Contents
  <2>. QED  BY <1>1, <1>2, <2>1, <2>2
<1>6. Into(t)' = Into(t) /\ stored' = stored /\ snapshot' = snapshot /\ taken' = taken
  BY <1>1 DEF Into, stored, disk
<1>7. JobFits(t)' /\ Copied(t)' /\ Selected(t)'
  BY <1>1, <1>6 DEF AtWork, JobFits, Copied, Selected
<1>8. Saved(t)' /\ Delivered(t)'
  BY <1>1, <1>5, <1>6 DEF AtWork, Saved, Delivered
<1>. QED  BY <1>1, <1>4, <1>7, <1>8, TasksKept DEF AtWork

\* delete_snapshot, the swap of the databases, and nothing at all.
LEMMA OutsideWorks ==
  ASSUME IInv, (\E i \in Ids : Delete(i)) \/ Swap \/ UNCHANGED vars
  PROVE  TasksOK'
<1>. USE DEF IInv
<1>1. UNCHANGED <<pc, job, snap, pre, next, dump, data>>
  BY DEF Delete, Swap, vars, work
<1>2. ASSUME NEW u \in Tasks, pc[u] # "idle" PROVE Undisturbed(u)
  <2>1. ASSUME NEW i \in Ids, Delete(i) PROVE Undisturbed(u)
    <3>1. /\ i \in stored /\ active[snapshot[i].stage] = NoTask /\ Remove({i})
      BY <2>1 DEF Delete, IsBusy
    <3>2. snapshot[i].stage \in Stages
      BY <3>1 DEF TypeOK, stored, Snapshots
    <3>3. snapshot[i].stage \notin Touched(job[u])
      BY <1>2, <3>1, <3>2 DEF LocksHeld
    <3>4. /\ taken' \in Nat /\ taken' >= taken
          /\ \A n \in 1..taken :
                \/ snapshot'[n] = snapshot[n]
                \/ snapshot'[n] = NoSnapshot /\ snapshot[n].stage = snapshot[i].stage
      BY <3>1, RemoveDrops
    <3>. QED  BY <1>1, <3>3, <3>4 DEF Undisturbed
  <2>2. CASE Swap \/ UNCHANGED vars
    BY <1>1, <2>2, NothingTaken DEF Swap, vars, disk, Undisturbed
  <2>. QED  BY <2>1, <2>2
<1>3. ASSUME NEW u \in Tasks
      PROVE  IF pc'[u] = "idle" THEN next'[u] = 1 ELSE AtWork(u)'
  <2>1. CASE pc[u] = "idle"
    BY <1>1, <2>1 DEF TasksOK
  <2>2. CASE pc[u] # "idle"
    <3>1. AtWork(u)'
      BY <1>2, <2>2, UndisturbedWorks DEF TasksOK
    <3>. QED  BY <1>1, <2>2, <3>1
  <2>. QED  BY <2>1, <2>2
<1>. QED  BY <1>3 DEF TasksOK, AtWork, JobFits, Selected, Saved, Copied, Delivered

LEMMA StepTasks == IInv /\ [Next]_vars => TasksOK'
<1>. SUFFICES ASSUME IInv, [Next]_vars PROVE TasksOK'
  OBVIOUS
<1>1. ASSUME NEW t \in Tasks, Start(t) PROVE TasksOK'
  BY <1>1, StartWorks
<1>2. ASSUME NEW t \in Tasks, Proceed(t) PROVE TasksOK'
  BY <1>2, DumpWorks, EndWorks, PublishCopyWorks, PublishPreWorks, PruneWorks, LoadWorks
     DEF Proceed
<1>3. CASE Restart
  BY <1>3 DEF Restart, TasksOK
<1>. QED  BY <1>1, <1>2, <1>3, OutsideWorks DEF Next

-----------------------------------------------------------------------------
(* Theorems *)

\* What every operation may rely on, in every reachable state.
THEOREM Inductive == Spec => []IInv
<1>1. Init => IInv
  <2>. SUFFICES ASSUME Init PROVE IInv
    OBVIOUS
  <2>1. LocksHeld /\ TasksOK
    BY DEF Init, LocksHeld, TasksOK
  <2>. QED  BY <2>1, InitTyped DEF IInv
<1>2. IInv /\ [Next]_vars => IInv'
  BY StepTyped, StepLocks, StepTasks DEF IInv
<1>. QED  BY <1>1, <1>2, PTL DEF Spec

\* The locks, the operations, the places and the snapshots stay well formed; no id
\* beyond the last one taken is on disk.
THEOREM TypeCorrect == Spec => []TypeOK
<1>1. IInv => TypeOK
  BY DEF IInv
<1>. QED  BY <1>1, Inductive, PTL

\* Whatever runs beside them, create_snapshot saves all services as they were at
\* one moment and a restore finds what it has loaded still in place.
THEOREM NobodyEverInterferes == Spec => []NobodyInterferes
<1>1. IInv => NobodyInterferes
  BY DEF IInv, TasksOK, AtWork, Copied, Delivered, NobodyInterferes, DumpsOneMoment,
         LoadsStay
<1>. QED  BY <1>1, Inductive, PTL

\* While a restore or a clone replaces the data of a stage, the snapshot of what was
\* there is on disk, whatever is pruned or deleted (prune_auto_snapshots, keep_ids).
THEOREM AlwaysCanRollBack == Spec => []CanRollBack
<1>1. IInv => CanRollBack
  BY DEF IInv, TasksOK, AtWork, Saved, CanRollBack
<1>. QED  BY <1>1, Inductive, PTL

\* The snapshot an operation is to load is kept until it is loaded, unless a stage
\* is restored from a snapshot of its own.
THEOREM SourceAlwaysKept == Spec => []SourceKept
<1>1. IInv => SourceKept
  BY DEF IInv, TasksOK, AtWork, Selected, SourceKept
<1>. QED  BY <1>1, Inductive, PTL

\* A restore that reports success (update_task with "completed") leaves the place with
\* exactly the content of a snapshot that is on disk, service by service.
RestoresWhole ==
    [][\A t \in Tasks : EndRestore(t) \/ EndDrRestore(t) \/ EndClone(t) =>
          /\ Services > 0 => snap[t] \in stored
          /\ \A k \in 1..Services :
                data[Into(t)][k] = snapshot[snap[t]].content[k]]_vars

\* No restore, clone or DR restore succeeds with a mixture of two snapshots.
THEOREM SuccessIsWhole == Spec => RestoresWhole
<1>1. ASSUME IInv, NEW t \in Tasks, EndRestore(t) \/ EndDrRestore(t) \/ EndClone(t)
      PROVE  /\ Services > 0 => snap[t] \in stored
             /\ \A k \in 1..Services :
                   data[Into(t)][k] = snapshot[snap[t]].content[k]
  <2>1. pc[t] = "loading" /\ next[t] = Services + 1
    BY <1>1 DEF EndRestore, EndDrRestore, EndClone, Loaded
  <2>2. Delivered(t)
    BY <1>1, <2>1 DEF IInv, TasksOK, AtWork
  <2>. QED  BY <2>1, <2>2 DEF Delivered
<1>2. IInv /\ [Next]_vars =>
        [\A t \in Tasks : EndRestore(t) \/ EndDrRestore(t) \/ EndClone(t) =>
            /\ Services > 0 => snap[t] \in stored
            /\ \A k \in 1..Services :
                  data[Into(t)][k] = snapshot[snap[t]].content[k]]_vars
  BY <1>1
<1>. QED  BY <1>2, Inductive, PTL DEF Spec, RestoresWhole

-----------------------------------------------------------------------------
(* The locks of SnapshotManager reserve all the stages of an operation or    *)
(* none, and give them back in one piece, as those of DeployManager do.      *)

Table == INSTANCE Reservation
           WITH Resources <- Stages, Task <- Tasks, Nobody <- NoTask, holder <- active

ReservedBetweenRestarts == [][Restart \/ [Table!Next]_active]_vars

LEMMA SpawnReserves ==
  ASSUME IInv, NEW t \in Tasks, Start(t)
  PROVE  Table!Next
<1>1. PICK o \in {"create", "restore", "clone", "dr"}, s, u \in Stages,
           d \in Databases \cup {"none"}, i \in Ids \cup {NoSnap}, phase \in Phases :
              Spawn(t, o, s, u, d, i, phase)
  <2>. TypeOK
    BY DEF IInv
  <2>. QED  BY StartSpawns
<1> DEFINE j == [op |-> o, source |-> s, target |-> u, db |-> d]
<1>2. /\ pc[t] = "idle" /\ AllFree(j)
      /\ active' = [st \in Stages |-> IF st \in Touched(j) THEN t ELSE active[st]]
  BY <1>1 DEF Spawn
<1>3. Touched(j) \in SUBSET Stages
  BY DEF Touched
<1> HIDE DEF j
<1>4. Table!Held(t) = {}
  BY <1>2 DEF IInv, LocksHeld, Table!Held
<1>5. Touched(j) \subseteq Table!Free
  BY <1>2, <1>3 DEF AllFree, Table!Free
<1>. QED  BY <1>2, <1>3, <1>4, <1>5 DEF Table!Next, Table!Reserve

LEMMA EndGivesBack ==
  ASSUME IInv, NEW t \in Tasks, End(t)
  PROVE  Table!Next
<1>1. \A s \in Stages : s \in Unlocked(t) <=> active[s] = t
  BY DEF IInv, LocksHeld, Unlocked
<1>2. active' = [s \in Stages |-> IF active[s] = t THEN NoTask ELSE active[s]]
  BY <1>1 DEF End
<1>. QED  BY <1>2 DEF Table!Next, Table!GiveBack

\* Until the process restarts, the locks of the stages implement all-or-nothing
\* reservation (create_task, update_task).
THEOREM StagesReserved == Spec => ReservedBetweenRestarts
<1>1. ASSUME IInv, Next, ~Restart PROVE [Table!Next]_active
  <2>1. ASSUME NEW t \in Tasks, Start(t) PROVE Table!Next
    BY <1>1, <2>1, SpawnReserves
  <2>2. ASSUME NEW t \in Tasks, Proceed(t) PROVE [Table!Next]_active
    BY <1>1, <2>2, EndGivesBack DEF Proceed, Dump, PublishManual, PublishCopy, PublishPre,
         Prune, Load, EndRestore, EndClone, EndDrRestore, Fail, LoadFails, Goto
  <2>3. ASSUME NEW i \in Ids, Delete(i) PROVE UNCHANGED active
    BY <2>3 DEF Delete
  <2>4. CASE Swap
    BY <2>4 DEF Swap
  <2>. QED  BY <1>1, <2>1, <2>2, <2>3, <2>4 DEF Next
<1>2. IInv /\ [Next]_vars => [Restart \/ [Table!Next]_active]_vars
  BY <1>1
<1>. QED  BY <1>2, Inductive, PTL DEF Spec, ReservedBetweenRestarts
=============================================================================
