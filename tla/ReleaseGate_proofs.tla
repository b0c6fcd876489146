------------------------ MODULE ReleaseGate_proofs ------------------------
(***************************************************************************)
(* Proofs about the release gate, for any members, images, auditors, tasks *)
(* and bounds.  What holds only for some kinds of writers says so.         *)
(***************************************************************************)
EXTENDS ReleaseGate, TLAPS

\* A task that runs is of a kind there is.
KindsOK == \A t \in Tasks : pc[t] \in Running => job[t].kind \in Kinds

TInv == TypeOK /\ KindsOK

-----------------------------------------------------------------------------

LEMMA NoImageTypes == NoImage \in Contents
  BY DEF NoImage, Contents

\* An upsert of a content into another is a content (write_deployment_entries).
LEMMA UpsertTypes ==
  ASSUME NEW old \in Contents, NEW new \in Contents
  PROVE  Upsert(old, new) \in Contents
  BY DEF Upsert, Contents

LEMMA DeployedTypes ==
  ASSUME TypeOK, NEW t \in Tasks, NEW old \in Contents
  PROVE  Deployed(t, old) \in Contents
  BY UpsertTypes DEF Deployed, TypeOK, Jobs

LEMMA EmptyTypes == Empty \in Gates
  BY BoundsAssumption, NoImageTypes DEF Empty, Gates

LEMMA JobTypes ==
  ASSUME NEW k \in Kinds \cup {"none"}, NEW s \in Stages,
         NEW i \in Contents
  PROVE  JobOf(k, s, i) \in Jobs
  BY EmptyTypes, NoImageTypes DEF JobOf, Jobs

LEMMA NoJobTypes == NoJob \in Jobs
  BY JobTypes, NoImageTypes DEF NoJob, Stages

LEMMA InitTInv == Init => TInv
  BY NoJobTypes, NoImageTypes, BoundsAssumption DEF Init, TInv, TypeOK, KindsOK, Running

\* The gate as it is now is a well-formed gate.
LEMMA GateNowTypes == TypeOK => GateNow \in Gates
  BY DEF TypeOK, GateNow, Gates

\* Each start of a writer gives it a job with one content.
LEMMA BeginKeepsTInv ==
  ASSUME TInv, NEW t \in Tasks, NEW k \in Kinds, NEW s \in Stages,
         NEW i \in Images, NEW l \in Running, Begin(t, k, s, i, l)
  PROVE  /\ pc' \in [Tasks -> Running \cup {"idle"}]
         /\ job' \in [Tasks -> Jobs]
         /\ KindsOK'
  BY JobTypes DEF Begin, TInv, TypeOK, KindsOK, JobOf, Images

\* Every start of a writer is a Begin.
LEMMA StartBegins ==
  ASSUME TypeOK, NEW t \in Tasks, Start(t)
  PROVE  /\ \E k \in Kinds, s \in Stages, i \in Images, l \in Running :
              Begin(t, k, s, i, l)
         /\ UNCHANGED <<history, lastWord>>
         /\ cleared' \in SUBSET Parts
<1>1. CASE \E k \in Kinds, i \in Images : StartDeploy(t, k, i)
  BY <1>1 DEF StartDeploy, TypeOK, Running, Stages, ghost
<1>2. CASE PromoteToStaging(t)
  <2>1. image["dev"] \in Images
    BY <1>2 DEF PromoteToStaging, TypeOK, Stages, Images
  <2> QED
    BY <1>2, <2>1 DEF PromoteToStaging, Begin, TypeOK, Running, Stages, ghost
<1>3. CASE PromoteToProduction(t)
  <2>1. image["staging"] \in Images
    BY <1>3 DEF PromoteToProduction, TypeOK, Stages, Images
  <2>2. cleared' \in SUBSET Parts
    BY <1>3, <2>1 DEF PromoteToProduction, TypeOK, Images, Contents
  <2> QED
    BY <1>3, <2>1, <2>2 DEF PromoteToProduction, Begin, Running, Stages
<1>4. CASE \E s \in Stages, i \in Images : StartRollback(t, s, i)
  <2>1. PICK s \in Stages, i \in Images : StartRollback(t, s, i)
    BY <1>4
  <2>2. Begin(t, RollbackOf(s), s, i, "restoring") /\ "restoring" \in Running
    BY <2>1 DEF StartRollback, Running
  <2>3. RollbackOf(s) \in Kinds
    BY <2>2 DEF Begin
  <2> QED
    BY <2>1, <2>2, <2>3 DEF StartRollback, TypeOK, ghost
<1> QED
  BY <1>1, <1>2, <1>3, <1>4 DEF Start

\* A step of a running task leaves the tasks well formed.
LEMMA GotoKeepsTInv ==
  ASSUME TInv, NEW t \in Tasks, pc[t] \in Running, NEW l \in Running, Goto(t, l)
  PROVE  /\ pc' \in [Tasks -> Running \cup {"idle"}]
         /\ job' \in [Tasks -> Jobs]
         /\ KindsOK'
  BY DEF TInv, TypeOK, KindsOK, Goto

LEMMA ApplyKeepsTInv ==
  ASSUME TInv, NEW t \in Tasks, pc[t] \in Running, Apply(t)
  PROVE  /\ pc' \in [Tasks -> Running \cup {"idle"}]
         /\ job' \in [Tasks -> Jobs]
         /\ KindsOK'
<1>1. /\ job[t].kind \in Kinds \cup {"none"} /\ job[t].stage \in Stages
      /\ NoImage \in Contents
  BY NoImageTypes DEF TInv, TypeOK, Jobs
<1>2. JobOf(job[t].kind, job[t].stage, NoImage) \in Jobs
  BY <1>1, JobTypes
<1>3. JobOf(job[t].kind, job[t].stage, NoImage).kind = job[t].kind
  BY DEF JobOf
<1> QED
  BY <1>2, <1>3 DEF TInv, TypeOK, KindsOK, Apply, Running

LEMMA EndKeepsTInv ==
  ASSUME TInv, NEW t \in Tasks, End(t)
  PROVE  /\ pc' \in [Tasks -> Running \cup {"idle"}]
         /\ job' \in [Tasks -> Jobs]
         /\ KindsOK'
  BY NoJobTypes DEF TInv, TypeOK, KindsOK, End, Running

LEMMA GovernKeepsTInv == TInv /\ Govern => TInv'
<1> SUFFICES ASSUME TInv, Govern PROVE TInv'
  OBVIOUS
<1> USE DEF TInv, TypeOK, KindsOK, task, ghost
<1>1. CASE Freeze
  BY <1>1 DEF Freeze, Stages
<1>2. CASE Unfreeze
  BY <1>2, NoImageTypes DEF Unfreeze
<1>3. CASE \E n \in 1..MaxRequired : SetPolicy(n)
  BY <1>3 DEF SetPolicy
<1>4. CASE \E a \in Auditors, v \in {"approve", "reject"} : RecordAudit(a, v)
  <2>1. PICK a \in Auditors, v \in {"approve", "reject"} : RecordAudit(a, v)
    BY <1>4
  <2>2. frozen \in Images /\ [who |-> a, verdict |-> v] \in SignOffs
    BY <2>1 DEF RecordAudit, Frozen, SignOffs, Images
  <2>3. <<[who |-> a, verdict |-> v]>> \o audits[frozen] \in Seq(SignOffs)
    BY <2>2
  <2>4. audits' \in [Images -> Seq(SignOffs)]
    BY <2>1, <2>3 DEF RecordAudit
  <2>5. lastWord' \in [Images -> [Auditors -> {"none", "approve", "reject"}]]
    BY <2>1, <2>2 DEF RecordAudit
  <2> QED
    BY <2>1, <2>4, <2>5 DEF RecordAudit
<1> QED
  BY <1>1, <1>2, <1>3, <1>4 DEF Govern

LEMMA StartKeepsTInv ==
  ASSUME TInv, NEW t \in Tasks, Start(t)
  PROVE  TInv'
<1>1. TypeOK
  BY DEF TInv
<1>2. PICK k \in Kinds, s \in Stages, i \in Images, l \in Running :
         Begin(t, k, s, i, l)
  BY <1>1, StartBegins
<1>3. UNCHANGED <<history, lastWord>> /\ cleared' \in SUBSET Parts
  BY <1>1, StartBegins
<1>4. /\ pc' \in [Tasks -> Running \cup {"idle"}]
      /\ job' \in [Tasks -> Jobs]
      /\ KindsOK'
  BY <1>2, BeginKeepsTInv
<1>5. UNCHANGED <<image, audits, frozen, required, released>>
  BY <1>2 DEF Begin, gate
<1> QED
  BY <1>1, <1>3, <1>4, <1>5 DEF TInv, TypeOK

LEMMA ProceedKeepsTInv ==
  ASSUME TInv, NEW t \in Tasks, Proceed(t)
  PROVE  TInv'
<1> DEFINE TasksOK == /\ pc' \in [Tasks -> Running \cup {"idle"}]
                      /\ job' \in [Tasks -> Jobs]
                      /\ KindsOK'
<1>. TypeOK /\ KindsOK
  BY DEF TInv
<1>1. CASE Check(t)
  <2>1. TasksOK
    BY <1>1, GotoKeepsTInv, EndKeepsTInv DEF Check, Running
  <2> QED
    BY <1>1, <2>1 DEF Check, TInv, TypeOK, gate, ghost
<1>2. CASE Read(t)
  <2>1. /\ job'[t] \in Jobs /\ job'[t].carried = job[t].carried
        /\ job'[t].kind = job[t].kind
    BY <1>2, GateNowTypes, EmptyTypes DEF Read, TypeOK, Jobs, Having
  <2>2. TasksOK
    BY <1>2, <2>1 DEF Read, TypeOK, KindsOK, Running
  <2> QED
    BY <1>2, <2>2 DEF Read, TInv, TypeOK, gate, ghost
<1>3. CASE Write(t)
  <2>1. TasksOK
    BY <1>3, ApplyKeepsTInv DEF Write, Running
  <2>2. Written(t) \in Gates
    BY GateNowTypes DEF Written, TypeOK, Jobs
  <2>3. image' \in [Stages -> Contents]
    <3>1. job[t].image \in [Stages -> Contents] /\ job[t].stage \in Stages
      BY DEF TypeOK, Jobs
    <3>2. Deployed(t, job[t].image[job[t].stage]) \in Contents
      BY <3>1, DeployedTypes
    <3> QED
      BY <1>3, <3>1, <3>2 DEF Write
  <2>4. history' \in [Stages -> SUBSET Images]
    BY <1>3, <2>3 DEF Write, Remember, TypeOK, Images
  <2> QED
    BY <1>3, <2>1, <2>2, <2>3, <2>4 DEF Write, TInv, TypeOK, Gates
<1>4. CASE Restore(t)
  <2>1. TasksOK
    BY <1>4, ApplyKeepsTInv DEF Restore, Running
  <2>2. image' \in [Stages -> Contents]
    BY <1>4 DEF Restore, TypeOK, Jobs
  <2>3. history' \in [Stages -> SUBSET Images]
    BY <1>4, <2>2 DEF Restore, Remember, TypeOK, Images
  <2> QED
    BY <1>4, <2>1, <2>2, <2>3 DEF Restore, TInv, TypeOK, gate
<1>5. CASE Record(t)
  <2>1. TasksOK
    BY <1>5, GotoKeepsTInv DEF Record, Running
  <2>2. Stamped \subseteq Images
    BY <1>5 DEF Stamped, TypeOK, Stages, Images
  <2> QED
    BY <1>5, <2>1, <2>2 DEF Record, TInv, TypeOK
<1>6. CASE AutoUnfreeze(t)
  <2>1. TasksOK
    BY <1>6, EndKeepsTInv DEF AutoUnfreeze
  <2> QED
    BY <1>6, <2>1, NoImageTypes DEF AutoUnfreeze, TInv, TypeOK, ghost
<1>7. CASE Finish(t) \/ Fail(t)
  <2>1. TasksOK
    BY <1>7, EndKeepsTInv DEF Finish, Fail
  <2> QED
    BY <1>7, <2>1 DEF Finish, Fail, TInv, TypeOK, gate, ghost
<1> QED
  BY <1>1, <1>2, <1>3, <1>4, <1>5, <1>6, <1>7 DEF Proceed

LEMMA NextTInv == TInv /\ [Next]_vars => TInv'
<1>1. ASSUME TInv, UNCHANGED vars PROVE TInv'
  BY <1>1 DEF TInv, TypeOK, KindsOK, vars, gate, task, ghost
<1> QED
  BY <1>1, GovernKeepsTInv, StartKeepsTInv, ProceedKeepsTInv DEF Next

LEMMA TInvHolds == Spec => []TInv
  BY InitTInv, NextTInv, PTL DEF Spec

\* The release state and its writers stay well formed; a promotion records
\* only images, never the absence of one (_stamp_release_audits).
THEOREM TypeCorrect == Spec => []TypeOK
<1>1. TInv => TypeOK
  BY DEF TInv
<1> QED
  BY <1>1, TInvHolds, PTL

-----------------------------------------------------------------------------
(***************************************************************************)
(* Production.  A member image reaches it from the job that carries it,    *)
(* from the file a job has read, from what production had before, or from  *)
(* a commit; so all that these have must have been cleared.  The gate      *)
(* clears staging's content because it is the frozen one.                  *)
(***************************************************************************)
Traced ==
    /\ image["production"] \subseteq cleared
    /\ \A c \in history["production"] : c \subseteq cleared
    /\ \A t \in Tasks : job[t].image["production"] \subseteq cleared
    /\ \A t \in Tasks : pc[t] \in Running /\ job[t].stage = "production" =>
                         job[t].carried \subseteq cleared

LEMMA InitTraced == Init => Traced
  BY DEF Init, Traced, NoJob, JobOf, Stages, Running, NoImage

\* A writer that starts carries what was cleared, if to production.
LEMMA StartTraced ==
  ASSUME TInv, Traced, NEW t \in Tasks, Start(t)
  PROVE  Traced'
<1>. TypeOK
  BY DEF TInv
<1>1. cleared \subseteq cleared' /\ UNCHANGED <<image, history>>
  <2>1. CASE PromoteToProduction(t)
    BY <2>1 DEF PromoteToProduction, Begin
  <2>2. CASE ~ PromoteToProduction(t)
    BY <2>2 DEF Start, StartDeploy, PromoteToStaging, StartRollback, Begin, ghost
  <2> QED
    BY <2>1, <2>2
<1>2. PICK k \in Kinds, s \in Stages, i \in Images, l \in Running :
         Begin(t, k, s, i, l) /\ (s = "production" => i \subseteq cleared')
  <2>1. CASE \E k \in Kinds, i \in Images : StartDeploy(t, k, i)
    BY <2>1 DEF StartDeploy, Running, Stages
  <2>2. CASE PromoteToStaging(t)
    <3>1. image["dev"] \in Images
      BY <2>2 DEF PromoteToStaging, TypeOK, Stages, Images
    <3> QED
      BY <2>2, <3>1 DEF PromoteToStaging, Begin, Running, Stages
  <2>3. CASE PromoteToProduction(t)
    <3>1. image["staging"] \in Images
      BY <2>3 DEF PromoteToProduction, TypeOK, Stages, Images
    <3>2. SignedOff(image["staging"])
      BY <2>3, <3>1 DEF PromoteToProduction, Allowed, Promotable, Stale
    <3>3. image["staging"] \subseteq cleared'
      BY <2>3, <3>2 DEF PromoteToProduction
    <3> QED
      BY <2>3, <3>1, <3>3 DEF PromoteToProduction, Begin, Running, Stages
  <2>4. CASE \E s \in Stages, i \in Images : StartRollback(t, s, i)
    <3>1. PICK s \in Stages, i \in Images : StartRollback(t, s, i)
      BY <2>4
    <3>2. Begin(t, RollbackOf(s), s, i, "restoring") /\ "restoring" \in Running
      BY <3>1 DEF StartRollback, Running
    <3>3. RollbackOf(s) \in Kinds
      BY <3>2 DEF Begin
    <3>4. s = "production" => i \subseteq cleared'
      BY <3>1, <1>1 DEF StartRollback, Traced
    <3> QED
      BY <3>2, <3>3, <3>4
  <2> QED
    BY <2>1, <2>2, <2>3, <2>4 DEF Start
<1>3. /\ JobOf(k, s, i).stage = s
      /\ JobOf(k, s, i).carried = i
      /\ JobOf(k, s, i).image["production"] = {}
  BY DEF JobOf, Stages, NoImage
<1> QED
  BY <1>1, <1>2, <1>3 DEF Begin, Traced, TypeOK

\* An upsert of what was cleared into what was cleared is cleared.
LEMMA DeployedCleared ==
  ASSUME NEW t \in Tasks, NEW old, old \subseteq cleared,
         job[t].carried \subseteq cleared
  PROVE  Deployed(t, old) \subseteq cleared
  BY DEF Deployed, Upsert

LEMMA ProceedTraced ==
  ASSUME TInv, Traced, NEW t \in Tasks, Proceed(t)
  PROVE  Traced'
<1>. TypeOK
  BY DEF TInv
<1>1. cleared' = cleared
  BY DEF Proceed, Check, Read, Write, Restore, Record, AutoUnfreeze, Finish,
         Fail, ghost
<1>2. \A k, s : JobOf(k, s, NoImage).image["production"] = {}
              /\ JobOf(k, s, NoImage).carried = {}
  BY DEF JobOf, Stages, NoImage
<1>3. CASE Write(t) \/ Restore(t)
  <2>1. /\ Apply(t) /\ pc[t] \in Running
        /\ \A s \in Stages : history'[s] = history[s] \cup
              {i \in {image'[s]} : i # NoImage /\ s \in Remembered}
    BY <1>3 DEF Write, Restore, Remember, Running
  <2>2. image'["production"] \subseteq cleared
    <3>1. CASE Write(t)
      <4>1. job[t].image \in [Stages -> Contents]
        BY DEF TypeOK, Jobs
      <4>2. CASE job[t].stage = "production"
        <5>1. Deployed(t, job[t].image["production"]) \subseteq cleared
          BY <2>1, <4>2, DeployedCleared DEF Traced
        <5> QED
          BY <3>1, <4>1, <4>2, <5>1 DEF Write, Stages
      <4>3. CASE job[t].stage # "production"
        BY <3>1, <4>1, <4>3 DEF Write, Traced, Stages
      <4> QED
        BY <4>2, <4>3
    <3>2. CASE Restore(t)
      BY <3>2, <2>1 DEF Restore, Traced, TypeOK, Jobs, Stages
    <3> QED
      BY <1>3, <3>1, <3>2
  <2>3. \A c \in history'["production"] : c \subseteq cleared
    BY <2>1, <2>2 DEF Traced, Stages
  <2>4. /\ job'[t].image["production"] = {} /\ job'[t].carried = {}
        /\ \A u \in Tasks : u # t => job'[u] = job[u] /\ pc'[u] = pc[u]
    BY <2>1, <1>2 DEF Apply, TypeOK
  <2> QED
    BY <1>1, <2>2, <2>3, <2>4 DEF Traced
<1>4. CASE Read(t)
  <2>1. /\ job'[t].image = image /\ job'[t].stage = job[t].stage
        /\ job'[t].carried = job[t].carried
    BY <1>4 DEF Read, Having, TypeOK
  <2> QED
    BY <1>1, <1>4, <2>1 DEF Read, Traced, TypeOK, Running, ghost
<1>5. CASE End(t) /\ UNCHANGED <<image, history>>
  <2>1. /\ job'[t].image["production"] = {} /\ pc'[t] = "idle"
        /\ \A u \in Tasks : u # t => job'[u] = job[u] /\ pc'[u] = pc[u]
    BY <1>5, <1>2 DEF End, NoJob, TypeOK
  <2> QED
    BY <1>1, <1>5, <2>1 DEF Traced, Running
<1>6. CASE /\ pc[t] \in Running
           /\ \E l \in Running : Goto(t, l)
           /\ UNCHANGED <<image, history>>
  BY <1>1, <1>6 DEF Goto, Traced, TypeOK
<1> QED
  BY <1>3, <1>4, <1>5, <1>6
     DEF Proceed, Check, Record, AutoUnfreeze, Finish, Fail, Running, ghost

LEMMA NextTraced == TInv /\ Traced /\ [Next]_vars => Traced'
<1>1. ASSUME Traced, UNCHANGED <<image, task, history, cleared>> PROVE Traced'
  BY <1>1 DEF Traced, task
<1>2. Govern \/ UNCHANGED vars => UNCHANGED <<image, task, history, cleared>>
  BY DEF Govern, Freeze, Unfreeze, SetPolicy, RecordAudit, vars, ghost
<1> QED
  BY <1>1, <1>2, StartTraced, ProceedTraced DEF Next

\* Whatever writers race, whatever they overwrite of each other and whatever a
\* promotion leaves next to what it carries, production only ever has member
\* images that passed promote_bp's gate as part of a content with enough
\* approvals and no rejection.
THEOREM OnlyAdmitted == Spec => []OnlyAdmittedInProduction
<1>1. Traced => OnlyAdmittedInProduction
  BY DEF Traced, OnlyAdmittedInProduction
<1> QED
  BY <1>1, TInvHolds, InitTraced, NextTraced, PTL DEF Spec

-----------------------------------------------------------------------------
(***************************************************************************)
(* Verdicts.  The record at the head of an auditor's sign-offs exists and  *)
(* is the auditor's last word; it is stated with the witness, because the  *)
(* CHOOSE of Newest needs to know that there is one.                       *)
(***************************************************************************)
IsNewest(n, i, a) ==
    n \in By(i, a) /\ \A m \in By(i, a) : n <= m

Remembers(i, a) ==
    IF By(i, a) = {} THEN lastWord[i][a] = "none"
    ELSE \E n \in By(i, a) : /\ IsNewest(n, i, a)
                             /\ audits[i][n].verdict = lastWord[i][a]

WInv == \A i \in Images, a \in Auditors : Remembers(i, a)

LEMMA InitWInv == Init => WInv
  BY DEF Init, WInv, Remembers, By

\* A new sign-off goes in front of the others and moves them by one.
LEMMA RecordKeepsWInv ==
  ASSUME TInv, WInv, NEW w \in Auditors, NEW v \in {"approve", "reject"},
         RecordAudit(w, v)
  PROVE  WInv'
<1> SUFFICES ASSUME NEW i \in Images, NEW a \in Auditors PROVE Remembers(i, a)'
  BY DEF WInv
<1>. DEFINE r == [who |-> w, verdict |-> v]
<1>. TypeOK /\ Remembers(i, a)
  BY DEF TInv, WInv
<1>1. CASE i # frozen
  <2>1. audits'[i] = audits[i] /\ lastWord'[i] = lastWord[i]
    BY <1>1 DEF RecordAudit, TypeOK
  <2> QED
    BY <2>1 DEF Remembers, IsNewest, By
<1>2. CASE i = frozen
  <2>. DEFINE q == audits[i]
  <2>1. q \in Seq(SignOffs) /\ r \in SignOffs /\ audits'[i] = <<r>> \o q
    BY <1>2 DEF RecordAudit, TypeOK, SignOffs
  <2>2. lastWord'[i][w] = v /\ (a # w => lastWord'[i][a] = lastWord[i][a])
    BY <1>2 DEF RecordAudit, TypeOK
  <2>3. /\ DOMAIN (<<r>> \o q) = 1 .. Len(q) + 1
        /\ (<<r>> \o q)[1] = r
        /\ \A n \in 1 .. Len(q) : (<<r>> \o q)[n + 1] = q[n]
    BY <2>1
  <2>4. DOMAIN q = 1 .. Len(q) /\ Len(q) \in Nat
    BY <2>1
  <2>5. CASE a = w
    <3>1. 1 \in By(i, a)' /\ \A m \in By(i, a)' : 1 <= m
      BY <2>1, <2>3, <2>4, <2>5 DEF By
    <3>2. audits'[i][1].verdict = v
      BY <2>1, <2>3
    <3> QED
      BY <2>2, <2>5, <3>1, <3>2 DEF Remembers, IsNewest
  <2>6. CASE a # w
    <3>1. \A n \in By(i, a) : n + 1 \in By(i, a)'
      <4> SUFFICES ASSUME NEW n \in By(i, a) PROVE n + 1 \in By(i, a)'
        OBVIOUS
      <4>1. n \in 1 .. Len(q) /\ q[n].who = a
        BY <2>4 DEF By
      <4>2. n + 1 \in 1 .. Len(q) + 1 /\ (<<r>> \o q)[n + 1] = q[n]
        BY <2>3, <2>4, <4>1
      <4>3. n + 1 \in DOMAIN audits'[i] /\ audits'[i][n + 1].who = a
        BY <2>1, <2>3, <4>1, <4>2
      <4> QED
        BY <4>3 DEF By
    <3>2. \A m \in By(i, a)' : m - 1 \in By(i, a) /\ m \in Nat
      <4> SUFFICES ASSUME NEW m \in By(i, a)'
                   PROVE  m - 1 \in By(i, a) /\ m \in Nat
        OBVIOUS
      <4>1. m \in 1 .. Len(q) + 1 /\ (<<r>> \o q)[m].who = a
        BY <2>1, <2>3 DEF By
      <4>2. m # 1
        BY <2>3, <2>6, <4>1
      <4>3. m - 1 \in 1 .. Len(q) /\ (<<r>> \o q)[(m - 1) + 1] = q[m - 1]
        BY <2>3, <2>4, <4>1, <4>2
      <4>4. (m - 1) + 1 = m
        BY <4>1
      <4> QED
        BY <2>4, <4>1, <4>3, <4>4 DEF By
    <3>3. CASE By(i, a) = {}
      BY <2>2, <2>6, <3>2, <3>3 DEF Remembers
    <3>4. CASE By(i, a) # {}
      <4>1. PICK n \in By(i, a) :
               IsNewest(n, i, a) /\ audits[i][n].verdict = lastWord[i][a]
        BY <3>4 DEF Remembers
      <4>2. n \in 1 .. Len(q)
        BY <2>4 DEF By
      <4>3. \A m \in By(i, a)' : n + 1 <= m
        BY <3>2, <4>1, <4>2, <2>4 DEF IsNewest
      <4>4. audits'[i][n + 1].verdict = lastWord'[i][a]
        BY <2>1, <2>2, <2>3, <2>6, <4>1, <4>2
      <4>5. n + 1 \in By(i, a)' /\ IsNewest(n + 1, i, a)'
        BY <3>1, <4>3 DEF IsNewest
      <4> QED
        BY <4>4, <4>5 DEF Remembers
    <3> QED
      BY <3>3, <3>4
  <2> QED
    BY <2>5, <2>6
<1> QED
  BY <1>1, <1>2

LEMMA NextWInv ==
  ASSUME "single" \notin Kinds, TInv, WInv, [Next]_vars
  PROVE  WInv'
<1>. KindsOK
  BY DEF TInv
<1>1. ASSUME UNCHANGED <<audits, lastWord>> PROVE WInv'
  BY <1>1 DEF WInv, Remembers, IsNewest, By
<1>2. CASE Govern
  <2>1. CASE \E a \in Auditors, v \in {"approve", "reject"} : RecordAudit(a, v)
    BY <2>1, RecordKeepsWInv
  <2>2. CASE ~ \E a \in Auditors, v \in {"approve", "reject"} : RecordAudit(a, v)
    BY <1>1, <1>2, <2>2 DEF Govern, Freeze, Unfreeze, SetPolicy, ghost
  <2> QED
    BY <2>1, <2>2
<1>3. ASSUME NEW t \in Tasks, Start(t) PROVE WInv'
  BY <1>1, <1>3, StartBegins DEF Begin, gate, TInv
<1>4. ASSUME NEW t \in Tasks, Proceed(t) PROVE WInv'
  <2>1. CASE Write(t)
    <3>1. Written(t) = GateNow
      BY <2>1 DEF Write, Written, KindsOK, Running
    <3> QED
      BY <1>1, <2>1, <3>1 DEF Write, GateNow
  <2>2. CASE ~ Write(t)
    BY <1>1, <1>4, <2>2
       DEF Proceed, Check, Read, Restore, Record, AutoUnfreeze, Finish, Fail,
           gate, ghost
  <2> QED
    BY <2>1, <2>2
<1>5. CASE UNCHANGED vars
  BY <1>1, <1>5 DEF vars, gate, ghost
<1> QED
  BY <1>2, <1>3, <1>4, <1>5 DEF Next

LEMMA WInvCounts == TypeOK /\ WInv => LastWordCounts
<1> SUFFICES ASSUME TypeOK, WInv, NEW i \in Images, NEW a \in Auditors
             PROVE  Verdict(i, a) = lastWord[i][a]
  BY DEF LastWordCounts
<1>1. CASE By(i, a) = {}
  BY <1>1 DEF WInv, Remembers, Verdict
<1>2. CASE By(i, a) # {}
  <2>1. PICK n \in By(i, a) :
           IsNewest(n, i, a) /\ audits[i][n].verdict = lastWord[i][a]
    BY <1>2 DEF WInv, Remembers
  <2>2. By(i, a) \subseteq Nat
    BY DEF By, TypeOK
  <2>3. Newest(i, a) \in By(i, a) /\ \A m \in By(i, a) : Newest(i, a) <= m
    BY <2>1 DEF Newest, IsNewest
  <2>4. Newest(i, a) = n
    BY <2>1, <2>2, <2>3 DEF IsNewest
  <2> QED
    BY <1>2, <2>1, <2>4 DEF Verdict
<1> QED
  BY <1>1, <1>2

\* As long as nothing deploys a single automation (deploy_automation writes
\* back the sign-offs it read), the verdict the gate counts for an auditor is
\* the one the auditor gave last, whatever other writers race.
THEOREM LatestVerdict ==
  ASSUME "single" \notin Kinds
  PROVE  Spec => []LastWordCounts
<1>1. TInv /\ WInv => LastWordCounts
  BY WInvCounts DEF TInv
<1>2. TInv /\ WInv /\ [Next]_vars => WInv'
  BY NextWInv
<1> QED
  BY <1>1, <1>2, TInvHolds, InitWInv, PTL DEF Spec

=============================================================================
