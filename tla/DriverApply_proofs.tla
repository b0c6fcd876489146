-------------------------- MODULE DriverApply_proofs --------------------------
(***************************************************************************)
(* What holds of DriverApply for any number of workspaces, processes,      *)
(* pushes and failures.                                                    *)
(***************************************************************************)
EXTENDS DriverApply, TLAPS

(* The record *)

LEMMA FirstOf ==
  ASSUME NEW S \in SUBSET Slots, S # {}
  PROVE  First(S) \in S
<1>0. PICK x : x \in S  OBVIOUS
<1>1. \E s \in S : \A t \in S : s <= t
  <2>1. CASE 1 \in S  BY <2>1 DEF Slots
  <2>2. CASE 1 \notin S /\ 2 \in S  BY <2>2 DEF Slots
  <2>3. CASE 1 \notin S /\ 2 \notin S
    <3>1. \A t \in S : t = 3  BY <2>3 DEF Slots
    <3> QED BY <3>1, <1>0
  <2> QED BY <2>1, <2>2, <2>3
<1> QED BY <1>1 DEF First

LEMMA DrSlotOf ==
  ASSUME NEW y \in Records
  PROVE  /\ DrSlot(y) \in 0..3
         /\ DrSlot(y) # 0 => DrSlot(y) \in Slots \ {y.live} /\ y.wire[DrSlot(y)] = OtherDb(y.db)
         /\ DrSlot(y) = 0 <=> \A s \in Slots \ {y.live} : y.wire[s] # OtherDb(y.db)
<1>1. OnStandby(y) \in SUBSET Slots  BY DEF OnStandby
<1>2. CASE OnStandby(y) = {}
  BY <1>2 DEF DrSlot, OnStandby
<1>3. CASE OnStandby(y) # {}
  <2>1. First(OnStandby(y)) \in OnStandby(y)  BY <1>1, <1>3, FirstOf
  <2>2. DrSlot(y) = First(OnStandby(y))  BY <1>3 DEF DrSlot
  <2> QED BY <2>1, <2>2, <1>3 DEF OnStandby, Slots
<1> QED BY <1>2, <1>3

LEMMA UpstreamOf ==
  ASSUME NEW y \in Records, NEW h
  PROVE  Upstream(y, h) \in 0..3 /\ (Upstream(y, h) # 0 => Upstream(y, h) \in Declared(y))
BY DrSlotOf DEF Upstream, Declared, Records, Slots

LEMMA RoleOf == ASSUME NEW y, NEW t PROVE Role(y, t) \in Roles
BY DEF Role, Roles

LEMMA StagedType ==
  ASSUME NEW y \in Records, Idle(y) # {}
  PROVE  Staged(y) \in Records /\ First(Idle(y)) \in Idle(y)
<1>1. First(Idle(y)) \in Idle(y)  BY FirstOf DEF Idle
<1>2. y.db \in 0..2  BY DEF Records
<1> QED BY <1>1, <1>2 DEF Staged, Records, Idle

LEMMA PromotedType ==
  ASSUME NEW y \in Records, NEW t \in Slots
  PROVE  Promoted(y, t) \in Records
<1> DEFINE W == [s \in Slots |-> IF (s = y.live /\ s # t) \/ y.wire[s] = 0 THEN 0
                                 ELSE IF s = t THEN y.db ELSE y.wire[s]]
<1>1. W \in [Slots -> 0..2]  BY DEF Records
<1>2. Promoted(y, t) = [y EXCEPT !.live = t, !.wire = W]  BY DEF Promoted, Records
<1> QED BY <1>1, <1>2 DEF Records

LEMMA SwappedType ==
  ASSUME NEW y \in Records, DrSlot(y) # 0
  PROVE  Swapped(y) \in Records
<1>1. DrSlot(y) \in Slots  BY DrSlotOf
<1>2. OtherDb(y.db) \in 1..2  BY DEF OtherDb, Records
<1> QED BY <1>1, <1>2 DEF Swapped, Records

LEMMA FreshType == ASSUME NEW on \in BOOLEAN PROVE Fresh(on) \in Records
<1>1. [s \in Slots |-> IF s = 3 THEN 0 ELSE s] \in [Slots -> 0..2]
  BY DEF Slots
<1> QED BY <1>1 DEF Fresh, Records, Slots

-----------------------------------------------------------------------------
(* Types *)

LEMMA DeployedType == ASSUME NEW y \in Records PROVE Deployed(y) \in [Slots -> Containers]
<1> SUFFICES ASSUME NEW t \in Slots
             PROVE  (IF t \in Declared(y)
                     THEN [db |-> y.wire[t], role |-> Role(y, t), ver |-> y.ver,
                           att |-> TRUE, certs |-> TRUE] ELSE Gone) \in Containers
  BY DEF Deployed
<1>1. y.wire[t] \in 0..2 /\ y.ver \in 1..2  BY DEF Records
<1>2. Role(y, t) \in Roles  BY RoleOf
<1>3. Gone \in Containers  BY DEF Gone, Containers, Roles
<1> QED BY <1>1, <1>2, <1>3 DEF Containers

LEMMA InitType == Init => TypeOK
<1> SUFFICES ASSUME Init PROVE TypeOK  OBVIOUS
<1> USE BoundsAssumption
<1>1. yaml \in [Slices -> Records]
  BY FreshType DEF Init
<1>2. \A s \in Slices : Deployed(yaml[s]) \in [Slots -> Containers]
  BY <1>1, DeployedType
<1>3. app \in [Slices -> [Slots -> Containers]]  BY <1>2 DEF Init
<1>4. gw \in [Slices -> [Slots -> 0..2]]  BY DEF Init
<1>5. \A p \in Places : Upstream(yaml[p[1]], p[2]) \in 0..3
  BY <1>1, UpstreamOf DEF Places
<1>6. sub \in [Places -> 0..3] /\ rec = sub /\ plat \subseteq Places /\ tagged = plat
  BY <1>5 DEF Init
<1>7. apply \in [Applies -> [slice : Slices, y : Records, at : Phases]]
  <2> DEFINE y == Fresh(FALSE)
  <2>1. y \in Records  BY FreshType
  <2>2. PICK s \in Slices : apply = [a \in Applies |-> [slice |-> s, y |-> y, at |-> "none"]]
    BY DEF Init
  <2>3. "none" \in Phases  BY DEF Phases
  <2> HIDE DEF y
  <2> QED BY <2>1, <2>2, <2>3
<1>8. promo \in [Slices -> [at : {"idle", "begun", "staging"}, slot : Slots,
                           push : 0..MaxPushes]]
  BY DEF Init, Slots
<1>9. /\ moved \in [Applies -> SUBSET Slots] /\ fresh \in [Applies -> SUBSET Slots]
      /\ lock \in [Workspaces -> 0..MaxPushes] /\ ops \in 0..MaxOps
      /\ pushes \in 0..MaxPushes /\ faults \in 0..MaxFaults
      /\ broken \subseteq Slices /\ warned \subseteq Slices
      /\ req \in [Applies -> {"none", "upsert", "prune"}]
      /\ todo \in [Applies -> SUBSET Places] /\ half \in [Applies -> SUBSET Places]
  BY DEF Init
<1> QED BY <1>1, <1>3, <1>4, <1>6, <1>7, <1>8, <1>9 DEF TypeOK

\* Each step of gitops.
LEMMA GitopsType == ASSUME TypeOK, NEW s \in Slices, Gitops(s) PROVE TypeOK'
<1> USE BoundsAssumption
<1>0. yaml[s] \in Records  BY DEF TypeOK
<1>p. promo \in [Slices -> [at : {"idle", "begun", "staging"}, slot : Slots,
                           push : 0..MaxPushes]]
  BY DEF TypeOK
<1>1. CASE Push(s)
  <2>1. pushes' \in Applies  BY <1>1 DEF Push, Pushed, TypeOK, Applies
  <2> QED BY <1>0, <1>1, <2>1 DEF Push, Pushed, TypeOK, Phases, gitops, hook, boxes, ingress, request, trouble
<1>2. CASE Deploy(s)
  <2> DEFINE v == IF yaml[s].ver = 1 THEN 2 ELSE 1
  <2>0. v \in 1..2  OBVIOUS
  <2>1. [yaml[s] EXCEPT !.on = TRUE, !.ver = v] \in Records
    <3> HIDE DEF v
    <3> QED BY <1>0, <2>0 DEF Records
  <2>2. yaml' \in [Slices -> Records]  BY <1>2, <2>1 DEF Deploy, TypeOK
  <2> QED BY <1>2, <2>2 DEF Deploy, Operation, TypeOK, gitops, hook, boxes, ingress, request, trouble
<1>3. CASE Remove(s)
  <2>1. [yaml[s] EXCEPT !.on = FALSE] \in Records  BY <1>0 DEF Records
  <2>2. yaml' \in [Slices -> Records]  BY <1>3, <2>1 DEF Remove, TypeOK
  <2> QED BY <1>3, <2>2 DEF Remove, Operation, TypeOK, gitops, hook, boxes, ingress, request, trouble
<1>4. CASE SetPosture(s)
  <2>1. [yaml[s] EXCEPT !.fw = IF @ = 1 THEN 2 ELSE 1] \in Records  BY <1>0 DEF Records
  <2>2. yaml' \in [Slices -> Records]  BY <1>4, <2>1 DEF SetPosture, TypeOK
  <2> QED BY <1>4, <2>2 DEF SetPosture, Operation, TypeOK, gitops, hook, boxes, ingress, request, trouble
<1>5. CASE SwapDr(s)
  <2>1. Swapped(yaml[s]) \in Records  BY <1>0, <1>5, SwappedType DEF SwapDr
  <2>2. yaml' \in [Slices -> Records]  BY <1>5, <2>1 DEF SwapDr, TypeOK
  <2> QED BY <1>5, <2>2 DEF SwapDr, Operation, TypeOK, gitops, hook, boxes, ingress, request, trouble
<1>6. CASE BeginPromote(s)
  <2>1. Staged(yaml[s]) \in Records /\ First(Idle(yaml[s])) \in Slots
    BY <1>0, <1>6, StagedType DEF BeginPromote, Idle
  <2>2. yaml' \in [Slices -> Records]  BY <1>6, <2>1 DEF BeginPromote, TypeOK
  <2>3. promo' \in [Slices -> [at : {"idle", "begun", "staging"}, slot : Slots,
                              push : 0..MaxPushes]]
    BY <1>6, <2>1 DEF BeginPromote, TypeOK
  <2> QED BY <1>6, <2>2, <2>3 DEF BeginPromote, Operation, TypeOK, gitops, hook, boxes, ingress, request, trouble
<1>7. CASE PushStaged(s)
  <2>1. pushes' \in Applies  BY <1>7 DEF PushStaged, Pushed, TypeOK, Applies
  <2>2. promo' \in [Slices -> [at : {"idle", "begun", "staging"}, slot : Slots,
                              push : 0..MaxPushes]]
    <3>1. pushes' \in 0..MaxPushes  BY <2>1 DEF Applies
    <3> QED BY <1>7, <1>p, <3>1 DEF PushStaged
  <2> QED BY <1>0, <1>7, <2>1, <2>2 DEF PushStaged, Pushed, TypeOK, Phases, gitops, hook, boxes, ingress, request, trouble
<1>8. CASE FinishPromote(s)
  <2>1. promo[s].slot \in Slots  BY DEF TypeOK
  <2>2. Promoted(yaml[s], promo[s].slot) \in Records  BY <1>0, <2>1, PromotedType
  <2>3. yaml' \in [Slices -> Records]  BY <1>8, <2>2 DEF FinishPromote, TypeOK
  <2>4. promo' \in [Slices -> [at : {"idle", "begun", "staging"}, slot : Slots,
                              push : 0..MaxPushes]]
    BY <1>8, <1>p DEF FinishPromote
  <2> QED BY <1>8, <2>3, <2>4 DEF FinishPromote, TypeOK, gitops, hook, boxes, ingress, request, trouble
<1>9. CASE PromoteFails(s)
  <2>1. promo' \in [Slices -> [at : {"idle", "begun", "staging"}, slot : Slots,
                              push : 0..MaxPushes]]
    BY <1>9, <1>p DEF PromoteFails
  <2> QED BY <1>9, <2>1 DEF PromoteFails, TypeOK, gitops, hook, boxes, ingress, request, trouble
<1> QED BY <1>1, <1>2, <1>3, <1>4, <1>5, <1>6, <1>7, <1>8, <1>9 DEF Gitops

\* What the helpers of the hook leave the containers in.
LEMMA GatewaysType ==
  ASSUME TypeOK, NEW a \in Applies, NEW M \in SUBSET Slots, Gateways(a, M)
  PROVE  gw' \in [Slices -> [Slots -> 0..2]] /\ app' \in [Slices -> [Slots -> Containers]]
<1> DEFINE s == apply[a].slice
           G == [t \in Slots |-> IF t \in M THEN Y(a).fw ELSE gw[s][t]]
           B == [t \in Slots |-> IF t \in M THEN [app[s][t] EXCEPT !.att = FALSE]
                                 ELSE app[s][t]]
<1>1. s \in Slices /\ Y(a) \in Records  BY DEF TypeOK, Y
<1>2. Y(a).fw \in 0..2  BY <1>1 DEF Records
<1>3. G \in [Slots -> 0..2]  BY <1>1, <1>2 DEF TypeOK
<1>4. ASSUME NEW t \in Slots PROVE [app[s][t] EXCEPT !.att = FALSE] \in Containers
  <2>1. app[s][t] \in Containers  BY <1>1 DEF TypeOK
  <2> HIDE DEF s
  <2> QED BY <2>1 DEF Containers
<1>5. B \in [Slots -> Containers]  BY <1>1, <1>4 DEF TypeOK
<1>6. gw' = [gw EXCEPT ![s] = G] /\ app' = [app EXCEPT ![s] = B]
  BY <1>1 DEF Gateways, TypeOK
<1> HIDE DEF s, G, B
<1> QED BY <1>1, <1>3, <1>5, <1>6 DEF TypeOK

LEMMA WorkersType ==
  ASSUME TypeOK, NEW a \in Applies, NEW W \in SUBSET Slots, Workers(a, W)
  PROVE  app' \in [Slices -> [Slots -> Containers]]
<1> DEFINE s == apply[a].slice
           N(t) == [db |-> Y(a).wire[t], role |-> Role(Y(a), t), ver |-> Y(a).ver,
                    att |-> TRUE, certs |-> FALSE]
           B == [t \in Slots |-> IF t \in W THEN N(t) ELSE app[s][t]]
<1>1. s \in Slices /\ Y(a) \in Records  BY DEF TypeOK, Y
<1>2. ASSUME NEW t \in Slots PROVE N(t) \in Containers
  <2>1. Y(a).wire[t] \in 0..2 /\ Y(a).ver \in 1..2  BY <1>1 DEF Records
  <2>2. Role(Y(a), t) \in Roles  BY RoleOf
  <2> QED BY <2>1, <2>2 DEF Containers
<1> HIDE DEF N
<1>3. B \in [Slots -> Containers]  BY <1>1, <1>2 DEF TypeOK
<1>4. app' = [app EXCEPT ![s] = B]  BY <1>1 DEF Workers, TypeOK, N
<1> HIDE DEF s, B
<1> QED BY <1>1, <1>3, <1>4 DEF TypeOK

LEMMA CertifiedType ==
  ASSUME TypeOK, NEW a \in Applies, NEW C \in SUBSET Slots, Certified(a, C)
  PROVE  app' \in [Slices -> [Slots -> Containers]]
<1> DEFINE s == apply[a].slice
           B == [t \in Slots |-> IF t \in C THEN [app[s][t] EXCEPT !.certs = TRUE]
                                 ELSE app[s][t]]
<1>1. s \in Slices  BY DEF TypeOK
<1>2. ASSUME NEW t \in Slots PROVE [app[s][t] EXCEPT !.certs = TRUE] \in Containers
  <2>1. app[s][t] \in Containers  BY <1>1 DEF TypeOK
  <2> HIDE DEF s
  <2> QED BY <2>1 DEF Containers
<1>3. B \in [Slots -> Containers]  BY <1>1, <1>2 DEF TypeOK
<1>4. app' = [app EXCEPT ![s] = B]  BY <1>1 DEF Certified, TypeOK
<1> HIDE DEF s, B
<1> QED BY <1>1, <1>3, <1>4 DEF TypeOK

LEMMA RetiredType ==
  ASSUME TypeOK, NEW a \in Applies, NEW D \in SUBSET Slots, Retired(a, D)
  PROVE  gw' \in [Slices -> [Slots -> 0..2]] /\ app' \in [Slices -> [Slots -> Containers]]
<1> DEFINE s == apply[a].slice
           G == [t \in Slots |-> IF t \in D THEN 0 ELSE gw[s][t]]
           B == [t \in Slots |-> IF t \in D THEN Gone ELSE app[s][t]]
<1>1. s \in Slices  BY DEF TypeOK
<1>2. Gone \in Containers  BY DEF Gone, Containers, Roles
<1>3. G \in [Slots -> 0..2] /\ B \in [Slots -> Containers]  BY <1>1, <1>2 DEF TypeOK
<1>4. gw' = [gw EXCEPT ![s] = G] /\ app' = [app EXCEPT ![s] = B]
  BY <1>1 DEF Retired, TypeOK
<1> HIDE DEF s, G, B
<1> QED BY <1>1, <1>3, <1>4 DEF TypeOK

\* What a step that only moves its own hook on leaves of the types.
LEMMA GoesType ==
  ASSUME TypeOK, NEW a \in Applies, NEW to \in Phases, Goes(a, to)
  PROVE  apply' \in [Applies -> [slice : Slices, y : Records, at : Phases]]
BY DEF Goes, TypeOK

LEMMA ReleasesType ==
  ASSUME TypeOK, NEW a \in Applies, Releases(a)
  PROVE  lock' \in [Workspaces -> 0..MaxPushes]
<1>1. 0 \in 0..MaxPushes  BY BoundsAssumption
<1>2. lock \in [Workspaces -> 0..MaxPushes]  BY DEF TypeOK
<1> QED BY <1>1, <1>2 DEF Releases

LEMMA WarnedType ==
  ASSUME TypeOK, NEW a \in Applies
  PROVE  apply[a].slice \in Slices /\ Y(a) \in Records /\ Ws(a) \in Workspaces
BY DEF TypeOK, Y, Ws, Workspaces

LEMMA FaultType == ASSUME TypeOK, Fault PROVE faults' \in 0..MaxFaults
BY BoundsAssumption DEF TypeOK, Fault

\* Each step of a hook.
LEMMA HookType == ASSUME TypeOK, NEW a \in Applies, Hook(a) PROVE TypeOK'
<1> DEFINE ApplyOK == apply' \in [Applies -> [slice : Slices, y : Records, at : Phases]]
           LockOK  == lock' \in [Workspaces -> 0..MaxPushes]
           GwOK    == gw' \in [Slices -> [Slots -> 0..2]]
           AppOK   == app' \in [Slices -> [Slots -> Containers]]
<1>p. {"up", "workers", "provision", "health", "calling", "retire", "done", "failed"}
        \subseteq Phases
  BY DEF Phases
<1>w. apply[a].slice \in Slices /\ Y(a) \in Records /\ Ws(a) \in Workspaces
  BY WarnedType
<1>1. CASE Lock(a)
  <2>1. ApplyOK  BY <1>1, <1>p, GoesType DEF Lock
  <2>2. a \in 0..MaxPushes  BY BoundsAssumption DEF Applies
  <2>3. LockOK  BY <1>1, <2>2 DEF Lock, TypeOK
  <2> QED BY <1>1, <2>1, <2>3 DEF Lock, TypeOK, gitops, hook, boxes, ingress, request, trouble
<1>2. CASE LockTimeout(a)
  <2>1. ApplyOK  BY <1>2, <1>p, GoesType DEF LockTimeout
  <2> QED BY <1>2, <2>1 DEF LockTimeout, TypeOK, gitops, hook, boxes, ingress, request, trouble
<1>3. CASE Up(a)
  <2>1. ApplyOK  BY <1>3, <1>p, GoesType DEF Up
  <2>2. Moving(a) \in SUBSET Slots  BY DEF Moving, Declared
  <2>3. GwOK /\ AppOK  BY <1>3, <2>2, GatewaysType DEF Up
  <2>4. moved' \in [Applies -> SUBSET Slots]  BY <1>3, <2>2 DEF Up, TypeOK
  <2> QED BY <1>3, <2>1, <2>3, <2>4 DEF Up, TypeOK, gitops, ingress, request, trouble
<1>4. CASE Create(a)
  <2>1. ApplyOK  BY <1>4, <1>p, GoesType DEF Create
  <2>2. Stale(a) \in SUBSET Slots  BY DEF Stale, Declared
  <2>3. AppOK  BY <1>4, <2>2, WorkersType DEF Create
  <2>4. fresh' \in [Applies -> SUBSET Slots]  BY <1>4, <2>2 DEF Create, TypeOK
  <2> QED BY <1>4, <2>1, <2>3, <2>4 DEF Create, TypeOK, gitops, ingress, request, trouble
<1>5. CASE Provision(a)
  <2>1. ApplyOK  BY <1>5, <1>p, GoesType DEF Provision
  <2>2. fresh[a] \in SUBSET Slots  BY DEF TypeOK
  <2>3. AppOK  BY <1>5, <2>2, CertifiedType DEF Provision
  <2> QED BY <1>5, <2>1, <2>3 DEF Provision, TypeOK, gitops, hook, ingress, request, trouble
<1>6. CASE CertsFail(a)
  <2>1. ApplyOK  BY <1>6, <1>p, GoesType DEF CertsFail
  <2>2. fresh[a] \in SUBSET Slots  BY DEF TypeOK
  <2>3. PICK C \in SUBSET fresh[a] : Certified(a, C)  BY <1>6 DEF CertsFail
  <2>4. AppOK  BY <2>2, <2>3, CertifiedType
  <2>5. faults' \in 0..MaxFaults  BY <1>6, FaultType DEF CertsFail
  <2>6. broken' \subseteq Slices  BY <1>6, <1>w DEF CertsFail, TypeOK
  <2> QED BY <1>6, <2>1, <2>4, <2>5, <2>6
          DEF CertsFail, TypeOK, gitops, hook, ingress, request, trouble
<1>7. CASE Call(a)
  <2>1. ApplyOK  BY <1>7, <1>p, GoesType DEF Call
  <2>2. {apply[a].slice} \X Routed(Y(a)) \subseteq Places  BY <1>w DEF Places, Routed
  <2>3. todo' \in [Applies -> SUBSET Places]  BY <1>7, <2>2 DEF Call, TypeOK
  <2>4. req' \in [Applies -> {"none", "upsert", "prune"}]  BY <1>7 DEF Call, TypeOK
  <2> QED BY <1>7, <2>1, <2>3, <2>4 DEF Call, TypeOK, gitops, hook, boxes, ingress, trouble
<1>8. CASE Retire(a)
  <2>1. ApplyOK  BY <1>8, <1>p, GoesType DEF Retire
  <2>2. LockOK  BY <1>8, ReleasesType DEF Retire
  <2>3. GwOK /\ AppOK  BY <1>8, RetiredType DEF Retire
  <2> QED BY <1>8, <2>1, <2>2, <2>3 DEF Retire, TypeOK, gitops, hook, ingress, request, trouble
<1>9. CASE UpFails(a) \/ CreateFails(a) \/ ProvisionFails(a)
  <2>1. Fails(a)  BY <1>9 DEF UpFails, CreateFails, ProvisionFails
  <2>2. ApplyOK  BY <2>1, <1>p, GoesType DEF Fails
  <2>3. LockOK  BY <2>1, ReleasesType DEF Fails
  <2>4. faults' \in 0..MaxFaults  BY <2>1, FaultType DEF Fails
  <2>5. broken' \subseteq Slices  BY <2>1, <1>w DEF Fails, TypeOK
  <2>6. GwOK /\ AppOK
    <3>1. CASE UpFails(a)
      <4>1. PICK M \in SUBSET Moving(a) : Gateways(a, M)  BY <3>1 DEF UpFails
      <4>2. M \in SUBSET Slots  BY <4>1 DEF Moving, Declared
      <4> QED BY <4>1, <4>2, GatewaysType
    <3>2. CASE CreateFails(a)
      <4>1. PICK W \in SUBSET Stale(a) : Workers(a, W)  BY <3>2 DEF CreateFails
      <4>2. W \in SUBSET Slots  BY <4>1 DEF Stale, Declared
      <4>3. gw' = gw  BY <3>2 DEF CreateFails
      <4> QED BY <4>1, <4>2, <4>3, WorkersType DEF TypeOK
    <3>3. CASE ProvisionFails(a)
      BY <3>3 DEF ProvisionFails, TypeOK, boxes
    <3> QED BY <1>9, <3>1, <3>2, <3>3
  <2> QED BY <2>1, <2>2, <2>3, <2>4, <2>5, <2>6
          DEF Fails, TypeOK, gitops, hook, ingress, request
<1>10. CASE RetireFails(a)
  <2>1. ApplyOK  BY <1>10, <1>p, GoesType DEF RetireFails
  <2>2. LockOK  BY <1>10, ReleasesType DEF RetireFails
  <2>3. PICK D \in SUBSET (Slots \ Declared(Y(a))) : Retired(a, D)  BY <1>10 DEF RetireFails
  <2>4. GwOK /\ AppOK  BY <2>3, RetiredType
  <2>5. faults' \in 0..MaxFaults  BY <1>10, FaultType DEF RetireFails
  <2>6. broken' \subseteq Slices  BY <1>10, <1>w DEF RetireFails, TypeOK
  <2> QED BY <1>10, <2>1, <2>2, <2>4, <2>5, <2>6
          DEF RetireFails, TypeOK, gitops, hook, ingress, request
<1>11. CASE CallTimeout(a)
  <2>1. ApplyOK  BY <1>11, <1>p, GoesType DEF CallTimeout
  <2>2. LockOK  BY <1>11, ReleasesType DEF CallTimeout
  <2>3. faults' \in 0..MaxFaults  BY <1>11, FaultType DEF CallTimeout
  <2>4. warned' \subseteq Slices  BY <1>11, <1>w DEF CallTimeout, TypeOK
  <2> QED BY <1>11, <2>1, <2>2, <2>3, <2>4
          DEF CallTimeout, TypeOK, gitops, hook, boxes, ingress, request
<1> QED BY <1>1, <1>2, <1>3, <1>4, <1>5, <1>6, <1>7, <1>8, <1>9, <1>10, <1>11 DEF Hook

\* Each step of the daemon.
LEMMA PlaceType ==
  ASSUME TypeOK, NEW a \in Applies, NEW p \in Places
  PROVE  /\ Want(a, p) \in 0..3
         /\ [sub EXCEPT ![p] = Want(a, p)] \in [Places -> 0..3]
         /\ [rec EXCEPT ![p] = Want(a, p)] \in [Places -> 0..3]
         /\ [rec EXCEPT ![p] = 0] \in [Places -> 0..3]
<1>1. Y(a) \in Records  BY WarnedType
<1>2. Want(a, p) \in 0..3  BY <1>1, UpstreamOf DEF Want
<1> QED BY <1>2 DEF TypeOK

LEMMA TodoType ==
  ASSUME TypeOK, NEW a \in Applies, NEW p \in Places
  PROVE  /\ Less(a, p) => todo' \in [Applies -> SUBSET Places]
         /\ Half(a, {p}) \/ Half(a, {}) => half' \in [Applies -> SUBSET Places]
<1>1. todo \in [Applies -> SUBSET Places] /\ half \in [Applies -> SUBSET Places]
  BY DEF TypeOK
<1>2. todo[a] \ {p} \in SUBSET Places /\ {p} \in SUBSET Places /\ {} \in SUBSET Places
  BY <1>1
<1> QED BY <1>1, <1>2 DEF Less, Half

LEMMA DaemonType == ASSUME TypeOK, NEW a \in Applies, Daemon(a) PROVE TypeOK'
<1> DEFINE At7(p) == \/ Skip(a, p) \/ Write(a, p) \/ Record(a, p)
                     \/ Unroute(a, p) \/ Forget(a, p)
                     \/ WriteFails(a, p) \/ UnrouteFails(a, p)
<1>w. apply[a].slice \in Slices /\ Y(a) \in Records  BY WarnedType
<1>1. CASE List(a)
  <2>1. req' \in [Applies -> {"none", "upsert", "prune"}]  BY <1>1 DEF List, TypeOK
  <2>2. Managed(a) \in SUBSET Places  BY DEF Managed, TypeOK
  <2>3. todo' \in [Applies -> SUBSET Places]  BY <1>1, <2>2 DEF List, TypeOK
  <2> QED BY <1>1, <2>1, <2>3 DEF List, TypeOK, gitops, hook, boxes, ingress, trouble
<1>2. CASE Answer(a)
  <2>1. req' \in [Applies -> {"none", "upsert", "prune"}]  BY <1>2 DEF Answer, TypeOK
  <2>2. "retire" \in Phases  BY DEF Phases
  <2>3. apply' \in [Applies -> [slice : Slices, y : Records, at : Phases]]
    BY <1>2, <2>2, GoesType DEF Answer, TypeOK
  <2> QED BY <1>2, <2>1, <2>3 DEF Answer, TypeOK, gitops, hook, boxes, ingress, trouble
<1>3. ASSUME NEW p \in Places, At7(p) PROVE TypeOK'
  <2>1. CASE Skip(a, p)
    <3>1. todo' \in [Applies -> SUBSET Places]  BY <2>1, TodoType DEF Skip
    <3> QED BY <2>1, <3>1 DEF Skip, TypeOK, gitops, hook, boxes, ingress, trouble
  <2>2. CASE Write(a, p)
    <3>1. todo' \in [Applies -> SUBSET Places] /\ half' \in [Applies -> SUBSET Places]
      BY <2>2, TodoType DEF Write
    <3>2. sub' \in [Places -> 0..3]  BY <2>2, PlaceType DEF Write
    <3>3. plat' \subseteq Places  BY <2>2 DEF Write, TypeOK
    <3> QED BY <2>2, <3>1, <3>2, <3>3 DEF Write, TypeOK, gitops, hook, boxes, trouble
  <2>3. CASE Record(a, p)
    <3>1. half' \in [Applies -> SUBSET Places]  BY <2>3, TodoType DEF Record
    <3>2. rec' \in [Places -> 0..3]  BY <2>3, PlaceType DEF Record
    <3>3. tagged' \subseteq Places  BY <2>3 DEF Record, TypeOK
    <3> QED BY <2>3, <3>1, <3>2, <3>3 DEF Record, TypeOK, gitops, hook, boxes, trouble
  <2>4. CASE Unroute(a, p)
    <3>1. todo' \in [Applies -> SUBSET Places] /\ half' \in [Applies -> SUBSET Places]
      BY <2>4, TodoType DEF Unroute
    <3>2. plat' \subseteq Places  BY <2>4 DEF Unroute, TypeOK
    <3> QED BY <2>4, <3>1, <3>2 DEF Unroute, TypeOK, gitops, hook, boxes, trouble
  <2>5. CASE Forget(a, p)
    <3>1. half' \in [Applies -> SUBSET Places]  BY <2>5, TodoType DEF Forget
    <3>2. rec' \in [Places -> 0..3]  BY <2>5, PlaceType DEF Forget
    <3>3. tagged' \subseteq Places  BY <2>5 DEF Forget, TypeOK
    <3> QED BY <2>5, <3>1, <3>2, <3>3 DEF Forget, TypeOK, gitops, hook, boxes, trouble
  <2>6. CASE WriteFails(a, p)
    <3>1. todo' \in [Applies -> SUBSET Places]  BY <2>6, TodoType DEF WriteFails
    <3>2. sub' \in [Places -> 0..3]
      <4>1. sub' = sub \/ sub' = [sub EXCEPT ![p] = Want(a, p)]  BY <2>6 DEF WriteFails
      <4>2. CASE sub' = sub  BY <4>2 DEF TypeOK
      <4>3. CASE sub' = [sub EXCEPT ![p] = Want(a, p)]  BY <4>3, PlaceType
      <4> QED BY <4>1, <4>2, <4>3
    <3>3. faults' \in 0..MaxFaults  BY <2>6, FaultType DEF WriteFails, Warning
    <3>4. warned' \subseteq Slices  BY <2>6, <1>w DEF WriteFails, Warning, TypeOK
    <3> QED BY <2>6, <3>1, <3>2, <3>3, <3>4
            DEF WriteFails, Warning, TypeOK, gitops, hook, boxes
  <2>7. CASE UnrouteFails(a, p)
    <3>1. todo' \in [Applies -> SUBSET Places]  BY <2>7, TodoType DEF UnrouteFails
    <3>2. faults' \in 0..MaxFaults  BY <2>7, FaultType DEF UnrouteFails, Warning
    <3>3. warned' \subseteq Slices  BY <2>7, <1>w DEF UnrouteFails, Warning, TypeOK
    <3> QED BY <2>7, <3>1, <3>2, <3>3
            DEF UnrouteFails, Warning, TypeOK, gitops, hook, boxes, ingress
  <2> QED BY <1>3, <2>1, <2>2, <2>3, <2>4, <2>5, <2>6, <2>7
<1> QED BY <1>1, <1>2, <1>3 DEF Daemon

\* The restarts.
LEMMA RestartType ==
  ASSUME TypeOK,
         DaemonRestart \/ GitopsRestart \/ (\E w \in Workspaces : DriverRestart(w))
  PROVE  TypeOK'
<1>a. apply \in [Applies -> [slice : Slices, y : Records, at : Phases]]  BY DEF TypeOK
<1>f. ASSUME NEW S PROVE
        [a \in Applies |-> IF a \in S THEN [apply[a] EXCEPT !.at = "failed"] ELSE apply[a]]
          \in [Applies -> [slice : Slices, y : Records, at : Phases]]
  <2>1. "failed" \in Phases  BY DEF Phases
  <2> QED BY <1>a, <2>1
<1>s. ASSUME NEW S \in SUBSET Applies PROVE {apply[a].slice : a \in S} \subseteq Slices
  BY <1>a
<1>l. lock \in [Workspaces -> 0..MaxPushes] /\ 0 \in 0..MaxPushes
  BY BoundsAssumption DEF TypeOK
<1>1. CASE DaemonRestart
  <2> DEFINE served == {a \in Applies : req[a] # "none"}
             waiting == {a \in served : At(a, "calling")}
  <2>1. apply' = [a \in Applies |-> IF a \in waiting
                                   THEN [apply[a] EXCEPT !.at = "failed"] ELSE apply[a]]
    BY <1>1 DEF DaemonRestart
  <2>2. warned' = warned \cup {apply[a].slice : a \in served}  BY <1>1 DEF DaemonRestart
  <2>3. lock' = [w \in Workspaces |-> IF lock[w] \in waiting THEN 0 ELSE lock[w]]
    BY <1>1 DEF DaemonRestart
  <2>4. served \in SUBSET Applies  OBVIOUS
  <2> HIDE DEF served, waiting
  <2>5. apply' \in [Applies -> [slice : Slices, y : Records, at : Phases]]  BY <1>f, <2>1
  <2>6. {apply[a].slice : a \in served} \subseteq Slices  BY <1>s, <2>4
  <2>7. warned' \subseteq Slices  BY <2>2, <2>6 DEF TypeOK
  <2>8. lock' \in [Workspaces -> 0..MaxPushes]  BY <1>l, <2>3
  <2>9. faults' \in 0..MaxFaults  BY <1>1, FaultType DEF DaemonRestart
  <2>10. /\ req' \in [Applies -> {"none", "upsert", "prune"}]
         /\ todo' \in [Applies -> SUBSET Places] /\ half' \in [Applies -> SUBSET Places]
    BY <1>1 DEF DaemonRestart
  <2>11. /\ broken' = broken /\ pushes' = pushes
         /\ UNCHANGED <<gitops, hook, boxes, ingress>>
    BY <1>1 DEF DaemonRestart
  <2> QED BY <2>5, <2>7, <2>8, <2>9, <2>10, <2>11 DEF TypeOK, gitops, hook, boxes, ingress
<1>2. CASE GitopsRestart
  <2>1. promo' \in [Slices -> [at : {"idle", "begun", "staging"}, slot : Slots,
                              push : 0..MaxPushes]]
    <3>1. promo \in [Slices -> [at : {"idle", "begun", "staging"}, slot : Slots,
                               push : 0..MaxPushes]]
      BY DEF TypeOK
    <3>2. promo' = [t \in Slices |-> [promo[t] EXCEPT !.at = "idle"]]
      BY <1>2 DEF GitopsRestart
    <3> QED BY <3>1, <3>2
  <2>2. faults' \in 0..MaxFaults  BY <1>2, FaultType DEF GitopsRestart
  <2> QED BY <1>2, <2>1, <2>2 DEF GitopsRestart, TypeOK, hook, boxes, ingress, request
<1>3. ASSUME NEW w \in Workspaces, DriverRestart(w) PROVE TypeOK'
  <2> DEFINE B == {b \in Running(w) : ~At(b, "wait")}
             C == {b \in Running(w) : At(b, "calling")}
  <2>1. apply' = [a \in Applies |-> IF a \in Running(w)
                                   THEN [apply[a] EXCEPT !.at = "failed"] ELSE apply[a]]
    BY <1>3 DEF DriverRestart
  <2>2. /\ broken' = broken \cup {apply[a].slice : a \in B}
        /\ warned' = warned \cup {apply[a].slice : a \in C}
    BY <1>3 DEF DriverRestart
  <2>3. B \in SUBSET Applies /\ C \in SUBSET Applies  BY DEF Running
  <2>4. lock' = [lock EXCEPT ![w] = 0]  BY <1>3 DEF DriverRestart
  <2> HIDE DEF B, C
  <2>5. apply' \in [Applies -> [slice : Slices, y : Records, at : Phases]]  BY <1>f, <2>1
  <2>6. {apply[a].slice : a \in B} \subseteq Slices /\ {apply[a].slice : a \in C} \subseteq Slices
    BY <1>s, <2>3
  <2>7. warned' \subseteq Slices /\ broken' \subseteq Slices  BY <2>2, <2>6 DEF TypeOK
  <2>8. lock' \in [Workspaces -> 0..MaxPushes]  BY <1>l, <2>4
  <2>9. faults' \in 0..MaxFaults  BY <1>3, FaultType DEF DriverRestart
  <2>10. pushes' = pushes /\ UNCHANGED <<gitops, hook, boxes, ingress, request>>
    BY <1>3 DEF DriverRestart
  <2> QED BY <2>5, <2>7, <2>8, <2>9, <2>10 DEF TypeOK, gitops, hook, boxes, ingress, request
<1> QED BY <1>1, <1>2, <1>3

\* Every state of DriverApply has its type, whichever hooks, requests and restarts
\* meet (reconcile, ReconcileIngress).
THEOREM TypeCorrect == Spec => []TypeOK
<1>1. Init => TypeOK  BY InitType
<1>2. TypeOK /\ [Next]_vars => TypeOK'
  <2> SUFFICES ASSUME TypeOK, [Next]_vars PROVE TypeOK'  OBVIOUS
  <2>1. CASE Next
    BY <2>1, GitopsType, HookType, DaemonType, RestartType DEF Next
  <2>2. CASE UNCHANGED vars
    BY <2>2 DEF vars, TypeOK, gitops, hook, boxes, ingress, request, trouble
  <2> QED BY <2>1, <2>2
<1> QED BY <1>1, <1>2, PTL DEF Spec

-----------------------------------------------------------------------------
(* The live slot and its standby.  While a promotion is on its way no slot is
   idle, so that no other one begins, and without its own slot the others are
   wired to the two databases, whatever swaps come in between. *)

Sound(y) == y.wire[y.live] = y.db /\ DrSlot(y) # 0

Paired(y, t) == \E u, v \in Slots \ {t} : y.wire[u] = 1 /\ y.wire[v] = 2

Promoting(s) ==
  promo[s].at # "idle" => Idle(yaml[s]) = {} /\ Paired(yaml[s], promo[s].slot)

SInv == TypeOK /\ \A s \in Slices : Sound(yaml[s]) /\ Promoting(s)

LEMMA SoundIff ==
  ASSUME NEW y \in Records
  PROVE  Sound(y) <=> /\ y.wire[y.live] = y.db
                      /\ \E t \in Slots \ {y.live} : y.wire[t] = OtherDb(y.db)
BY DrSlotOf DEF Sound

LEMMA FreshSound == ASSUME NEW on \in BOOLEAN PROVE Sound(Fresh(on))
<1> DEFINE y == Fresh(on)
<1>1. y \in Records  BY FreshType
<1>2. y.live = 1 /\ y.db = 1 /\ y.wire = [s \in Slots |-> IF s = 3 THEN 0 ELSE s]
  BY DEF Fresh
<1> HIDE DEF y
<1>3. y.wire[1] = 1 /\ y.wire[2] = 2  BY <1>2 DEF Slots
<1>4. 2 \in Slots \ {y.live} /\ y.wire[2] = OtherDb(y.db)
  BY <1>2, <1>3 DEF Slots, OtherDb
<1> QED BY <1>1, <1>2, <1>3, <1>4, SoundIff DEF y

LEMMA StagedSound ==
  ASSUME NEW y \in Records, Sound(y), Idle(y) # {}
  PROVE  /\ Sound(Staged(y)) /\ Idle(Staged(y)) = {}
         /\ Paired(Staged(y), First(Idle(y)))
<1> DEFINE t == First(Idle(y))
           z == Staged(y)
<1>1. t \in Slots /\ y.wire[t] = 0 /\ z \in Records  BY StagedType DEF Idle
<1>2. z.live = y.live /\ z.db = y.db /\ z.wire = [y.wire EXCEPT ![t] = y.db]
  BY DEF Staged, Records
<1>3. y.wire[y.live] = y.db  BY DEF Sound
<1>4. PICK r \in Slots \ {y.live} : y.wire[r] = OtherDb(y.db)  BY SoundIff
<1>5. y.db \in 1..2 /\ y.live \in Slots /\ y.wire \in [Slots -> 0..2]  BY DEF Records
<1> HIDE DEF t, z
<1>6. t # y.live /\ t # r  BY <1>1, <1>3, <1>4, <1>5 DEF OtherDb
<1>7. z.wire[y.live] = y.db /\ z.wire[r] = OtherDb(y.db) /\ z.wire[t] = y.db
  BY <1>1, <1>2, <1>3, <1>4, <1>5, <1>6
<1>8. Sound(z)  BY <1>1, <1>2, <1>4, <1>7, SoundIff
<1>9. \A u \in Slots : u = t \/ u = r \/ u = y.live
  BY <1>1, <1>4, <1>5, <1>6 DEF Slots
<1>10. Idle(z) = {}  BY <1>5, <1>7, <1>9 DEF Idle, OtherDb
<1>11. Paired(z, t)
  <2>1. CASE y.db = 1
    BY <2>1, <1>4, <1>5, <1>6, <1>7 DEF Paired, OtherDb
  <2>2. CASE y.db = 2
    BY <2>2, <1>4, <1>5, <1>6, <1>7 DEF Paired, OtherDb
  <2> QED BY <1>5, <2>1, <2>2
<1> QED BY <1>8, <1>10, <1>11 DEF t, z

LEMMA SwappedSound ==
  ASSUME NEW y \in Records, Sound(y)
  PROVE  Sound(Swapped(y)) /\ Swapped(y).wire = y.wire
<1> DEFINE d == DrSlot(y)
           z == Swapped(y)
<1>1. d \in Slots \ {y.live} /\ y.wire[d] = OtherDb(y.db)  BY DrSlotOf DEF Sound
<1>2. z \in Records  BY SwappedType DEF Sound
<1>3. z.live = d /\ z.db = OtherDb(y.db) /\ z.wire = y.wire  BY DEF Swapped, Records
<1>4. y.wire[y.live] = y.db  BY DEF Sound
<1>5. y.db \in 1..2 /\ y.live \in Slots  BY DEF Records
<1> HIDE DEF d, z
<1>6. OtherDb(OtherDb(y.db)) = y.db  BY <1>5 DEF OtherDb
<1>7. y.live \in Slots \ {z.live} /\ z.wire[y.live] = OtherDb(z.db)
  BY <1>1, <1>3, <1>4, <1>5, <1>6
<1>8. Sound(z)  BY <1>1, <1>2, <1>3, <1>7, SoundIff
<1> QED BY <1>3, <1>8 DEF z

LEMMA PromotedSound ==
  ASSUME NEW y \in Records, NEW t \in Slots, Sound(y), Idle(y) = {}, Paired(y, t)
  PROVE  Sound(Promoted(y, t))
<1> DEFINE z == Promoted(y, t)
           W == [s \in Slots |-> IF (s = y.live /\ s # t) \/ y.wire[s] = 0 THEN 0
                                 ELSE IF s = t THEN y.db ELSE y.wire[s]]
<1>1. z \in Records  BY PromotedType
<1>2. z.live = t /\ z.db = y.db /\ z.wire = W  BY DEF Promoted, Records
<1>3. y.wire[y.live] = y.db /\ y.db \in 1..2 /\ y.live \in Slots
  BY DEF Sound, Records
<1> HIDE DEF z
<1>4. PICK r \in Slots \ {t} : y.wire[r] = OtherDb(y.db)
  BY <1>3 DEF Paired, OtherDb
<1>5. r # y.live  BY <1>3, <1>4 DEF OtherDb
<1>6. OtherDb(y.db) # 0  BY <1>3 DEF OtherDb
<1>7. W[r] = OtherDb(y.db)  BY <1>4, <1>5, <1>6
<1>8. y.wire[t] # 0  BY DEF Idle
<1>9. W[t] = y.db  BY <1>8
<1> HIDE DEF W
<1> QED BY <1>1, <1>2, <1>4, <1>7, <1>9, SoundIff DEF z

LEMMA SoundInit == Init => SInv
<1> SUFFICES ASSUME Init PROVE SInv  OBVIOUS
<1>1. PICK on \in [Slices -> BOOLEAN] : yaml = [s \in Slices |-> Fresh(on[s])]
  BY DEF Init
<1>2. ASSUME NEW s \in Slices PROVE Sound(yaml[s])
  <2>1. on[s] \in BOOLEAN  BY <1>1
  <2>2. Sound(Fresh(on[s]))  BY <2>1, FreshSound
  <2> QED BY <1>1, <2>2
<1>3. \A s \in Slices : promo[s].at = "idle"  BY DEF Init
<1> QED BY <1>2, <1>3, InitType DEF SInv, Promoting

\* A step that leaves the record of a slice and its promotion alone, or gives the
\* promotion up.
LEMMA SoundStays ==
  ASSUME SInv, TypeOK', NEW s \in Slices, yaml'[s] = yaml[s],
         \/ promo'[s].at = "idle"
         \/ promo[s].at # "idle" /\ promo'[s].slot = promo[s].slot
         \/ promo'[s] = promo[s]
  PROVE  Sound(yaml[s])' /\ Promoting(s)'
BY DEF SInv, Sound, Promoting, Paired, Idle

\* An operation that writes neither the wiring of its slice nor the databases.
LEMMA SoundKept ==
  ASSUME NEW y \in Records, NEW z \in Records, Sound(y),
         z.wire = y.wire, z.live = y.live, z.db = y.db
  PROVE  Sound(z)
BY SoundIff

LEMMA SoundStep ==
  ASSUME SInv, TypeOK', NEW s \in Slices, Gitops(s), NEW r \in Slices
  PROVE  Sound(yaml[r])' /\ Promoting(r)'
<1>y. /\ yaml[r] \in Records /\ yaml'[r] \in Records /\ Sound(yaml[r]) /\ Promoting(r)
      /\ yaml \in [Slices -> Records]
  BY DEF SInv, TypeOK
<1>p. promo \in [Slices -> [at : {"idle", "begun", "staging"}, slot : Slots,
                           push : 0..MaxPushes]]
  BY DEF SInv, TypeOK
<1>a. CASE r # s
  <2>1. yaml'[r] = yaml[r] /\ promo'[r] = promo[r]
    BY <1>a, <1>y, <1>p DEF Gitops, Push, Deploy, Remove, SwapDr, SetPosture, BeginPromote,
         PushStaged, FinishPromote, PromoteFails, Operation
  <2> QED BY <2>1, SoundStays
<1>b. CASE r = s
  <2>1. CASE Push(s) \/ PushStaged(s) \/ PromoteFails(s)
    <3>1. yaml'[s] = yaml[s]  BY <2>1 DEF Push, PushStaged, PromoteFails
    <3>2. \/ promo'[s].at = "idle"
          \/ promo[s].at # "idle" /\ promo'[s].slot = promo[s].slot
          \/ promo'[s] = promo[s]
      BY <2>1, <1>p DEF Push, PushStaged, PromoteFails
    <3> QED BY <1>b, <3>1, <3>2, SoundStays
  <2>2. CASE Deploy(s) \/ Remove(s) \/ SetPosture(s)
    <3>1. /\ yaml'[s].wire = yaml[s].wire /\ yaml'[s].live = yaml[s].live
          /\ yaml'[s].db = yaml[s].db
      <4>1. CASE Deploy(s)
        <5>1. yaml'[s] = [yaml[s] EXCEPT !.on = TRUE, !.ver = IF @ = 1 THEN 2 ELSE 1]
          BY <4>1, <1>y DEF Deploy
        <5> QED BY <5>1, <1>y, <1>b DEF Records
      <4>2. CASE Remove(s)
        <5>1. yaml'[s] = [yaml[s] EXCEPT !.on = FALSE]  BY <4>2, <1>y DEF Remove
        <5> QED BY <5>1, <1>y, <1>b DEF Records
      <4>3. CASE SetPosture(s)
        <5>1. yaml'[s] = [yaml[s] EXCEPT !.fw = IF @ = 1 THEN 2 ELSE 1]
          BY <4>3, <1>y DEF SetPosture
        <5> QED BY <5>1, <1>y, <1>b DEF Records
      <4> QED BY <2>2, <4>1, <4>2, <4>3
    <3>2. promo' = promo  BY <2>2 DEF Deploy, Remove, SetPosture
    <3>3. Sound(yaml'[s])  BY <1>y, <1>b, <3>1, SoundKept
    <3>4. Promoting(s)'  BY <1>y, <1>b, <3>1, <3>2 DEF Promoting, Idle, Paired
    <3> QED BY <1>b, <3>3, <3>4
  <2>3. CASE SwapDr(s)
    <3>1. yaml'[s] = Swapped(yaml[s]) /\ promo' = promo  BY <2>3, <1>y DEF SwapDr
    <3>2. Sound(yaml'[s]) /\ yaml'[s].wire = yaml[s].wire
      BY <1>y, <1>b, <3>1, SwappedSound
    <3>3. Promoting(s)'  BY <1>y, <1>b, <3>1, <3>2 DEF Promoting, Idle, Paired
    <3> QED BY <1>b, <3>2, <3>3
  <2>4. CASE BeginPromote(s)
    <3>1. /\ yaml'[s] = Staged(yaml[s]) /\ Idle(yaml[s]) # {}
          /\ promo'[s].slot = First(Idle(yaml[s]))
      BY <2>4, <1>y, <1>p DEF BeginPromote
    <3>2. /\ Sound(yaml'[s]) /\ Idle(yaml'[s]) = {}
          /\ Paired(yaml'[s], promo'[s].slot)
      BY <1>y, <1>b, <3>1, StagedSound
    <3> QED BY <1>b, <3>2 DEF Promoting
  <2>5. CASE FinishPromote(s)
    <3>1. /\ yaml'[s] = Promoted(yaml[s], promo[s].slot)
          /\ promo[s].at # "idle" /\ promo'[s].at = "idle" /\ promo[s].slot \in Slots
      BY <2>5, <1>y, <1>p DEF FinishPromote
    <3>2. Idle(yaml[s]) = {} /\ Paired(yaml[s], promo[s].slot)
      BY <1>y, <1>b, <3>1 DEF Promoting
    <3>3. Sound(yaml'[s])  BY <1>y, <1>b, <3>1, <3>2, PromotedSound
    <3> QED BY <1>b, <3>1, <3>3 DEF Promoting
  <2> QED BY <2>1, <2>2, <2>3, <2>4, <2>5 DEF Gitops
<1> QED BY <1>a, <1>b

\* The hooks, the daemon and the restarts leave the record to gitops.
LEMMA OnlyGitopsWrites ==
  ASSUME [Next]_vars, ~\E s \in Slices : Gitops(s)
  PROVE  yaml' = yaml /\ (promo' = promo \/ GitopsRestart)
<1>1. ASSUME NEW a \in Applies, Hook(a) PROVE yaml' = yaml /\ promo' = promo
  BY <1>1 DEF Hook, Lock, LockTimeout, Up, Create, Provision, CertsFail, Call, Retire, UpFails,
       CreateFails, ProvisionFails, RetireFails, CallTimeout, Fails, gitops
<1>2. ASSUME NEW a \in Applies, Daemon(a) PROVE yaml' = yaml /\ promo' = promo
  BY <1>2 DEF Daemon, List, Answer, Skip, Write, Record, Unroute, Forget, WriteFails,
       UnrouteFails, gitops
<1>3. ASSUME NEW w \in Workspaces, DriverRestart(w) PROVE yaml' = yaml /\ promo' = promo
  BY <1>3 DEF DriverRestart, gitops
<1>4. DaemonRestart => yaml' = yaml /\ promo' = promo  BY DEF DaemonRestart, gitops
<1>5. GitopsRestart => yaml' = yaml  BY DEF GitopsRestart
<1>6. UNCHANGED vars => yaml' = yaml /\ promo' = promo  BY DEF vars, gitops
<1> QED BY <1>1, <1>2, <1>3, <1>4, <1>5, <1>6 DEF Next

LEMMA SoundNext == ASSUME SInv, TypeOK', [Next]_vars PROVE SInv'
<1>1. CASE \E s \in Slices : Gitops(s)
  BY <1>1, SoundStep DEF SInv
<1>2. CASE ~\E s \in Slices : Gitops(s)
  <2>1. yaml' = yaml /\ (promo' = promo \/ GitopsRestart)  BY <1>2, OnlyGitopsWrites
  <2>2. \A s \in Slices : promo'[s].at = "idle" \/ promo'[s] = promo[s]
    <3>1. CASE GitopsRestart
      <4>1. promo' = [s \in Slices |-> [promo[s] EXCEPT !.at = "idle"]]
        BY <3>1 DEF GitopsRestart
      <4>2. promo \in [Slices -> [at : {"idle", "begun", "staging"}, slot : Slots,
                                 push : 0..MaxPushes]]
        BY DEF SInv, TypeOK
      <4> QED BY <4>1, <4>2
    <3> QED BY <2>1, <3>1
  <2>3. \A s \in Slices : yaml'[s] = yaml[s]  BY <2>1
  <2> QED BY <2>2, <2>3, SoundStays DEF SInv
<1> QED BY <1>1, <1>2

\* The record keeps a live slot on the live database and another one on the standby,
\* for any number of promotions, swaps, failures and restarts
\* (begin_zero_downtime_promote, finish_zero_downtime_promote, swap_production_dr).
THEOREM AlwaysAStandby == Spec => []SlotsSound
<1>1. Init => SInv  BY SoundInit
<1>2. SInv /\ TypeOK' /\ [Next]_vars => SInv'  BY SoundNext
<1>3. SInv => SlotsSound  BY DEF SInv, SlotsSound, Sound
<1> QED BY <1>1, <1>2, <1>3, TypeCorrect, PTL DEF Spec

-----------------------------------------------------------------------------
(* The processes of others.  A request only ever has places of its own slice left,
   and there is no request of a push still to be made: the second is what lets a
   push take its number for whatever slice it is of. *)

Confined(a) ==
  /\ \A p \in todo[a] \cup half[a] : p[1] = apply[a].slice
  /\ a > pushes => apply[a].at = "none" /\ req[a] = "none" /\ todo[a] = {} /\ half[a] = {}

CInv == TypeOK /\ (Begins = {} => \A a \in Applies : Confined(a))

LEMMA ConfinedInit == Init => CInv
<1> SUFFICES ASSUME Init PROVE CInv  OBVIOUS
<1>1. \A a \in Applies : apply[a].at = "none" /\ req[a] = "none" /\ todo[a] = {} /\ half[a] = {}
  BY DEF Init
<1> QED BY <1>1, InitType DEF CInv, Confined

LEMMA GoesOnly ==
  ASSUME TypeOK, NEW a \in Applies, NEW to, Goes(a, to)
  PROVE  /\ apply'[a].at = to
         /\ \A b \in Applies : apply'[b].slice = apply[b].slice
         /\ \A b \in Applies \ {a} : apply'[b] = apply[b]
BY DEF Goes, TypeOK

\* A push takes a number that no request has.
LEMMA ConfinedPush ==
  ASSUME TypeOK, \A a \in Applies : Confined(a), NEW s \in Slices, Pushed(s),
         UNCHANGED request
  PROVE  \A a \in Applies : Confined(a)'
<1>1. pushes \in 0..MaxPushes /\ pushes' = pushes + 1 /\ pushes' \in Applies
  BY BoundsAssumption DEF TypeOK, Pushed, Applies
<1>2. \A a \in Applies : a # pushes' => apply'[a] = apply[a]
  BY <1>1 DEF Pushed, TypeOK
<1>3. req' = req /\ todo' = todo /\ half' = half  BY DEF request
<1>4. ASSUME NEW a \in Applies PROVE Confined(a)'
  <2>1. CASE a = pushes'
    <3>1. a > pushes  BY <2>1, <1>1
    <3>2. todo[a] = {} /\ half[a] = {} /\ ~(a > pushes')  BY <2>1, <3>1, <1>1 DEF Confined
    <3> QED BY <3>2, <1>3 DEF Confined
  <2>2. CASE a # pushes'
    <3>1. a > pushes' => a > pushes  BY <1>1 DEF Applies
    <3> QED BY <2>2, <3>1, <1>2, <1>3 DEF Confined
  <2> QED BY <2>1, <2>2
<1> QED BY <1>4

\* What a step of one apply has to be, for all of them to stay confined.
LEMMA ConfinedOne ==
  ASSUME TypeOK, \A b \in Applies : Confined(b), NEW a \in Applies, pushes' = pushes,
         ~(a > pushes),
         \A b \in Applies : apply'[b].slice = apply[b].slice,
         \A b \in Applies \ {a} : /\ apply'[b] = apply[b] /\ req'[b] = req[b]
                                  /\ todo'[b] = todo[b] /\ half'[b] = half[b],
         \A p \in todo'[a] \cup half'[a] : p[1] = apply[a].slice
  PROVE  \A b \in Applies : Confined(b)'
<1>1. Confined(a)'  BY DEF Confined
<1>2. ASSUME NEW b \in Applies \ {a} PROVE Confined(b)'  BY DEF Confined
<1> QED BY <1>1, <1>2

\* A hook moves only the containers of its own slice, and moves on.
LEMMA HookOwn ==
  ASSUME TypeOK, NEW a \in Applies, Hook(a)
  PROVE  /\ \A s \in Slices \ {apply[a].slice} : gw'[s] = gw[s] /\ app'[s] = app[s]
         /\ UNCHANGED ingress /\ apply'[a] # apply[a] /\ apply[a].at # "none"
         /\ \E to : Goes(a, to)
         /\ pushes' = pushes /\ half' = half
         /\ UNCHANGED <<req, todo>> \/ Call(a)
<1> DEFINE Own2 == \A s \in Slices \ {apply[a].slice} : gw'[s] = gw[s] /\ app'[s] = app[s]
           Moves == apply'[a] # apply[a] /\ apply[a].at # "none" /\ \E to : Goes(a, to)
<1>t. apply[a].slice \in Slices /\ gw \in [Slices -> [Slots -> 0..2]]
      /\ app \in [Slices -> [Slots -> Containers]]
  BY DEF TypeOK
<1>b. UNCHANGED boxes => Own2  BY DEF boxes
<1>g. ASSUME NEW M, Gateways(a, M) PROVE Own2
  <2> DEFINE r == apply[a].slice
             G == [t \in Slots |-> IF t \in M THEN Y(a).fw ELSE gw[r][t]]
             B == [t \in Slots |-> IF t \in M THEN [app[r][t] EXCEPT !.att = FALSE]
                                   ELSE app[r][t]]
  <2>1. gw' = [gw EXCEPT ![r] = G] /\ app' = [app EXCEPT ![r] = B]
    BY <1>g, <1>t DEF Gateways
  <2> HIDE DEF G, B
  <2> QED BY <2>1, <1>t
<1>w. \A W : Workers(a, W) /\ gw' = gw => Own2  BY <1>t DEF Workers
<1>c. \A C : Certified(a, C) /\ gw' = gw => Own2  BY <1>t DEF Certified
<1>r. \A D : Retired(a, D) => Own2  BY <1>t DEF Retired
<1>m. ASSUME NEW from, NEW to, At(a, from), Goes(a, to), from # to, from # "none"
      PROVE  Moves
  <2>1. apply'[a].at = to  BY <1>m, GoesOnly
  <2>2. apply[a].at = from  BY <1>m DEF At
  <2>3. apply'[a] # apply[a]  BY <1>m, <2>1, <2>2
  <2> QED BY <1>m, <2>2, <2>3
<1> HIDE DEF Own2, Moves
<1>1. CASE Lock(a)
  <2>1. Moves  BY <1>1, <1>m DEF Lock
  <2> QED BY <1>1, <2>1, <1>b DEF Lock, ingress, request, Moves, Own2
<1>2. CASE LockTimeout(a)
  <2>1. Moves  BY <1>2, <1>m DEF LockTimeout
  <2> QED BY <1>2, <2>1, <1>b DEF LockTimeout, ingress, request, Moves, Own2
<1>3. CASE Up(a)
  <2>1. Moves  BY <1>3, <1>m DEF Up
  <2>2. Own2  BY <1>3, <1>g DEF Up
  <2> QED BY <1>3, <2>1, <2>2 DEF Up, ingress, request, Moves, Own2
<1>4. CASE Create(a)
  <2>1. Moves  BY <1>4, <1>m DEF Create
  <2>2. Own2  BY <1>4, <1>w DEF Create
  <2> QED BY <1>4, <2>1, <2>2 DEF Create, ingress, request, Moves, Own2
<1>5. CASE Provision(a)
  <2>1. Moves  BY <1>5, <1>m DEF Provision
  <2>2. Own2  BY <1>5, <1>c DEF Provision
  <2> QED BY <1>5, <2>1, <2>2 DEF Provision, ingress, request, Moves, Own2
<1>6. CASE CertsFail(a)
  <2>1. Moves  BY <1>6, <1>m DEF CertsFail
  <2>2. PICK C : Certified(a, C)  BY <1>6 DEF CertsFail
  <2>3. Own2  BY <1>6, <2>2, <1>c DEF CertsFail
  <2> QED BY <1>6, <2>1, <2>3 DEF CertsFail, ingress, request, Moves, Own2
<1>7. CASE Call(a)
  <2>1. Moves  BY <1>7, <1>m DEF Call
  <2> QED BY <1>7, <2>1, <1>b DEF Call, ingress, Moves, Own2
<1>8. CASE Retire(a)
  <2>1. Moves  BY <1>8, <1>m DEF Retire
  <2>2. Own2  BY <1>8, <1>r DEF Retire
  <2> QED BY <1>8, <2>1, <2>2 DEF Retire, ingress, request, Moves, Own2
<1>9. CASE UpFails(a) \/ CreateFails(a) \/ ProvisionFails(a)
  <2>1. Fails(a)  BY <1>9 DEF UpFails, CreateFails, ProvisionFails
  <2>2. Moves
    <3>1. Goes(a, "failed")  BY <2>1 DEF Fails
    <3>2. CASE UpFails(a)  BY <3>1, <3>2, <1>m DEF UpFails
    <3>3. CASE CreateFails(a)  BY <3>1, <3>3, <1>m DEF CreateFails
    <3>4. CASE ProvisionFails(a)  BY <3>1, <3>4, <1>m DEF ProvisionFails
    <3> QED BY <1>9, <3>2, <3>3, <3>4
  <2>3. Own2
    <3>1. CASE UpFails(a)
      <4>1. PICK M : Gateways(a, M)  BY <3>1 DEF UpFails
      <4> QED BY <4>1, <1>g
    <3>2. CASE CreateFails(a)
      <4>1. PICK W : Workers(a, W)  BY <3>2 DEF CreateFails
      <4> QED BY <3>2, <4>1, <1>w DEF CreateFails
    <3>3. CASE ProvisionFails(a)  BY <3>3, <1>b DEF ProvisionFails
    <3> QED BY <1>9, <3>1, <3>2, <3>3
  <2> QED BY <2>1, <2>2, <2>3 DEF Fails, ingress, request, Moves, Own2
<1>10. CASE RetireFails(a)
  <2>1. Moves  BY <1>10, <1>m DEF RetireFails
  <2>2. PICK D : Retired(a, D)  BY <1>10 DEF RetireFails
  <2>3. Own2  BY <2>2, <1>r
  <2> QED BY <1>10, <2>1, <2>3 DEF RetireFails, ingress, request, Moves, Own2
<1>11. CASE CallTimeout(a)
  <2>1. Moves  BY <1>11, <1>m DEF CallTimeout
  <2> QED BY <1>11, <2>1, <1>b DEF CallTimeout, ingress, request, Moves, Own2
<1> QED BY <1>1, <1>2, <1>3, <1>4, <1>5, <1>6, <1>7, <1>8, <1>9, <1>10, <1>11 DEF Hook

\* A step of the daemon takes a place that its request has left, and the request is
\* another one after it.
LEMMA DaemonOwn ==
  ASSUME TypeOK, NEW a \in Applies, Daemon(a), Confined(a)
  PROVE  /\ UNCHANGED boxes /\ pushes' = pushes /\ req[a] # "none"
         /\ \A b \in Applies : apply'[b].slice = apply[b].slice
         /\ \A b \in Applies \ {a} : /\ apply'[b] = apply[b] /\ req'[b] = req[b]
                                     /\ todo'[b] = todo[b] /\ half'[b] = half[b]
         /\ ~UNCHANGED <<req[a], todo[a], half[a]>>
         /\ \A p \in Places : p[1] # apply[a].slice =>
               /\ sub'[p] = sub[p] /\ rec'[p] = rec[p]
               /\ p \in plat' <=> p \in plat
               /\ p \in tagged' <=> p \in tagged
         /\ (todo'[a] \cup half'[a]) \subseteq (todo[a] \cup half[a]) \/ List(a)
<1>t. /\ req \in [Applies -> {"none", "upsert", "prune"}]
      /\ todo \in [Applies -> SUBSET Places] /\ half \in [Applies -> SUBSET Places]
      /\ sub \in [Places -> 0..3] /\ rec \in [Places -> 0..3]
  BY DEF TypeOK
<1>c. \A p \in todo[a] \cup half[a] : p[1] = apply[a].slice  BY DEF Confined
<1>1. CASE List(a)
  BY <1>1, <1>t DEF List, ingress, boxes
<1>2. CASE Answer(a)
  <2>1. /\ \A b \in Applies : apply'[b].slice = apply[b].slice
        /\ \A b \in Applies \ {a} : apply'[b] = apply[b]
    BY <1>2, GoesOnly DEF Answer
  <2> QED BY <1>2, <1>t, <2>1 DEF Answer, ingress, boxes
<1>3. CASE \E p \in Places : Skip(a, p) \/ WriteFails(a, p) \/ UnrouteFails(a, p)
  <2>1. PICK p \in Places : Skip(a, p) \/ WriteFails(a, p) \/ UnrouteFails(a, p)  BY <1>3
  <2>2. /\ p \in todo[a] /\ todo' = [todo EXCEPT ![a] = @ \ {p}] /\ req' = req /\ half' = half
        /\ apply' = apply /\ pushes' = pushes /\ UNCHANGED boxes /\ req[a] # "none"
        /\ rec' = rec /\ plat' = plat /\ tagged' = tagged
    BY <2>1 DEF Skip, WriteFails, UnrouteFails, Asked, Less, ingress
  <2>3. sub' = sub \/ sub' = [sub EXCEPT ![p] = Want(a, p)]
    BY <2>1 DEF Skip, WriteFails, UnrouteFails, ingress
  <2>4. p[1] = apply[a].slice  BY <2>2, <1>c
  <2>5. \A q \in Places : q[1] # apply[a].slice => sub'[q] = sub[q]  BY <2>3, <2>4, <1>t
  <2>6. /\ todo'[a] = todo[a] \ {p} /\ todo'[a] # todo[a]
        /\ \A b \in Applies \ {a} : todo'[b] = todo[b]
    BY <2>2, <1>t
  <2> QED BY <2>2, <2>5, <2>6
<1>4. CASE \E p \in Places : Write(a, p) \/ Unroute(a, p)
  <2>1. PICK p \in Places : Write(a, p) \/ Unroute(a, p)  BY <1>4
  <2>2. /\ p \in todo[a] /\ todo' = [todo EXCEPT ![a] = @ \ {p}] /\ req' = req
        /\ half' = [half EXCEPT ![a] = {p}]
        /\ apply' = apply /\ pushes' = pushes /\ UNCHANGED boxes /\ req[a] # "none"
        /\ rec' = rec /\ tagged' = tagged /\ plat' \in {plat \cup {p}, plat \ {p}}
    BY <2>1 DEF Write, Unroute, Asked, Less, Half
  <2>3. sub' = sub \/ sub' = [sub EXCEPT ![p] = Want(a, p)]
    BY <2>1 DEF Write, Unroute
  <2>4. p[1] = apply[a].slice  BY <2>2, <1>c
  <2>5. \A q \in Places : q[1] # apply[a].slice =>
          sub'[q] = sub[q] /\ (q \in plat' <=> q \in plat)
    BY <2>2, <2>3, <2>4, <1>t
  <2>6. /\ todo'[a] = todo[a] \ {p} /\ todo'[a] # todo[a] /\ half'[a] = {p}
        /\ \A b \in Applies \ {a} : todo'[b] = todo[b] /\ half'[b] = half[b]
    BY <2>2, <1>t
  <2> QED BY <2>2, <2>5, <2>6
<1>5. CASE \E p \in Places : Record(a, p) \/ Forget(a, p)
  <2>1. PICK p \in Places : Record(a, p) \/ Forget(a, p)  BY <1>5
  <2>2. /\ p \in half[a] /\ half' = [half EXCEPT ![a] = {}] /\ req' = req /\ todo' = todo
        /\ apply' = apply /\ pushes' = pushes /\ UNCHANGED boxes /\ req[a] # "none"
        /\ sub' = sub /\ plat' = plat /\ tagged' \in {tagged \cup {p}, tagged \ {p}}
    BY <2>1 DEF Record, Forget, Half
  <2>3. rec' = [rec EXCEPT ![p] = Want(a, p)] \/ rec' = [rec EXCEPT ![p] = 0]
    BY <2>1 DEF Record, Forget
  <2>4. p[1] = apply[a].slice  BY <2>2, <1>c
  <2>5. \A q \in Places : q[1] # apply[a].slice =>
          rec'[q] = rec[q] /\ (q \in tagged' <=> q \in tagged)
    BY <2>2, <2>3, <2>4, <1>t
  <2>6. /\ half'[a] = {} /\ half'[a] # half[a]
        /\ \A b \in Applies \ {a} : half'[b] = half[b]
    BY <2>2, <1>t
  <2> QED BY <2>2, <2>5, <2>6
<1> QED BY <1>1, <1>2, <1>3, <1>4, <1>5 DEF Daemon

\* The places of another slice are never listed: a workspace has one process of a
\* name, and no workspace's name begins as another's.
LEMMA ListOwn ==
  ASSUME TypeOK, Begins = {}, NEW a \in Applies, List(a)
  PROVE  \A p \in todo'[a] \cup half'[a] : p[1] = apply[a].slice
<1>1. \A p \in Managed(a) : p[1] \in Slices /\ apply[a].slice \in Slices
  BY DEF Managed, TypeOK, Places
<1>2. \A p \in Managed(a) : p[1] = apply[a].slice
  BY <1>1, NamesAssumption DEF Managed
<1>3. todo'[a] \subseteq Managed(a) /\ half'[a] = {}  BY DEF List, TypeOK
<1> QED BY <1>2, <1>3

LEMMA CallOwn ==
  ASSUME TypeOK, NEW a \in Applies, Call(a), Confined(a)
  PROVE  /\ \A p \in todo'[a] \cup half'[a] : p[1] = apply[a].slice
         /\ \A b \in Applies \ {a} : req'[b] = req[b] /\ todo'[b] = todo[b]
<1>1. todo'[a] = {apply[a].slice} \X Routed(Y(a)) /\ half' = half
  BY DEF Call, TypeOK
<1>2. \A b \in Applies \ {a} : req'[b] = req[b] /\ todo'[b] = todo[b]
  BY DEF Call, TypeOK
<1> QED BY <1>1, <1>2 DEF Confined

\* The restarts.
LEMMA RestartOwn ==
  ASSUME TypeOK, DaemonRestart \/ GitopsRestart \/ (\E w \in Workspaces : DriverRestart(w))
  PROVE  /\ UNCHANGED boxes /\ UNCHANGED ingress /\ pushes' = pushes
         /\ \A b \in Applies : /\ apply'[b].slice = apply[b].slice
                               /\ apply[b].at = "none" /\ req[b] = "none" =>
                                    apply'[b] = apply[b]
         /\ UNCHANGED request \/ \A b \in Applies :
              req'[b] = "none" /\ todo'[b] = {} /\ half'[b] = {}
<1>a. apply \in [Applies -> [slice : Slices, y : Records, at : Phases]]  BY DEF TypeOK
<1>f. ASSUME NEW S,
             apply' = [a \in Applies |->
                         IF a \in S THEN [apply[a] EXCEPT !.at = "failed"] ELSE apply[a]]
      PROVE  \A b \in Applies : /\ apply'[b].slice = apply[b].slice
                                /\ b \notin S => apply'[b] = apply[b]
  BY <1>a, <1>f
<1>1. CASE DaemonRestart
  <2> DEFINE served == {a \in Applies : req[a] # "none"}
             waiting == {a \in served : At(a, "calling")}
  <2>1. apply' = [a \in Applies |-> IF a \in waiting
                                   THEN [apply[a] EXCEPT !.at = "failed"] ELSE apply[a]]
    BY <1>1 DEF DaemonRestart
  <2>2. \A b \in Applies : req[b] = "none" => b \notin waiting  OBVIOUS
  <2> HIDE DEF served, waiting
  <2>3. \A b \in Applies : /\ apply'[b].slice = apply[b].slice
                           /\ b \notin waiting => apply'[b] = apply[b]
    BY <1>f, <2>1
  <2>4. /\ UNCHANGED boxes /\ UNCHANGED ingress /\ pushes' = pushes
        /\ \A b \in Applies : req'[b] = "none" /\ todo'[b] = {} /\ half'[b] = {}
    BY <1>1 DEF DaemonRestart
  <2>5. \A b \in Applies : /\ apply'[b].slice = apply[b].slice
                           /\ apply[b].at = "none" /\ req[b] = "none" => apply'[b] = apply[b]
    BY <2>2, <2>3
  <2> QED BY <2>4, <2>5
<1>2. CASE GitopsRestart
  BY <1>2 DEF GitopsRestart, boxes, ingress, request
<1>3. ASSUME NEW w \in Workspaces, DriverRestart(w)
      PROVE  /\ UNCHANGED boxes /\ UNCHANGED ingress /\ UNCHANGED request /\ pushes' = pushes
             /\ \A b \in Applies : /\ apply'[b].slice = apply[b].slice
                                   /\ apply[b].at = "none" => apply'[b] = apply[b]
  <2>1. \A b \in Applies : apply[b].at = "none" => b \notin Running(w)
    BY DEF Running, Ended
  <2>2. apply' = [a \in Applies |-> IF a \in Running(w)
                                   THEN [apply[a] EXCEPT !.at = "failed"] ELSE apply[a]]
    BY <1>3 DEF DriverRestart
  <2>3. \A b \in Applies : /\ apply'[b].slice = apply[b].slice
                           /\ b \notin Running(w) => apply'[b] = apply[b]
    BY <1>f, <2>2
  <2>4. UNCHANGED boxes /\ UNCHANGED ingress /\ UNCHANGED request /\ pushes' = pushes
    BY <1>3 DEF DriverRestart
  <2>5. \A b \in Applies : /\ apply'[b].slice = apply[b].slice
                           /\ apply[b].at = "none" => apply'[b] = apply[b]
    BY <2>1, <2>3
  <2> QED BY <2>4, <2>5
<1> QED BY <1>1, <1>2, <1>3

LEMMA GitopsOwn ==
  ASSUME TypeOK, NEW s \in Slices, Gitops(s)
  PROVE  /\ UNCHANGED boxes /\ UNCHANGED ingress /\ UNCHANGED request
         /\ Pushed(s) \/ (pushes' = pushes /\ apply' = apply)
BY DEF Gitops, Push, Deploy, Remove, SwapDr, SetPosture, BeginPromote, PushStaged,
     FinishPromote, PromoteFails, Operation

LEMMA ConfinedNext ==
  ASSUME CInv, Begins = {}, [Next]_vars
  PROVE  \A a \in Applies : Confined(a)'
<1>c. TypeOK /\ \A a \in Applies : Confined(a)  BY DEF CInv
<1>1. ASSUME NEW s \in Slices, Gitops(s) PROVE \A a \in Applies : Confined(a)'
  <2>1. CASE Pushed(s)  BY <1>1, <1>c, <2>1, GitopsOwn, ConfinedPush
  <2>2. CASE pushes' = pushes /\ apply' = apply
    BY <1>1, <1>c, <2>2, GitopsOwn DEF Confined, request
  <2> QED BY <1>1, <1>c, <2>1, <2>2, GitopsOwn
<1>2. ASSUME NEW a \in Applies, Hook(a) PROVE \A b \in Applies : Confined(b)'
  <2>1. Confined(a) /\ pushes' = pushes /\ half' = half /\ apply[a].at # "none"
    BY <1>2, <1>c, HookOwn
  <2>2. PICK to : Goes(a, to)  BY <1>2, <1>c, HookOwn
  <2>3. /\ \A b \in Applies : apply'[b].slice = apply[b].slice
        /\ \A b \in Applies \ {a} : apply'[b] = apply[b]
    BY <1>c, <2>2, GoesOnly
  <2>4. ~(a > pushes)  BY <2>1 DEF Confined
  <2>5. CASE Call(a)
    <3>1. /\ \A p \in todo'[a] \cup half'[a] : p[1] = apply[a].slice
          /\ \A b \in Applies \ {a} : req'[b] = req[b] /\ todo'[b] = todo[b]
      BY <1>c, <2>1, <2>5, CallOwn
    <3> QED BY <1>c, <2>1, <2>3, <2>4, <3>1, ConfinedOne
  <2>6. CASE UNCHANGED <<req, todo>>
    <3>1. req' = req /\ todo' = todo  BY <2>6
    <3>2. \A p \in todo'[a] \cup half'[a] : p[1] = apply[a].slice
      BY <2>1, <3>1 DEF Confined
    <3> QED BY <1>c, <2>1, <2>3, <2>4, <3>1, <3>2, ConfinedOne
  <2> QED BY <1>2, <1>c, <2>5, <2>6, HookOwn
<1>3. ASSUME NEW a \in Applies, Daemon(a) PROVE \A b \in Applies : Confined(b)'
  <2>1. Confined(a)  BY <1>c
  <2>2. /\ pushes' = pushes /\ req[a] # "none"
        /\ \A b \in Applies : apply'[b].slice = apply[b].slice
        /\ \A b \in Applies \ {a} : /\ apply'[b] = apply[b] /\ req'[b] = req[b]
                                    /\ todo'[b] = todo[b] /\ half'[b] = half[b]
        /\ (todo'[a] \cup half'[a]) \subseteq (todo[a] \cup half[a]) \/ List(a)
    BY <1>3, <1>c, <2>1, DaemonOwn
  <2>3. ~(a > pushes)  BY <2>1, <2>2 DEF Confined
  <2>4. \A p \in todo'[a] \cup half'[a] : p[1] = apply[a].slice
    <3>1. CASE List(a)  BY <3>1, <1>c, ListOwn
    <3>2. CASE (todo'[a] \cup half'[a]) \subseteq (todo[a] \cup half[a])
      BY <2>1, <3>2 DEF Confined
    <3> QED BY <2>2, <3>1, <3>2
  <2> QED BY <1>c, <2>2, <2>3, <2>4, ConfinedOne
<1>4. CASE DaemonRestart \/ GitopsRestart \/ (\E w \in Workspaces : DriverRestart(w))
  <2>1. /\ pushes' = pushes
        /\ \A b \in Applies : /\ apply'[b].slice = apply[b].slice
                              /\ apply[b].at = "none" /\ req[b] = "none" =>
                                   apply'[b] = apply[b]
        /\ UNCHANGED request \/ \A b \in Applies :
             req'[b] = "none" /\ todo'[b] = {} /\ half'[b] = {}
    BY <1>4, <1>c, RestartOwn
  <2>2. CASE UNCHANGED request
    BY <1>c, <2>1, <2>2 DEF Confined, request
  <2>3. CASE \A b \in Applies : req'[b] = "none" /\ todo'[b] = {} /\ half'[b] = {}
    BY <1>c, <2>1, <2>3 DEF Confined
  <2> QED BY <2>1, <2>2, <2>3
<1>5. CASE UNCHANGED vars
  BY <1>c, <1>5 DEF Confined, vars, request
<1> QED BY <1>1, <1>2, <1>3, <1>4, <1>5 DEF Next

LEMMA OwnSame ==
  ASSUME NEW s \in Slices, gw'[s] = gw[s], app'[s] = app[s], TypeOK, TypeOK',
         \A p \in Places : p[1] = s => /\ sub'[p] = sub[p] /\ rec'[p] = rec[p]
                                       /\ p \in plat' <=> p \in plat
                                       /\ p \in tagged' <=> p \in tagged
  PROVE  UNCHANGED Own(s)
<1>1. \A h \in Hosts : sub'[<<s, h>>] = sub[<<s, h>>] /\ rec'[<<s, h>>] = rec[<<s, h>>]
  <2>1. ASSUME NEW h \in Hosts PROVE <<s, h>> \in Places /\ <<s, h>>[1] = s
    BY DEF Places
  <2> QED BY <2>1
<1>2. plat \subseteq Places /\ plat' \subseteq Places
      /\ tagged \subseteq Places /\ tagged' \subseteq Places
  BY DEF TypeOK, Places
<1>3. {p \in plat \cup tagged : p[1] = s}' = {p \in plat \cup tagged : p[1] = s}
  BY <1>2
<1>4. [h \in Hosts |-> <<sub[<<s, h>>], rec[<<s, h>>]>>]'
        = [h \in Hosts |-> <<sub[<<s, h>>], rec[<<s, h>>]>>]
  BY <1>1
<1> QED BY <1>3, <1>4 DEF Own

LEMMA OwnStep ==
  ASSUME CInv, TypeOK', Begins = {}, [Next]_vars, NEW s \in Slices, Idles(s)
  PROVE  UNCHANGED Own(s)
<1>c. TypeOK /\ \A a \in Applies : Confined(a)  BY DEF CInv
<1>i. \A a \in Applies : apply[a].slice = s => UNCHANGED <<apply[a], req[a], todo[a], half[a]>>
  BY DEF Idles
<1>s. UNCHANGED boxes /\ UNCHANGED ingress => UNCHANGED Own(s)
  BY <1>c, OwnSame DEF boxes, ingress
<1>1. ASSUME NEW r \in Slices, Gitops(r) PROVE UNCHANGED Own(s)
  BY <1>1, <1>c, <1>s, GitopsOwn
<1>2. ASSUME NEW a \in Applies, Hook(a) PROVE UNCHANGED Own(s)
  <2>1. /\ \A r \in Slices \ {apply[a].slice} : gw'[r] = gw[r] /\ app'[r] = app[r]
        /\ UNCHANGED ingress /\ apply'[a] # apply[a]
    BY <1>2, <1>c, HookOwn
  <2>2. apply[a].slice # s  BY <1>i, <2>1
  <2>3. gw'[s] = gw[s] /\ app'[s] = app[s]  BY <2>1, <2>2
  <2>4. sub' = sub /\ rec' = rec /\ plat' = plat /\ tagged' = tagged
    BY <2>1 DEF ingress
  <2> QED BY <1>c, <2>3, <2>4, OwnSame
<1>3. ASSUME NEW a \in Applies, Daemon(a) PROVE UNCHANGED Own(s)
  <2>1. Confined(a)  BY <1>c
  <2>2. /\ UNCHANGED boxes /\ ~UNCHANGED <<req[a], todo[a], half[a]>>
        /\ \A p \in Places : p[1] # apply[a].slice =>
              /\ sub'[p] = sub[p] /\ rec'[p] = rec[p]
              /\ p \in plat' <=> p \in plat
              /\ p \in tagged' <=> p \in tagged
    BY <1>3, <1>c, <2>1, DaemonOwn
  <2>3. apply[a].slice # s  BY <1>i, <2>2
  <2>4. gw'[s] = gw[s] /\ app'[s] = app[s]  BY <2>2 DEF boxes
  <2> QED BY <1>c, <2>2, <2>3, <2>4, OwnSame
<1>4. CASE DaemonRestart \/ GitopsRestart \/ (\E w \in Workspaces : DriverRestart(w))
  BY <1>4, <1>c, <1>s, RestartOwn
<1>5. CASE UNCHANGED vars
  BY <1>5, <1>s DEF vars, boxes, ingress
<1> QED BY <1>1, <1>2, <1>3, <1>4, <1>5 DEF Next

\* With workspaces whose names do not begin alike, the apply of one process leaves
\* the containers, the routes and the records of every other one alone, in whatever
\* order hooks, requests, failures and restarts come (retireOrphanedContainers,
\* listGitopsManagedHosts).
THEOREM SiblingsApart == Spec => SiblingsUntouched
<1>1. Init => CInv  BY ConfinedInit
<1>2. CInv /\ TypeOK' /\ [Next]_vars => CInv'  BY ConfinedNext DEF CInv
<1>3. CInv /\ TypeOK' /\ [Next]_vars
        => [Begins = {} => \A s \in Slices : Idles(s) => UNCHANGED Own(s)]_vars
  BY OwnStep
<1> QED BY <1>1, <1>2, <1>3, TypeCorrect, PTL DEF Spec, SiblingsUntouched

-----------------------------------------------------------------------------
(* The work of the hooks.  Only the push that has the lock of its workspace is at
   work there.  What it has brought up stays so until it ends, and containers that
   it has left half done are in its own list of what to create anew or to certify. *)

AtWork == {"up", "workers", "provision", "health", "calling", "retire"}
Of(s)  == {a \in Applies : apply[a].slice = s}

Held(a)   == apply[a].at \in AtWork => lock[Ws(a)] = a
Unmade(a) == a > pushes => apply[a].at = "none"

Brought(a) ==
  apply[a].at \in AtWork \ {"up"} => \A t \in Declared(Y(a)) : gw[apply[a].slice][t] = Y(a).fw

Current(a) ==
  apply[a].at \in AtWork \ {"up", "workers"} =>
    \A t \in Declared(Y(a)) : Same(Boxes(a)[t], Config(Y(a), t))

Moves(a) == apply[a].at = "workers" => moved[a] \subseteq Declared(Y(a))

Working(a) == Held(a) /\ Unmade(a) /\ Brought(a) /\ Current(a) /\ Moves(a)

Joined(s, t) == app[s][t].att \/ \E a \in Of(s) : apply[a].at = "workers" /\ t \in moved[a]
Signed(s, t) == app[s][t].certs \/ \E a \in Of(s) : apply[a].at = "provision" /\ t \in fresh[a]
Whole(s) ==
  s \notin broken => \A t \in Slots : Exists(app[s][t]) => Joined(s, t) /\ Signed(s, t)

BInv == TypeOK /\ (\A a \in Applies : Working(a)) /\ (\A s \in Slices : Whole(s))

LEMMA WorkInit == Init => BInv
<1> SUFFICES ASSUME Init PROVE BInv  OBVIOUS
<1>1. \A a \in Applies : apply[a].at = "none"  BY DEF Init
<1>2. \A a \in Applies : Working(a)
  BY <1>1 DEF Working, Held, Unmade, Brought, Current, Moves, AtWork
<1>3. \A s \in Slices : Whole(s)
  BY DEF Init, Whole, Joined, Signed, Deployed, Exists, Gone
<1> QED BY <1>2, <1>3, InitType DEF BInv

\* The lock keeps the hooks of a workspace apart.
LEMMA Alone ==
  ASSUME BInv, NEW a \in Applies, NEW b \in Applies, Ws(a) = Ws(b),
         apply[b].at \in AtWork, lock[Ws(a)] \in {0, a}
  PROVE  a = b
BY DEF BInv, Working, Held, Applies

\* A step of the hook that has the lock, or takes it, concerns no other.
LEMMA OneWorks ==
  ASSUME BInv, NEW a \in Applies, NEW r, r = apply[a].slice, lock[Ws(a)] \in {0, a}, pushes' = pushes,
         broken \subseteq broken',
         \A b \in Applies : apply'[b].slice = apply[b].slice,
         \A b \in Applies \ {a} : /\ apply'[b] = apply[b] /\ moved'[b] = moved[b]
                                  /\ fresh'[b] = fresh[b],
         \A s \in Slices \ {apply[a].slice} : gw'[s] = gw[s] /\ app'[s] = app[s],
         \A w \in Workspaces \ {Ws(a)} : lock'[w] = lock[w],
         Working(a)', Whole(r)', TypeOK'
  PROVE  BInv'
<1>t. \A b \in Applies : apply[b].slice \in Slices /\ Ws(b) \in Workspaces
  BY WarnedType DEF BInv
<1>1. ASSUME NEW b \in Applies \ {a} PROVE Working(b)'
  <2>1. Working(b)  BY DEF BInv
  <2>2. CASE Ws(b) = Ws(a)
    <3>1. apply'[b].at \notin AtWork  BY <2>2, Alone
    <3> QED BY <2>1, <3>1 DEF Working, Held, Unmade, Brought, Current, Moves, AtWork
  <2>3. CASE Ws(b) # Ws(a)
    <3>1. apply[b].slice \in Slices \ {apply[a].slice} /\ Ws(b) \in Workspaces \ {Ws(a)}
      BY <1>t, <2>3 DEF Ws
    <3>2. /\ apply'[b] = apply[b] /\ moved'[b] = moved[b] /\ lock'[Ws(b)] = lock[Ws(b)]
          /\ gw'[apply[b].slice] = gw[apply[b].slice]
          /\ app'[apply[b].slice] = app[apply[b].slice]
      BY <3>1
    <3> QED BY <2>1, <3>2
            DEF Working, Held, Unmade, Brought, Current, Moves, Ws, Y, Boxes
  <2> QED BY <2>2, <2>3
<1>2. ASSUME NEW s \in Slices \ {apply[a].slice} PROVE Whole(s)'
  <2>1. Whole(s)  BY DEF BInv
  <2>2. \A b \in Of(s) : /\ b \in Of(s)' /\ apply'[b] = apply[b] /\ moved'[b] = moved[b]
                         /\ fresh'[b] = fresh[b]
    BY DEF Of
  <2>3. app'[s] = app[s]  OBVIOUS
  <2> QED BY <2>1, <2>2, <2>3 DEF Whole, Joined, Signed
<1> QED BY <1>1, <1>2 DEF BInv

\* A step that leaves the containers alone: hooks that it stops are no longer at
\* work, and what they leave half done counts as broken.
LEMMA OthersWork ==
  ASSUME BInv, TypeOK', UNCHANGED boxes, UNCHANGED hook, broken \subseteq broken',
         pushes <= pushes',
         \A b \in Applies :
           \/ apply'[b] = apply[b] /\ (apply[b].at \in AtWork => lock'[Ws(b)] = lock[Ws(b)])
           \/ /\ ~(b > pushes') /\ apply'[b].at \notin AtWork
              /\ \/ apply[b].at \notin {"workers", "provision"}
                 \/ apply[b].slice \in broken'
  PROVE  BInv'
<1>s. gw' = gw /\ app' = app /\ moved' = moved /\ fresh' = fresh  BY DEF boxes, hook
<1>p. pushes \in 0..MaxPushes /\ pushes' \in 0..MaxPushes  BY DEF BInv, TypeOK
<1>1. ASSUME NEW b \in Applies PROVE Working(b)'
  <2>0. Working(b)  BY DEF BInv
  <2>1. CASE apply'[b] = apply[b] /\ (apply[b].at \in AtWork => lock'[Ws(b)] = lock[Ws(b)])
    <3>1. b > pushes' => b > pushes  BY <1>p, BoundsAssumption DEF Applies
    <3> QED BY <1>s, <2>0, <2>1, <3>1
            DEF Working, Held, Unmade, Brought, Current, Moves, Ws, Y, Boxes
  <2>2. CASE ~(b > pushes') /\ apply'[b].at \notin AtWork
    BY <2>2 DEF Working, Held, Unmade, Brought, Current, Moves, AtWork
  <2> QED BY <2>1, <2>2
<1>2. ASSUME NEW s \in Slices, s \notin broken' PROVE Whole(s)'
  <2>1. Whole(s) /\ s \notin broken  BY <1>2 DEF BInv
  <2>2. \A b \in Of(s) : apply[b].at \in {"workers", "provision"} =>
          b \in Of(s)' /\ apply'[b] = apply[b]
    BY <1>2 DEF Of
  <2> QED BY <1>s, <2>1, <2>2 DEF Whole, Joined, Signed
<1>3. \A s \in Slices : Whole(s)'  BY <1>2 DEF Whole
<1> QED BY <1>1, <1>3 DEF BInv

\* What the helpers of the hook do to one slot.
LEMMA GatewaysAt ==
  ASSUME TypeOK, NEW a \in Applies, NEW M, Gateways(a, M), NEW t \in Slots,
         NEW s, s = apply[a].slice
  PROVE  /\ gw'[s][t] = IF t \in M THEN Y(a).fw ELSE gw[s][t]
         /\ t \notin M => app'[s][t] = app[s][t]
         /\ t \in M => /\ app'[s][t].db = app[s][t].db /\ app'[s][t].role = app[s][t].role
                       /\ app'[s][t].ver = app[s][t].ver
                       /\ app'[s][t].certs = app[s][t].certs
<1>1. s \in Slices /\ app[s][t] \in Containers  BY DEF TypeOK
<1>2. gw'[s][t] = IF t \in M THEN Y(a).fw ELSE gw[s][t]  BY <1>1 DEF Gateways, TypeOK
<1>3. app'[s][t] = IF t \in M THEN [app[s][t] EXCEPT !.att = FALSE] ELSE app[s][t]
  BY <1>1 DEF Gateways, TypeOK
<1> DEFINE c == app[s][t]
<1>4. c \in Containers /\ (t \in M => app'[s][t] = [c EXCEPT !.att = FALSE])
  BY <1>1, <1>3
<1> HIDE DEF c
<1>5. t \in M => /\ app'[s][t].db = c.db /\ app'[s][t].role = c.role
                 /\ app'[s][t].ver = c.ver /\ app'[s][t].certs = c.certs
  BY <1>4 DEF Containers
<1> QED BY <1>2, <1>3, <1>5 DEF c

LEMMA WorkersAt ==
  ASSUME TypeOK, NEW a \in Applies, NEW W, Workers(a, W), NEW t \in Slots,
         NEW s, s = apply[a].slice
  PROVE  /\ t \notin W => app'[s][t] = app[s][t]
         /\ t \in W => /\ Same(app'[s][t], Config(Y(a), t))
                       /\ app'[s][t].att
<1>1. s \in Slices  BY DEF TypeOK
<1>2. app'[s][t] = IF t \in W THEN [db |-> Y(a).wire[t], role |-> Role(Y(a), t),
                                    ver |-> Y(a).ver, att |-> TRUE, certs |-> FALSE]
                              ELSE app[s][t]
  BY <1>1 DEF Workers, TypeOK
<1> QED BY <1>2 DEF Same, Config

LEMMA CertifiedAt ==
  ASSUME TypeOK, NEW a \in Applies, NEW C, Certified(a, C), NEW t \in Slots,
         NEW s, s = apply[a].slice
  PROVE  /\ t \notin C => app'[s][t] = app[s][t]
         /\ /\ app'[s][t].db = app[s][t].db /\ app'[s][t].role = app[s][t].role
            /\ app'[s][t].ver = app[s][t].ver /\ app'[s][t].att = app[s][t].att
         /\ t \in C => app'[s][t].certs
<1>1. s \in Slices /\ app[s][t] \in Containers  BY DEF TypeOK
<1>2. app'[s][t] = IF t \in C THEN [app[s][t] EXCEPT !.certs = TRUE] ELSE app[s][t]
  BY <1>1 DEF Certified, TypeOK
<1> DEFINE c == app[s][t]
<1>3. c \in Containers /\ app'[s][t] = IF t \in C THEN [c EXCEPT !.certs = TRUE] ELSE c
  BY <1>1, <1>2
<1> HIDE DEF c
<1>4. CASE t \in C  BY <1>3, <1>4 DEF Containers, c
<1>5. CASE t \notin C  BY <1>3, <1>5 DEF c
<1> QED BY <1>4, <1>5

LEMMA RetiredAt ==
  ASSUME TypeOK, NEW a \in Applies, NEW D, Retired(a, D), NEW t \in Slots,
         NEW s, s = apply[a].slice
  PROVE  /\ gw'[s][t] = IF t \in D THEN 0 ELSE gw[s][t]
         /\ app'[s][t] = IF t \in D THEN Gone ELSE app[s][t]
<1>1. s \in Slices  BY DEF TypeOK
<1> QED BY <1>1 DEF Retired, TypeOK

\* What is declared of a slot exists once it is the same.
LEMMA SameExists ==
  ASSUME NEW y \in Records, NEW t \in Declared(y), NEW c, Same(c, Config(y, t))
  PROVE  Exists(c)
BY DEF Declared, Same, Config, Exists

LEMMA GoesAt ==
  ASSUME TypeOK, NEW a \in Applies, NEW to, Goes(a, to)
  PROVE  /\ apply'[a].at = to /\ apply'[a].slice = apply[a].slice /\ apply'[a].y = apply[a].y
         /\ Y(a)' = Y(a) /\ Ws(a)' = Ws(a)
BY DEF Goes, TypeOK, Y, Ws

\* Before a step of the hook with the lock, its slice has only its own list.
LEMMA OwnList ==
  ASSUME BInv, NEW a \in Applies, lock[Ws(a)] \in {0, a}, NEW s, s = apply[a].slice,
         s \notin broken, NEW t \in Slots, Exists(app[s][t])
  PROVE  /\ app[s][t].att \/ (apply[a].at = "workers" /\ t \in moved[a])
         /\ app[s][t].certs \/ (apply[a].at = "provision" /\ t \in fresh[a])
<1>1. s \in Slices /\ Whole(s)  BY DEF BInv, TypeOK
<1>2. \A b \in Of(s) : apply[b].at \in AtWork => b = a
  BY Alone DEF Of, Ws
<1> QED BY <1>1, <1>2 DEF Whole, Joined, Signed, AtWork

\* After it, containers are whole if they need no list, or are in its own.
LEMMA WholeAfter ==
  ASSUME TypeOK, NEW a \in Applies, NEW to, Goes(a, to), NEW s, s = apply[a].slice,
         \A t \in Slots : Exists(app'[s][t]) /\ s \notin broken' =>
            /\ app'[s][t].att \/ (to = "workers" /\ t \in moved'[a])
            /\ app'[s][t].certs \/ (to = "provision" /\ t \in fresh'[a])
  PROVE  Whole(s)'
<1>1. a \in Of(s)' /\ apply'[a].at = to  BY GoesAt DEF Of
<1> QED BY <1>1 DEF Whole, Joined, Signed

LEMMA UpWork ==
  ASSUME BInv, NEW a \in Applies, Up(a), NEW s, s = apply[a].slice
  PROVE  Working(a)' /\ Whole(s)'
<1>t. TypeOK /\ Working(a)  BY DEF BInv
<1>a. At(a, "up") /\ Goes(a, "workers") /\ Gateways(a, Moving(a)) /\ lock' = lock
      /\ pushes' = pushes /\ broken' = broken /\ moved'[a] = Moving(a)
  BY <1>t DEF Up, trouble, TypeOK
<1>h. lock[Ws(a)] = a  BY <1>t, <1>a DEF Working, Held, At, AtWork
<1>g. /\ apply'[a].at = "workers" /\ apply'[a].slice = s
      /\ Y(a)' = Y(a) /\ Ws(a)' = Ws(a)
  BY <1>t, <1>a, GoesAt
<1>1. Held(a)' /\ Unmade(a)' /\ Current(a)' /\ Moves(a)'
  <2>1. ~(a > pushes)  BY <1>t, <1>a DEF Working, Unmade, At
  <2> QED BY <1>a, <1>h, <1>g, <2>1 DEF Held, Unmade, Current, Moves, Moving, AtWork
<1>2. Brought(a)'
  <2>1. ASSUME NEW t \in Declared(Y(a)) PROVE gw'[s][t] = Y(a).fw
    <3>1. t \in Slots  BY DEF Declared
    <3>2. gw'[s][t] = IF t \in Moving(a) THEN Y(a).fw ELSE gw[s][t]
      BY <1>t, <1>a, <3>1, GatewaysAt
    <3> QED BY <3>2 DEF Moving
  <2> QED BY <1>g, <2>1 DEF Brought
<1>3. Whole(s)'
  <2>1. ASSUME NEW t \in Slots, Exists(app'[s][t]), s \notin broken'
        PROVE  (app'[s][t].att \/ t \in moved'[a]) /\ app'[s][t].certs
    <3>1. /\ t \notin Moving(a) => app'[s][t] = app[s][t]
          /\ t \in Moving(a) => app'[s][t].db = app[s][t].db
                                /\ app'[s][t].certs = app[s][t].certs
      BY <1>t, <1>a, GatewaysAt
    <3>2. Exists(app[s][t])  BY <2>1, <3>1 DEF Exists
    <3>3. app[s][t].att /\ app[s][t].certs
      BY <1>a, <1>h, <2>1, <3>2, OwnList DEF At
    <3> QED BY <1>a, <3>1, <3>3
  <2> QED BY <1>t, <1>a, <2>1, WholeAfter
<1> QED BY <1>1, <1>2, <1>3 DEF Working

LEMMA CreateWork ==
  ASSUME BInv, NEW a \in Applies, Create(a), NEW s, s = apply[a].slice
  PROVE  Working(a)' /\ Whole(s)'
<1>t. TypeOK /\ Working(a)  BY DEF BInv
<1>a. At(a, "workers") /\ Goes(a, "provision") /\ Workers(a, Stale(a)) /\ lock' = lock
      /\ pushes' = pushes /\ broken' = broken /\ gw' = gw /\ fresh'[a] = Stale(a)
  BY <1>t DEF Create, trouble, TypeOK
<1>h. lock[Ws(a)] = a  BY <1>t, <1>a DEF Working, Held, At, AtWork
<1>g. /\ apply'[a].at = "provision" /\ apply'[a].slice = s
      /\ Y(a)' = Y(a) /\ Ws(a)' = Ws(a)
  BY <1>t, <1>a, GoesAt
<1>1. Held(a)' /\ Unmade(a)' /\ Moves(a)'
  <2>1. ~(a > pushes)  BY <1>t, <1>a DEF Working, Unmade, At
  <2> QED BY <1>a, <1>h, <1>g, <2>1 DEF Held, Unmade, Moves
<1>2. Brought(a)'
  BY <1>t, <1>a, <1>g DEF Working, Brought, At, AtWork
<1>3. Current(a)'
  <2>1. ASSUME NEW t \in Declared(Y(a)) PROVE Same(app'[s][t], Config(Y(a), t))
    <3>1. t \in Slots  BY DEF Declared
    <3>2. /\ t \notin Stale(a) => app'[s][t] = app[s][t]
          /\ t \in Stale(a) => Same(app'[s][t], Config(Y(a), t))
      BY <1>t, <1>a, <3>1, WorkersAt
    <3>3. t \notin Stale(a) => Same(app[s][t], Config(Y(a), t))  BY DEF Stale, Boxes
    <3> QED BY <3>2, <3>3
  <2> QED BY <1>g, <2>1 DEF Current, Boxes
<1>4. Whole(s)'
  <2>1. ASSUME NEW t \in Slots, Exists(app'[s][t]), s \notin broken'
        PROVE  app'[s][t].att /\ (app'[s][t].certs \/ t \in fresh'[a])
    <3>1. /\ t \notin Stale(a) => app'[s][t] = app[s][t]
          /\ t \in Stale(a) => app'[s][t].att
      BY <1>t, <1>a, WorkersAt
    <3>2. CASE t \in Stale(a)  BY <1>a, <3>1, <3>2
    <3>3. CASE t \notin Stale(a)
      <4>1. Exists(app[s][t])  BY <2>1, <3>1, <3>3
      <4>2. t \notin moved[a]
        BY <1>t, <1>a, <3>3 DEF Working, Moves, At, Stale
      <4>3. app[s][t].att /\ app[s][t].certs
        BY <1>a, <1>h, <2>1, <4>1, <4>2, OwnList DEF At
      <4> QED BY <3>1, <3>3, <4>3
    <3> QED BY <3>2, <3>3
  <2> QED BY <1>t, <1>a, <2>1, WholeAfter
<1> QED BY <1>1, <1>2, <1>3, <1>4 DEF Working

\* Certificates in the containers C, of what this push has created; that of the others
\* counts as broken.
LEMMA CertifyWork ==
  ASSUME BInv, NEW a \in Applies, NEW s, s = apply[a].slice,
         At(a, "provision"), Goes(a, "health"),
         NEW C, Certified(a, C), fresh[a] \subseteq C \/ s \in broken',
         UNCHANGED <<lock, pushes, gw>>, broken \subseteq broken'
  PROVE  Working(a)' /\ Whole(s)'
<1>t. TypeOK /\ Working(a)  BY DEF BInv
<1>h. lock[Ws(a)] = a  BY <1>t DEF Working, Held, At, AtWork
<1>g. /\ apply'[a].at = "health" /\ apply'[a].slice = s
      /\ Y(a)' = Y(a) /\ Ws(a)' = Ws(a)
  BY <1>t, GoesAt
<1>c. \A t \in Slots :
        /\ app'[s][t].db = app[s][t].db /\ app'[s][t].role = app[s][t].role
        /\ app'[s][t].ver = app[s][t].ver /\ app'[s][t].att = app[s][t].att
        /\ t \in C => app'[s][t].certs
        /\ t \notin C => app'[s][t] = app[s][t]
  BY <1>t, CertifiedAt
<1>1. Held(a)' /\ Unmade(a)' /\ Moves(a)'
  <2>1. ~(a > pushes)  BY <1>t DEF Working, Unmade, At
  <2> QED BY <1>h, <1>g, <2>1 DEF Held, Unmade, Moves
<1>2. Brought(a)'  BY <1>t, <1>g DEF Working, Brought, At, AtWork
<1>3. Current(a)'
  <2>1. \A t \in Declared(Y(a)) : t \in Slots /\ Same(app[s][t], Config(Y(a), t))
    BY <1>t DEF Working, Current, At, AtWork, Boxes, Declared
  <2> QED BY <1>c, <1>g, <2>1 DEF Current, Boxes, Same
<1>4. Whole(s)'
  <2>1. ASSUME NEW t \in Slots, Exists(app'[s][t]), s \notin broken'
        PROVE  app'[s][t].att /\ app'[s][t].certs
    <3>1. Exists(app[s][t])  BY <1>c, <2>1 DEF Exists
    <3>2. app[s][t].att /\ (app[s][t].certs \/ t \in fresh[a])
      BY <1>h, <2>1, <3>1, OwnList DEF At
    <3>3. app'[s][t].att  BY <1>c, <3>2
    <3>4. CASE t \in C  BY <1>c, <3>3, <3>4
    <3>5. CASE t \notin C  BY <1>c, <2>1, <3>2, <3>3, <3>5
    <3> QED BY <3>4, <3>5
  <2> QED BY <1>t, <2>1, WholeAfter
<1> QED BY <1>1, <1>2, <1>3, <1>4 DEF Working

\* The end of a hook: what it leaves existed and was whole, or counts as broken.
LEMMA EndWork ==
  ASSUME BInv, NEW a \in Applies, NEW s, s = apply[a].slice,
         NEW to \in {"done", "failed"}, Goes(a, to),
         apply[a].at \in AtWork, pushes' = pushes, broken \subseteq broken',
         s \notin broken' =>
            /\ apply[a].at \notin {"workers", "provision"}
            /\ \A t \in Slots : app'[s][t] = app[s][t] \/ app'[s][t] = Gone
  PROVE  Working(a)' /\ Whole(s)'
<1>t. TypeOK /\ Working(a)  BY DEF BInv
<1>h. lock[Ws(a)] = a  BY <1>t DEF Working, Held
<1>g. apply'[a].at = to  BY <1>t, GoesAt
<1>1. Working(a)'
  <2>1. ~(a > pushes)  BY <1>t DEF Working, Unmade, AtWork
  <2> QED BY <1>g, <2>1 DEF Working, Held, Unmade, Brought, Current, Moves, AtWork
<1>2. Whole(s)'
  <2>1. ASSUME NEW t \in Slots, Exists(app'[s][t]), s \notin broken'
        PROVE  app'[s][t].att /\ app'[s][t].certs
    <3>1. app'[s][t] = app[s][t]  BY <2>1 DEF Exists, Gone
    <3>2. app[s][t].att /\ app[s][t].certs  BY <1>h, <2>1, <3>1, OwnList
    <3> QED BY <3>1, <3>2
  <2> QED BY <1>t, <2>1, WholeAfter
<1> QED BY <1>1, <1>2

\* What a hook leaves of the lists and the locks of others.
LEMMA HookElse ==
  ASSUME TypeOK, NEW a \in Applies, Hook(a)
  PROVE  /\ \A b \in Applies \ {a} : moved'[b] = moved[b] /\ fresh'[b] = fresh[b]
         /\ \A w \in Workspaces \ {Ws(a)} : lock'[w] = lock[w]
         /\ broken \subseteq broken' /\ warned \subseteq warned'
<1>t. /\ moved \in [Applies -> SUBSET Slots] /\ fresh \in [Applies -> SUBSET Slots]
      /\ lock \in [Workspaces -> 0..MaxPushes]
  BY DEF TypeOK
<1>1. CASE Lock(a) \/ LockTimeout(a) \/ Provision(a) \/ Call(a) \/ Retire(a)
  BY <1>1, <1>t DEF Lock, LockTimeout, Provision, Call, Retire, Releases, hook, trouble
<1>2. CASE Up(a) \/ Create(a)
  BY <1>2, <1>t DEF Up, Create, trouble
<1>3. CASE CertsFail(a) \/ RetireFails(a) \/ CallTimeout(a)
  BY <1>3, <1>t DEF CertsFail, RetireFails, CallTimeout, Releases, hook
<1>4. CASE UpFails(a) \/ CreateFails(a) \/ ProvisionFails(a)
  <2>1. Fails(a)  BY <1>4 DEF UpFails, CreateFails, ProvisionFails
  <2> QED BY <2>1, <1>t DEF Fails, Releases, hook
<1> QED BY <1>1, <1>2, <1>3, <1>4 DEF Hook

LEMMA WorkHook ==
  ASSUME BInv, TypeOK', NEW a \in Applies, Hook(a)
  PROVE  BInv'
<1>t. TypeOK /\ Working(a)  BY DEF BInv
<1>s. PICK s : s = apply[a].slice  OBVIOUS
<1>e. /\ \A r \in Slices \ {s} : gw'[r] = gw[r] /\ app'[r] = app[r]
      /\ pushes' = pushes /\ apply[a].at # "none" /\ \E to : Goes(a, to)
  BY <1>t, <1>s, HookOwn
<1>f. /\ \A b \in Applies \ {a} : moved'[b] = moved[b] /\ fresh'[b] = fresh[b]
      /\ \A w \in Workspaces \ {Ws(a)} : lock'[w] = lock[w]
      /\ broken \subseteq broken' /\ warned \subseteq warned'
  BY <1>t, HookElse
<1>g. /\ \A b \in Applies : apply'[b].slice = apply[b].slice
      /\ \A b \in Applies \ {a} : apply'[b] = apply[b]
  BY <1>t, <1>e, GoesOnly
<1>u. ~(a > pushes)  BY <1>t, <1>e DEF Working, Unmade
<1>o. ASSUME lock[Ws(a)] \in {0, a}, Working(a)', Whole(s)' PROVE BInv'
  BY <1>s, <1>e, <1>f, <1>g, <1>o, OneWorks
<1>h. apply[a].at \in AtWork => lock[Ws(a)] \in {0, a}  BY <1>t DEF Working, Held
<1>1. CASE Lock(a)
  <2>1. /\ lock[Ws(a)] = 0 /\ lock'[Ws(a)] = a /\ Goes(a, "up") /\ app' = app
        /\ apply[a].at = "wait" /\ broken' = broken
    BY <1>1, <1>t, WarnedType DEF Lock, At, boxes, trouble, TypeOK
  <2>2. apply'[a].at = "up" /\ Ws(a)' = Ws(a)  BY <1>t, <2>1, GoesAt
  <2>3. Working(a)'
    BY <1>e, <1>u, <2>1, <2>2 DEF Working, Held, Unmade, Brought, Current, Moves
  <2>4. Whole(s)'
    <3>1. \A t \in Slots : Exists(app[s][t]) /\ s \notin broken =>
            app[s][t].att /\ app[s][t].certs
      BY <1>s, <2>1, OwnList
    <3> QED BY <1>t, <1>s, <2>1, <3>1, WholeAfter
  <2> QED BY <1>o, <2>1, <2>3, <2>4
<1>2. CASE LockTimeout(a)
  <2>1. /\ UNCHANGED boxes /\ UNCHANGED hook /\ lock' = lock /\ broken' = broken
        /\ Goes(a, "failed") /\ apply[a].at = "wait"
    BY <1>2 DEF LockTimeout, At, trouble
  <2>2. apply'[a].at = "failed"  BY <1>t, <2>1, GoesAt
  <2>3. pushes <= pushes'  BY <1>t, <1>e DEF TypeOK
  <2>4. ~(a > pushes') /\ apply'[a].at \notin AtWork
        /\ apply[a].at \notin {"workers", "provision"}
    BY <1>e, <1>u, <2>1, <2>2 DEF AtWork
  <2> QED BY <1>f, <1>g, <2>1, <2>3, <2>4, OthersWork
<1>3. CASE Up(a)
  <2>1. lock[Ws(a)] \in {0, a}  BY <1>3, <1>h DEF Up, At, AtWork
  <2> QED BY <1>3, <1>s, <1>o, <2>1, UpWork
<1>4. CASE Create(a)
  <2>1. lock[Ws(a)] \in {0, a}  BY <1>4, <1>h DEF Create, At, AtWork
  <2> QED BY <1>4, <1>s, <1>o, <2>1, CreateWork
<1>5. CASE Provision(a) \/ CertsFail(a)
  <2>1. PICK C : Certified(a, C) /\ (fresh[a] \subseteq C \/ s \in broken')
    <3>1. CASE Provision(a)  BY <3>1 DEF Provision
    <3>2. CASE CertsFail(a)  BY <3>2, <1>s DEF CertsFail
    <3> QED BY <1>5, <3>1, <3>2
  <2>2. At(a, "provision") /\ Goes(a, "health") /\ UNCHANGED <<lock, pushes, gw>>
    BY <1>5 DEF Provision, CertsFail
  <2>3. Working(a)' /\ Whole(s)'  BY <1>s, <1>f, <2>1, <2>2, CertifyWork
  <2>4. lock[Ws(a)] \in {0, a}  BY <1>h, <2>2 DEF At, AtWork
  <2> QED BY <1>o, <2>3, <2>4
<1>6. CASE Call(a)
  <2>1. /\ gw' = gw /\ app' = app /\ lock' = lock /\ broken' = broken
        /\ Goes(a, "calling") /\ apply[a].at = "health"
    BY <1>6 DEF Call, At, boxes, trouble
  <2>2. /\ apply'[a].at = "calling" /\ Ws(a)' = Ws(a) /\ Y(a)' = Y(a)
        /\ apply'[a].slice = apply[a].slice
    BY <1>t, <2>1, GoesAt
  <2>3. lock[Ws(a)] = a  BY <1>t, <2>1 DEF Working, Held, AtWork
  <2>4. Working(a)'
    BY <1>t, <1>e, <1>u, <2>1, <2>2, <2>3
       DEF Working, Held, Unmade, Brought, Current, Moves, Boxes, AtWork
  <2>5. Whole(s)'
    <3>1. \A t \in Slots : Exists(app[s][t]) /\ s \notin broken =>
            app[s][t].att /\ app[s][t].certs
      BY <1>s, <2>1, <2>3, OwnList
    <3> QED BY <1>t, <1>s, <2>1, <3>1, WholeAfter
  <2> QED BY <1>o, <2>3, <2>4, <2>5
<1>7. CASE Retire(a) \/ RetireFails(a)
  <2>1. Goes(a, "done") /\ apply[a].at = "retire" /\ \E D : Retired(a, D)
    BY <1>7 DEF Retire, RetireFails, At
  <2>2. PICK D : Retired(a, D)  BY <2>1
  <2>3. \A t \in Slots : app'[s][t] = app[s][t] \/ app'[s][t] = Gone
    BY <1>t, <1>s, <2>2, RetiredAt
  <2>4. apply[a].at \in AtWork /\ apply[a].at \notin {"workers", "provision"}
    BY <2>1 DEF AtWork
  <2>5. Working(a)' /\ Whole(s)'  BY <1>s, <1>e, <1>f, <2>1, <2>3, <2>4, EndWork
  <2> QED BY <1>h, <1>o, <2>4, <2>5
<1>8. CASE UpFails(a) \/ CreateFails(a) \/ ProvisionFails(a)
  <2>1. Fails(a) /\ apply[a].at \in {"up", "workers", "provision"}
    BY <1>8 DEF UpFails, CreateFails, ProvisionFails, At
  <2>2. Goes(a, "failed") /\ s \in broken' /\ apply[a].at \in AtWork
    BY <1>s, <2>1 DEF Fails, AtWork
  <2>3. Working(a)' /\ Whole(s)'  BY <1>s, <1>e, <1>f, <2>2, EndWork
  <2> QED BY <1>h, <1>o, <2>2, <2>3
<1>9. CASE CallTimeout(a)
  <2>1. Goes(a, "failed") /\ app' = app /\ apply[a].at = "calling"
    BY <1>9 DEF CallTimeout, At, boxes
  <2>2. apply[a].at \in AtWork /\ apply[a].at \notin {"workers", "provision"}
    BY <2>1 DEF AtWork
  <2>3. Working(a)' /\ Whole(s)'  BY <1>s, <1>e, <1>f, <2>1, <2>2, EndWork
  <2> QED BY <1>h, <1>o, <2>2, <2>3
<1> QED BY <1>1, <1>2, <1>3, <1>4, <1>5, <1>6, <1>7, <1>8, <1>9 DEF Hook

LEMMA GitopsElse ==
  ASSUME NEW s \in Slices, Gitops(s)
  PROVE  UNCHANGED hook /\ lock' = lock /\ broken' = broken /\ warned' = warned
BY DEF Gitops, Push, Deploy, Remove, SwapDr, SetPosture, BeginPromote, PushStaged,
     FinishPromote, PromoteFails, Operation, trouble

\* What a push changes.
LEMMA PushedAt ==
  ASSUME TypeOK, NEW s \in Slices, Pushed(s)
  PROVE  /\ pushes' \in Applies /\ pushes' > pushes /\ pushes \in Nat
         /\ apply'[pushes'].at = "wait"
         /\ \A a \in Applies : a # pushes' => apply'[a] = apply[a]
<1>1. pushes \in 0..MaxPushes /\ pushes' = pushes + 1 /\ pushes' \in Applies
  BY BoundsAssumption DEF TypeOK, Pushed, Applies
<1> QED BY <1>1 DEF Pushed, TypeOK

LEMMA WorkGitops ==
  ASSUME BInv, TypeOK', NEW s \in Slices, Gitops(s)
  PROVE  BInv'
<1>t. TypeOK /\ \A a \in Applies : Unmade(a)  BY DEF BInv, Working
<1>1. UNCHANGED boxes /\ UNCHANGED hook /\ lock' = lock /\ broken' = broken
  BY <1>t, GitopsOwn, GitopsElse
<1>2. CASE Pushed(s)
  <2>1. /\ pushes' \in Applies /\ pushes' > pushes /\ pushes \in Nat
        /\ apply'[pushes'].at = "wait"
        /\ \A a \in Applies : a # pushes' => apply'[a] = apply[a]
    BY <1>t, <1>2, PushedAt
  <2>2. pushes' \in Nat  BY <2>1, BoundsAssumption DEF Applies
  <2>3. apply[pushes'].at = "none"  BY <1>t, <2>1 DEF Unmade
  <2>4. pushes <= pushes' /\ ~(pushes' > pushes')  BY <2>1, <2>2
  <2>5. \A a \in Applies :
          \/ apply'[a] = apply[a] /\ lock'[Ws(a)] = lock[Ws(a)]
          \/ /\ ~(a > pushes') /\ apply'[a].at \notin AtWork
             /\ apply[a].at \notin {"workers", "provision"}
    BY <1>1, <2>1, <2>3, <2>4 DEF AtWork
  <2> QED BY <1>1, <2>4, <2>5, OthersWork
<1>3. CASE pushes' = pushes /\ apply' = apply
  <2>1. pushes <= pushes'  BY <1>t, <1>3 DEF TypeOK
  <2> QED BY <1>1, <1>3, <2>1, OthersWork
<1> QED BY <1>t, <1>2, <1>3, GitopsOwn

LEMMA WorkDaemon ==
  ASSUME BInv, TypeOK', NEW a \in Applies, Daemon(a)
  PROVE  BInv'
<1>t. TypeOK /\ Working(a) /\ pushes <= pushes  BY DEF BInv, TypeOK
<1>1. /\ UNCHANGED boxes /\ UNCHANGED hook /\ pushes' = pushes /\ lock' = lock
      /\ broken' = broken
  BY DEF Daemon, List, Answer, Skip, Write, Record, Unroute, Forget, WriteFails,
       UnrouteFails, Warning, trouble, boxes
<1>2. CASE apply' = apply
  BY <1>t, <1>1, <1>2, OthersWork
<1>3. CASE At(a, "calling") /\ Goes(a, "retire")
  <2>s. PICK s : s = apply[a].slice  OBVIOUS
  <2>1. /\ apply'[a].at = "retire" /\ Ws(a)' = Ws(a) /\ Y(a)' = Y(a)
        /\ apply'[a].slice = apply[a].slice
        /\ \A b \in Applies : apply'[b].slice = apply[b].slice
        /\ \A b \in Applies \ {a} : apply'[b] = apply[b]
    BY <1>t, <1>3, GoesAt, GoesOnly
  <2>2. apply[a].at = "calling" /\ lock[Ws(a)] = a
    BY <1>t, <1>3 DEF Working, Held, At, AtWork
  <2>3. gw' = gw /\ app' = app /\ moved' = moved /\ fresh' = fresh
    BY <1>1 DEF boxes, hook
  <2>4. Working(a)'
    BY <1>t, <1>1, <2>1, <2>2, <2>3
       DEF Working, Held, Unmade, Brought, Current, Moves, Boxes, AtWork
  <2>5. Whole(s)'
    <3>1. \A t \in Slots : Exists(app[s][t]) /\ s \notin broken =>
            app[s][t].att /\ app[s][t].certs
      BY <2>s, <2>2, OwnList
    <3> QED BY <1>t, <1>1, <1>3, <2>s, <2>3, <3>1, WholeAfter
  <2> QED BY <1>1, <2>s, <2>1, <2>2, <2>3, <2>4, <2>5, OneWorks
<1>4. apply' = apply \/ (At(a, "calling") /\ Goes(a, "retire"))
  BY DEF Daemon, List, Answer, Skip, Write, Record, Unroute, Forget, WriteFails,
       UnrouteFails
<1> QED BY <1>2, <1>3, <1>4

LEMMA WorkRestart ==
  ASSUME BInv, TypeOK',
         DaemonRestart \/ GitopsRestart \/ (\E w \in Workspaces : DriverRestart(w))
  PROVE  BInv'
<1>t. /\ TypeOK /\ \A a \in Applies : Working(a)
      /\ apply \in [Applies -> [slice : Slices, y : Records, at : Phases]]
      /\ lock \in [Workspaces -> 0..MaxPushes]
      /\ \A a \in Applies : Ws(a) \in Workspaces
  BY WarnedType DEF BInv, TypeOK
<1>p. pushes' = pushes /\ pushes <= pushes' /\ UNCHANGED boxes
  BY <1>t, RestartOwn DEF TypeOK
<1>u. \A a \in Applies : apply[a].at # "none" => ~(a > pushes')
  BY <1>t, <1>p DEF Working, Unmade
<1>1. CASE DaemonRestart
  <2> DEFINE served == {a \in Applies : req[a] # "none"}
             waiting == {a \in served : At(a, "calling")}
  <2>1. /\ apply' = [a \in Applies |-> IF a \in waiting
                                    THEN [apply[a] EXCEPT !.at = "failed"] ELSE apply[a]]
        /\ lock' = [w \in Workspaces |-> IF lock[w] \in waiting THEN 0 ELSE lock[w]]
        /\ UNCHANGED hook /\ broken' = broken
    BY <1>1 DEF DaemonRestart
  <2>2. ASSUME NEW a \in waiting
        PROVE  /\ ~(a > pushes') /\ apply'[a].at \notin AtWork
               /\ apply[a].at \notin {"workers", "provision"}
    <3>1. a \in Applies /\ apply[a].at = "calling"  BY DEF At
    <3>2. apply'[a] = [apply[a] EXCEPT !.at = "failed"]  BY <2>1
    <3>3. apply'[a].at = "failed"  BY <1>t, <3>1, <3>2
    <3> QED BY <1>u, <3>1, <3>3 DEF AtWork
  <2>3. ASSUME NEW a \in Applies \ waiting
        PROVE  apply'[a] = apply[a] /\ (apply[a].at \in AtWork => lock'[Ws(a)] = lock[Ws(a)])
    <3>1. apply[a].at \in AtWork => lock[Ws(a)] = a  BY <1>t DEF Working, Held
    <3> HIDE DEF waiting
    <3> QED BY <1>t, <2>1, <3>1
  <2> QED BY <1>p, <2>1, <2>2, <2>3, OthersWork
<1>2. CASE GitopsRestart
  <2>1. apply' = apply /\ lock' = lock /\ UNCHANGED hook /\ broken' = broken
    BY <1>2 DEF GitopsRestart
  <2> QED BY <1>p, <2>1, OthersWork
<1>3. ASSUME NEW w \in Workspaces, DriverRestart(w) PROVE BInv'
  <2>1. /\ apply' = [a \in Applies |-> IF a \in Running(w)
                                    THEN [apply[a] EXCEPT !.at = "failed"] ELSE apply[a]]
        /\ lock' = [lock EXCEPT ![w] = 0] /\ UNCHANGED hook
        /\ broken' = broken \cup {apply[a].slice : a \in {b \in Running(w) : ~At(b, "wait")}}
    BY <1>3 DEF DriverRestart
  <2>2. ASSUME NEW a \in Running(w)
        PROVE  /\ ~(a > pushes') /\ apply'[a].at \notin AtWork
               /\ \/ apply[a].at \notin {"workers", "provision"}
                  \/ apply[a].slice \in broken'
    <3>1. a \in Applies /\ apply[a].at # "none"  BY DEF Running, Ended
    <3>2. apply'[a].at = "failed"  BY <1>t, <2>1, <3>1
    <3> QED BY <1>u, <2>1, <3>1, <3>2 DEF AtWork, At
  <2>3. ASSUME NEW a \in Applies \ Running(w)
        PROVE  apply'[a] = apply[a] /\ (apply[a].at \in AtWork => lock'[Ws(a)] = lock[Ws(a)])
    <3>1. apply[a].at \in AtWork => Ws(a) # w  BY DEF Running, Ended, AtWork
    <3> QED BY <1>t, <2>1, <3>1
  <2> QED BY <1>p, <2>1, <2>2, <2>3, OthersWork
<1> QED BY <1>1, <1>2, <1>3

LEMMA WorkNext == ASSUME BInv, TypeOK', [Next]_vars PROVE BInv'
<1>1. CASE Next
  BY <1>1, WorkGitops, WorkHook, WorkDaemon, WorkRestart DEF Next
<1>2. CASE UNCHANGED vars
  <2>1. /\ UNCHANGED boxes /\ UNCHANGED hook /\ broken' = broken /\ apply' = apply
        /\ lock' = lock /\ pushes' = pushes
    BY <1>2 DEF vars, trouble
  <2>2. pushes <= pushes'  BY <2>1 DEF BInv, TypeOK
  <2> QED BY <2>1, <2>2, OthersWork
<1> QED BY <1>1, <1>2

-----------------------------------------------------------------------------
(* The routes.  For a slice whose requests have all gone through, a request is
   served while its hook waits for it: there is one at a time, and what it has
   left, half done and done of the hosts of the slice is as the phases go.  A host
   is marked and recorded as the proxies have it, but for the one that is half
   done; that is what makes it safe to ask the record and not the proxies. *)

OwnPlaces(s) == {s} \X Hosts
Stays(a, p)  == p[2] \in Routed(Y(a))
Right(a, p)  == p \in plat /\ sub[p] = Want(a, p)

Quiet(a) ==
  /\ req[a] = "none" => todo[a] = {} /\ half[a] = {}
  /\ \A p, q \in half[a] : p = q

Answered(a) == req[a] # "none" => apply[a].at = "calling"

Upserting(a) == req[a] = "upsert" =>
  /\ \A p \in todo[a] \cup half[a] : Stays(a, p)
  /\ \A p \in half[a] : Right(a, p)
  /\ \A p \in OwnPlaces(apply[a].slice) : Stays(a, p) => p \in todo[a] \/ Right(a, p)

Pruning(a) == req[a] = "prune" =>
  /\ \A p \in half[a] : p \notin plat
  /\ \A p \in todo[a] \cup half[a] : ~Stays(a, p)
  /\ \A p \in OwnPlaces(apply[a].slice) :
       IF Stays(a, p) THEN Right(a, p) ELSE p \in plat => p \in todo[a]

Retiring(a) == apply[a].at = "retire" =>
  \A p \in OwnPlaces(apply[a].slice) : IF Stays(a, p) THEN Right(a, p) ELSE p \notin plat

Converging(a) == Quiet(a) /\ Answered(a) /\ Upserting(a) /\ Pruning(a) /\ Retiring(a)

Halfway(s, p, phase) == \E a \in Of(s) : req[a] = phase /\ p \in half[a]
Noted(s, p) ==
  /\ p \in plat => Halfway(s, p, "upsert") \/ (p \in tagged /\ rec[p] = sub[p])
  /\ p \in tagged => Halfway(s, p, "prune") \/ p \in plat
Reaches(s, p) == sub[p] # 0 /\ Exists(app[s][sub[p]]) /\ gw[s][sub[p]] # 0

Routing(s) ==
  /\ \A a \in Of(s) : Converging(a)
  /\ \A p \in OwnPlaces(s) : Noted(s, p) /\ (p \in plat => Reaches(s, p))

RInv == BInv /\ CInv /\ (Begins = {} => \A s \in Slices \ warned : Routing(s))

\* A place that the record declares is to reach a slot that it declares.
LEMMA WantOf ==
  ASSUME TypeOK, NEW a \in Applies, NEW p \in Places
  PROVE  /\ Stays(a, p) <=> Want(a, p) # 0
         /\ Stays(a, p) => Want(a, p) \in Declared(Y(a)) /\ Want(a, p) \in Slots
<1>1. Y(a) \in Records /\ p[2] \in Hosts  BY WarnedType DEF Places
<1>2. Want(a, p) # 0 => Want(a, p) \in Declared(Y(a))  BY <1>1, UpstreamOf DEF Want
<1>3. Stays(a, p) <=> Want(a, p) # 0  BY <1>1 DEF Stays, Want, Routed
<1> QED BY <1>2, <1>3 DEF Declared

LEMMA RoutesInit == Init => RInv
<1> SUFFICES ASSUME Init PROVE RInv  OBVIOUS
<1>1. \A a \in Applies : apply[a].at = "none" /\ req[a] = "none" /\ todo[a] = {}
                         /\ half[a] = {}
  BY DEF Init
<1>2. \A a \in Applies : Converging(a)
  BY <1>1 DEF Converging, Quiet, Answered, Upserting, Pruning, Retiring
<1>3. ASSUME NEW s \in Slices, NEW p \in OwnPlaces(s)
      PROVE  Noted(s, p) /\ (p \in plat => Reaches(s, p))
  <2>1. p \in Places /\ p[1] = s /\ p[2] \in Hosts  BY DEF OwnPlaces, Places
  <2>2. /\ plat = {q \in Places : sub[q] # 0} /\ rec = sub /\ tagged = plat
        /\ sub[p] = Upstream(yaml[s], p[2])
        /\ app[s] = Deployed(yaml[s])
        /\ gw[s] = [t \in Slots |-> IF t \in Declared(yaml[s]) THEN 1 ELSE 0]
    BY <2>1 DEF Init
  <2>3. yaml[s] \in Records  BY InitType DEF TypeOK
  <2>4. sub[p] # 0 => sub[p] \in Declared(yaml[s])  BY <2>2, <2>3, UpstreamOf
  <2>5. sub[p] # 0 => Reaches(s, p)
    <3>1. ASSUME NEW t \in Declared(yaml[s]) PROVE Exists(app[s][t]) /\ gw[s][t] # 0
      <4>1. t \in Slots /\ yaml[s].wire[t] # 0  BY DEF Declared
      <4> QED BY <2>2, <4>1 DEF Deployed, Exists
    <3> QED BY <2>4, <3>1 DEF Reaches
  <2> QED BY <2>1, <2>2, <2>5 DEF Noted
<1>4. \A s \in Slices : Routing(s)  BY <1>2, <1>3 DEF Routing, Of
<1> QED BY <1>4, WorkInit, ConfinedInit DEF RInv

LEMMA PlacesOwn ==
  ASSUME TypeOK, NEW a \in Applies, Confined(a)
  PROVE  todo[a] \cup half[a] \subseteq OwnPlaces(apply[a].slice)
<1>1. todo[a] \cup half[a] \subseteq Places  BY DEF TypeOK
<1> QED BY <1>1 DEF Confined, OwnPlaces, Places

\* A step that leaves the routes of a slice and the requests for it as they are.
LEMMA RoutesStay ==
  ASSUME NEW s, Routing(s), \A a \in Of(s) : half[a] \subseteq OwnPlaces(s),
         \A p \in OwnPlaces(s) : /\ sub'[p] = sub[p] /\ rec'[p] = rec[p]
                                 /\ p \in plat' <=> p \in plat
                                 /\ p \in tagged' <=> p \in tagged
                                 /\ p \in plat => Reaches(s, p)',
         \A a \in Applies :
           \/ /\ apply'[a] = apply[a] /\ req'[a] = req[a]
              /\ todo'[a] = todo[a] /\ half'[a] = half[a]
           \/ /\ req[a] = "none" /\ req'[a] = "none" /\ todo'[a] = {} /\ half'[a] = {}
              /\ apply'[a].at # "retire"
           \/ a \notin Of(s) /\ a \notin Of(s)'
  PROVE  Routing(s)'
<1>1. ASSUME NEW a \in Of(s)' PROVE Converging(a)'
  <2>0. a \in Applies /\ apply'[a].slice = s  BY DEF Of
  <2>1. CASE /\ apply'[a] = apply[a] /\ req'[a] = req[a]
             /\ todo'[a] = todo[a] /\ half'[a] = half[a]
    <3>1. apply[a].slice = s /\ Converging(a) /\ half[a] \subseteq OwnPlaces(s)
      BY <2>0, <2>1 DEF Of, Routing
    <3>2. Quiet(a)' /\ Answered(a)'
      BY <2>1, <3>1 DEF Converging, Quiet, Answered
    <3>3. \A p : Stays(a, p)' <=> Stays(a, p)  BY <2>1 DEF Stays, Y
    <3>4. \A p \in OwnPlaces(s) : Right(a, p)' <=> Right(a, p)
      BY <2>1 DEF Right, Want, Y
    <3>5. Upserting(a)'
      BY <2>1, <3>1, <3>3, <3>4 DEF Converging, Upserting
    <3>6. Pruning(a)'
      BY <2>1, <3>1, <3>3, <3>4 DEF Converging, Pruning
    <3>7. Retiring(a)'
      BY <2>1, <3>1, <3>3, <3>4 DEF Converging, Retiring
    <3> QED BY <3>2, <3>5, <3>6, <3>7 DEF Converging
  <2>2. CASE /\ req'[a] = "none" /\ todo'[a] = {} /\ half'[a] = {}
             /\ apply'[a].at # "retire"
    BY <2>2 DEF Converging, Quiet, Answered, Upserting, Pruning, Retiring
  <2> QED BY <2>0, <2>1, <2>2
<1>2. ASSUME NEW p \in OwnPlaces(s) PROVE Noted(s, p)' /\ (p \in plat' => Reaches(s, p)')
  <2>1. \A a \in Of(s) : req[a] # "none" => a \in Of(s)' /\ req'[a] = req[a]
                                            /\ half'[a] = half[a]
    BY DEF Of
  <2>2. \A ph \in {"upsert", "prune"} : Halfway(s, p, ph) => Halfway(s, p, ph)'
    BY <2>1 DEF Halfway
  <2>3. Noted(s, p)  BY DEF Routing
  <2> QED BY <2>2, <2>3 DEF Noted
<1> QED BY <1>1, <1>2 DEF Routing

\* A step of the daemon for a slice whose requests have all gone through: no other
\* push of the slice is at work or has a request.
LEMMA OneServes ==
  ASSUME BInv, NEW s \in Slices, Routing(s), NEW a \in Of(s), req[a] # "none",
         \A b \in Applies : apply'[b].slice = apply[b].slice,
         \A b \in Applies \ {a} : /\ apply'[b] = apply[b] /\ req'[b] = req[b]
                                  /\ todo'[b] = todo[b] /\ half'[b] = half[b],
         UNCHANGED boxes, Converging(a)',
         \A p \in OwnPlaces(s) :
           /\ p \in plat' => \/ req'[a] = "upsert" /\ p \in half'[a]
                             \/ p \in tagged' /\ rec'[p] = sub'[p]
           /\ p \in tagged' => \/ req'[a] = "prune" /\ p \in half'[a]
                               \/ p \in plat'
           /\ p \in plat' => (p \in plat /\ sub'[p] = sub[p]) \/ Reaches(s, p)'
  PROVE  Routing(s)'
<1>1. /\ apply[a].at = "calling" /\ lock[Ws(a)] = a /\ a \in Applies
      /\ apply[a].slice = s
  BY DEF Routing, Converging, Answered, BInv, Working, Held, AtWork, Of
<1>2. ASSUME NEW b \in Of(s)', b # a PROVE Converging(b)'
  <2>1. b \in Applies \ {a} /\ b \in Of(s) /\ Ws(a) = Ws(b)  BY <1>1, <1>2 DEF Of, Ws
  <2>2. apply[b].at \notin AtWork  BY <1>1, <2>1, Alone
  <2>3. Quiet(b) /\ req[b] = "none"
    BY <2>1, <2>2 DEF Routing, Converging, Answered, AtWork
  <2> QED BY <2>1, <2>2, <2>3
          DEF Converging, Quiet, Answered, Upserting, Pruning, Retiring, AtWork
<1>3. a \in Of(s)'  BY <1>1 DEF Of
<1>4. ASSUME NEW p \in OwnPlaces(s) PROVE Noted(s, p)' /\ (p \in plat' => Reaches(s, p)')
  <2>1. Noted(s, p)'  BY <1>3 DEF Noted, Halfway
  <2>2. p \in plat => Reaches(s, p)  BY DEF Routing
  <2>3. gw' = gw /\ app' = app  BY DEF boxes
  <2> QED BY <2>1, <2>2, <2>3 DEF Reaches
<1> QED BY <1>2, <1>3, <1>4 DEF Routing

\* Each step of a request that its hook waits for.
LEMMA RoutesServe ==
  ASSUME BInv, TypeOK', \A b \in Applies : Confined(b), Begins = {},
         NEW s \in Slices, s \notin warned', Routing(s), NEW a \in Of(s), Daemon(a)
  PROVE  Routing(s)'
<1>t. /\ TypeOK /\ a \in Applies /\ apply[a].slice = s /\ Converging(a) /\ Confined(a)
      /\ Working(a)
  BY DEF BInv, Of, Routing
<1>o. /\ UNCHANGED boxes /\ req[a] # "none"
      /\ \A b \in Applies : apply'[b].slice = apply[b].slice
      /\ \A b \in Applies \ {a} : /\ apply'[b] = apply[b] /\ req'[b] = req[b]
                                  /\ todo'[b] = todo[b] /\ half'[b] = half[b]
  BY <1>t, DaemonOwn
<1>c. apply[a].at = "calling"  BY <1>t, <1>o DEF Converging, Answered
<1>f. /\ req \in [Applies -> {"none", "upsert", "prune"}]
      /\ todo \in [Applies -> SUBSET Places] /\ half \in [Applies -> SUBSET Places]
      /\ sub \in [Places -> 0..3] /\ rec \in [Places -> 0..3]
      /\ plat \subseteq Places /\ tagged \subseteq Places
  BY <1>t DEF TypeOK
<1>p. /\ todo[a] \cup half[a] \subseteq OwnPlaces(s)
      /\ \A p \in OwnPlaces(s) : p \in Places /\ p[1] = s
  BY <1>t, PlacesOwn DEF OwnPlaces, Places
<1>h. \A p \in OwnPlaces(s), ph \in {"upsert", "prune"} :
        Halfway(s, p, ph) <=> req[a] = ph /\ p \in half[a]
  <2>1. ASSUME NEW b \in Of(s), req[b] # "none" PROVE b = a
    <3>1. apply[b].at = "calling" /\ b \in Applies /\ Ws(a) = Ws(b)
      BY <2>1, <1>t DEF Routing, Converging, Answered, Of, Ws
    <3>2. lock[Ws(a)] = a  BY <1>t, <1>c DEF Working, Held, AtWork
    <3> QED BY <1>t, <3>1, <3>2, Alone DEF AtWork
  <2> QED BY <2>1 DEF Halfway
<1>n. \A p \in OwnPlaces(s) :
        /\ p \in plat => \/ req[a] = "upsert" /\ p \in half[a]
                         \/ p \in tagged /\ rec[p] = sub[p]
        /\ p \in tagged => \/ req[a] = "prune" /\ p \in half[a]
                           \/ p \in plat
  BY <1>h DEF Routing, Noted
<1>u. /\ \A b \in Applies : apply'[b].slice = apply[b].slice
      /\ \A b \in Applies \ {a} : /\ apply'[b] = apply[b] /\ req'[b] = req[b]
                                  /\ todo'[b] = todo[b] /\ half'[b] = half[b]
  BY <1>o
<1>1. CASE \E p \in Places : WriteFails(a, p) \/ UnrouteFails(a, p)
  BY <1>1, <1>t DEF WriteFails, UnrouteFails, Warning
<1>2. ASSUME NEW p \in Places, Skip(a, p) PROVE Routing(s)'
  <2>1. /\ req[a] = "upsert" /\ p \in todo[a] /\ half[a] = {} /\ p \in tagged
        /\ rec[p] = Want(a, p)
        /\ todo'[a] = todo[a] \ {p} /\ req' = req /\ half' = half /\ apply' = apply
        /\ sub' = sub /\ rec' = rec /\ plat' = plat /\ tagged' = tagged
    BY <1>2, <1>t, <1>f DEF Skip, Asked, InSync, Less, ingress
  <2>2. p \in OwnPlaces(s) /\ Right(a, p)
    BY <1>p, <1>n, <2>1 DEF Right
  <2>3. Converging(a)'
    <3>1. \A q : (Right(a, q)' <=> Right(a, q)) /\ (Stays(a, q)' <=> Stays(a, q))
      BY <2>1 DEF Right, Stays, Want, Y
    <3>2. Upserting(a)'  BY <1>t, <2>1, <2>2, <3>1 DEF Converging, Upserting
    <3> QED BY <1>t, <1>c, <2>1, <3>2
            DEF Converging, Quiet, Answered, Pruning, Retiring
  <2> QED BY <1>u, <1>o, <1>n, <2>1, <2>3, OneServes
<1>3. ASSUME NEW p \in Places, Write(a, p) PROVE Routing(s)'
  <2>1. /\ req[a] = "upsert" /\ p \in todo[a] /\ half[a] = {}
        /\ todo'[a] = todo[a] \ {p} /\ half'[a] = {p} /\ req' = req /\ apply' = apply
        /\ sub' = [sub EXCEPT ![p] = Want(a, p)] /\ plat' = plat \cup {p}
        /\ rec' = rec /\ tagged' = tagged
    BY <1>3, <1>t, <1>f DEF Write, Asked, Less, Half
  <2>2. p \in OwnPlaces(s) /\ Stays(a, p)
    BY <1>p, <1>t, <2>1 DEF Converging, Upserting
  <2>3. sub'[p] = Want(a, p) /\ \A q \in Places : q # p => sub'[q] = sub[q]
    BY <1>f, <2>1
  <2>4. \A q : (Want(a, q)' = Want(a, q)) /\ (Stays(a, q)' <=> Stays(a, q))
    BY <2>1 DEF Stays, Want, Y
  <2>5. Right(a, p)' /\ \A q \in OwnPlaces(s) : Right(a, q) => Right(a, q)'
    BY <1>p, <2>1, <2>3, <2>4 DEF Right
  <2>6. Converging(a)'
    <3>1. Upserting(a)'
      BY <1>t, <2>1, <2>2, <2>4, <2>5 DEF Converging, Upserting
    <3> QED BY <1>t, <1>c, <2>1, <3>1
            DEF Converging, Quiet, Answered, Pruning, Retiring
  <2>7. Reaches(s, p)'
    <3>1. Want(a, p) # 0 /\ Want(a, p) \in Declared(Y(a))  BY <1>t, <2>2, WantOf
    <3>2. /\ gw[s][Want(a, p)] = Y(a).fw
          /\ Same(app[s][Want(a, p)], Config(Y(a), Want(a, p)))
      BY <1>t, <1>c, <3>1 DEF Working, Brought, Current, Boxes, AtWork
    <3>3. Y(a) \in Records /\ Y(a).fw # 0  BY <1>t, WarnedType DEF Records
    <3>4. Exists(app[s][Want(a, p)])  BY <3>1, <3>2, <3>3, SameExists
    <3> QED BY <1>o, <2>3, <3>1, <3>2, <3>3, <3>4 DEF Reaches, boxes
  <2>8. \A q \in OwnPlaces(s) :
           /\ q \in plat' => \/ req'[a] = "upsert" /\ q \in half'[a]
                             \/ q \in tagged' /\ rec'[q] = sub'[q]
           /\ q \in tagged' => \/ req'[a] = "prune" /\ q \in half'[a]
                               \/ q \in plat'
           /\ q \in plat' => (q \in plat /\ sub'[q] = sub[q]) \/ Reaches(s, q)'
    BY <1>p, <1>n, <2>1, <2>3, <2>7
  <2> QED BY <1>u, <1>o, <2>6, <2>8, OneServes
<1>4. ASSUME NEW p \in Places, Record(a, p) PROVE Routing(s)'
  <2>1. /\ req[a] = "upsert" /\ p \in half[a]
        /\ half'[a] = {} /\ todo' = todo /\ req' = req /\ apply' = apply
        /\ sub' = sub /\ plat' = plat
        /\ rec' = [rec EXCEPT ![p] = Want(a, p)] /\ tagged' = tagged \cup {p}
    BY <1>4, <1>t, <1>f DEF Record, Half
  <2>2. Right(a, p) /\ \A q \in half[a] : q = p
    BY <1>t, <2>1 DEF Converging, Upserting, Quiet
  <2>3. rec'[p] = Want(a, p) /\ \A q \in Places : q # p => rec'[q] = rec[q]
    BY <1>f, <2>1
  <2>4. Converging(a)'
    <3>1. \A q : (Right(a, q)' <=> Right(a, q)) /\ (Stays(a, q)' <=> Stays(a, q))
      BY <2>1 DEF Right, Stays, Want, Y
    <3>2. Upserting(a)'  BY <1>t, <2>1, <3>1 DEF Converging, Upserting
    <3> QED BY <1>t, <1>c, <2>1, <3>2
            DEF Converging, Quiet, Answered, Pruning, Retiring
  <2>5. \A q \in OwnPlaces(s) :
           /\ q \in plat' => q \in tagged' /\ rec'[q] = sub'[q]
           /\ q \in tagged' => q \in plat'
    BY <1>p, <1>n, <2>1, <2>2, <2>3 DEF Right
  <2> QED BY <1>u, <1>o, <2>1, <2>4, <2>5, OneServes
<1>5. CASE List(a)
  <2>1. /\ req[a] = "upsert" /\ todo[a] = {} /\ half[a] = {} /\ req'[a] = "prune"
        /\ todo'[a] = Managed(a) \ ({s} \X Routed(Y(a)))
        /\ half' = half /\ apply' = apply
        /\ sub' = sub /\ rec' = rec /\ plat' = plat /\ tagged' = tagged
    BY <1>5, <1>t, <1>f DEF List, ingress
  <2>2. \A q : (Right(a, q)' <=> Right(a, q)) /\ (Stays(a, q)' <=> Stays(a, q))
    BY <2>1 DEF Right, Stays, Want, Y
  <2>3. \A q \in todo'[a] : q \in OwnPlaces(s) /\ ~Stays(a, q)
    <3>1. \A q \in todo'[a] : q \in Places /\ q[1] = s
      BY <1>5, <1>t, <1>f, <2>1, ListOwn DEF Managed
    <3> QED BY <2>1, <3>1 DEF Stays, OwnPlaces, Places
  <2>4. \A q \in OwnPlaces(s) : q \in plat /\ ~Stays(a, q) => q \in todo'[a]
    <3>1. ASSUME NEW q \in OwnPlaces(s), q \in plat, ~Stays(a, q) PROVE q \in todo'[a]
      <4>1. q \in tagged /\ q[1] = s  BY <1>p, <1>n, <2>1, <3>1
      <4>2. q \in Managed(a)  BY <1>t, <4>1 DEF Managed
      <4>3. q \notin {s} \X Routed(Y(a))  BY <3>1 DEF Stays
      <4> QED BY <2>1, <4>2, <4>3
    <3> QED BY <3>1
  <2>5. Pruning(a)'
    <3>1. \A q \in OwnPlaces(s) : Stays(a, q) => Right(a, q)
      BY <1>t, <2>1 DEF Converging, Upserting
    <3> QED BY <1>t, <2>1, <2>2, <2>3, <2>4, <3>1 DEF Pruning
  <2>6. Converging(a)'
    BY <1>t, <1>c, <2>1, <2>5 DEF Converging, Quiet, Answered, Upserting, Retiring
  <2> QED BY <1>u, <1>o, <1>n, <2>1, <2>6, OneServes
<1>6. ASSUME NEW p \in Places, Unroute(a, p) PROVE Routing(s)'
  <2>1. /\ req[a] = "prune" /\ p \in todo[a] /\ half[a] = {}
        /\ todo'[a] = todo[a] \ {p} /\ half'[a] = {p} /\ req' = req /\ apply' = apply
        /\ plat' = plat \ {p} /\ sub' = sub /\ rec' = rec /\ tagged' = tagged
    BY <1>6, <1>t, <1>f DEF Unroute, Asked, Less, Half
  <2>2. ~Stays(a, p)  BY <1>t, <2>1 DEF Converging, Pruning
  <2>3. \A q : (q # p => (Right(a, q)' <=> Right(a, q))) /\ (Stays(a, q)' <=> Stays(a, q))
    BY <2>1 DEF Right, Stays, Want, Y
  <2>4. Converging(a)'
    <3>1. Pruning(a)'  BY <1>t, <2>1, <2>2, <2>3 DEF Converging, Pruning
    <3> QED BY <1>t, <1>c, <2>1, <3>1
            DEF Converging, Quiet, Answered, Upserting, Retiring
  <2> QED BY <1>u, <1>o, <1>n, <2>1, <2>4, OneServes
<1>7. ASSUME NEW p \in Places, Forget(a, p) PROVE Routing(s)'
  <2>1. /\ req[a] = "prune" /\ p \in half[a]
        /\ half'[a] = {} /\ todo' = todo /\ req' = req /\ apply' = apply
        /\ sub' = sub /\ plat' = plat
        /\ rec' = [rec EXCEPT ![p] = 0] /\ tagged' = tagged \ {p}
    BY <1>7, <1>t, <1>f DEF Forget, Half
  <2>2. p \notin plat /\ \A q \in half[a] : q = p
    BY <1>t, <2>1 DEF Converging, Pruning, Quiet
  <2>3. \A q \in Places : q # p => rec'[q] = rec[q]  BY <1>f, <2>1
  <2>4. Converging(a)'
    <3>1. \A q : (Right(a, q)' <=> Right(a, q)) /\ (Stays(a, q)' <=> Stays(a, q))
      BY <2>1 DEF Right, Stays, Want, Y
    <3>2. Pruning(a)'  BY <1>t, <2>1, <3>1 DEF Converging, Pruning
    <3> QED BY <1>t, <1>c, <2>1, <3>2
            DEF Converging, Quiet, Answered, Upserting, Retiring
  <2>5. \A q \in OwnPlaces(s) :
           /\ q \in plat' => q \in tagged' /\ rec'[q] = sub'[q]
           /\ q \in tagged' => q \in plat'
    BY <1>p, <1>n, <2>1, <2>2, <2>3
  <2> QED BY <1>u, <1>o, <2>1, <2>4, <2>5, OneServes
<1>8. CASE Answer(a)
  <2>1. /\ req[a] = "prune" /\ todo[a] = {} /\ half[a] = {} /\ req'[a] = "none"
        /\ todo' = todo /\ half' = half /\ Goes(a, "retire")
        /\ sub' = sub /\ rec' = rec /\ plat' = plat /\ tagged' = tagged
    BY <1>8, <1>t, <1>f, <1>c DEF Answer, At, ingress
  <2>2. /\ apply'[a].at = "retire" /\ Y(a)' = Y(a)
    BY <1>t, <2>1, GoesAt
  <2>3. \A q : (Right(a, q)' <=> Right(a, q)) /\ (Stays(a, q)' <=> Stays(a, q))
    BY <2>1, <2>2 DEF Right, Stays, Want
  <2>4. Retiring(a)'
    <3>1. \A q \in OwnPlaces(s) : IF Stays(a, q) THEN Right(a, q) ELSE q \notin plat
      BY <1>t, <2>1 DEF Converging, Pruning
    <3> QED BY <1>t, <1>u, <2>1, <2>3, <3>1 DEF Retiring
  <2>5. Converging(a)'
    BY <1>t, <2>1, <2>4 DEF Converging, Quiet, Answered, Upserting, Pruning
  <2> QED BY <1>u, <1>o, <1>n, <2>1, <2>5, OneServes
<1> QED BY <1>1, <1>2, <1>3, <1>4, <1>5, <1>6, <1>7, <1>8 DEF Daemon

LEMMA RoutesDaemon ==
  ASSUME BInv, TypeOK', \A b \in Applies : Confined(b), Begins = {},
         NEW s \in Slices, s \notin warned', Routing(s), NEW a \in Applies, Daemon(a)
  PROVE  Routing(s)'
<1>1. CASE apply[a].slice = s
  <2>1. a \in Of(s)  BY <1>1 DEF Of
  <2> QED BY <2>1, RoutesServe
<1>2. CASE apply[a].slice # s
  <2>t. TypeOK /\ Confined(a)  BY DEF BInv
  <2>1. /\ UNCHANGED boxes
        /\ \A b \in Applies : apply'[b].slice = apply[b].slice
        /\ \A b \in Applies \ {a} : /\ apply'[b] = apply[b] /\ req'[b] = req[b]
                                    /\ todo'[b] = todo[b] /\ half'[b] = half[b]
        /\ \A p \in Places : p[1] # apply[a].slice =>
              /\ sub'[p] = sub[p] /\ rec'[p] = rec[p]
              /\ p \in plat' <=> p \in plat
              /\ p \in tagged' <=> p \in tagged
    BY <2>t, DaemonOwn
  <2>2. a \notin Of(s) /\ a \notin Of(s)'  BY <1>2, <2>1 DEF Of
  <2>3. \A p \in OwnPlaces(s) : p \in Places /\ p[1] # apply[a].slice
    BY <1>2 DEF OwnPlaces, Places
  <2>4. \A b \in Of(s) : half[b] \subseteq OwnPlaces(s)  BY <2>t, PlacesOwn DEF Of
  <2>5. \A p \in OwnPlaces(s) : p \in plat => Reaches(s, p)'
    BY <2>1, <2>3 DEF Routing, Reaches, boxes
  <2> QED BY <2>1, <2>2, <2>3, <2>4, <2>5, RoutesStay
<1> QED BY <1>1, <1>2

\* A step of a hook that removes nothing.
LEMMA HookKeeps ==
  ASSUME TypeOK, NEW a \in Applies, Hook(a), ~Retire(a), ~RetireFails(a),
         NEW s, s = apply[a].slice, NEW t \in Slots, Exists(app[s][t]), gw[s][t] # 0
  PROVE  Exists(app'[s][t]) /\ gw'[s][t] # 0
<1>r. Y(a) \in Records /\ Y(a).fw # 0  BY WarnedType DEF Records
<1>g. ASSUME NEW M, Gateways(a, M) PROVE Exists(app'[s][t]) /\ gw'[s][t] # 0
  <2>1. /\ gw'[s][t] = IF t \in M THEN Y(a).fw ELSE gw[s][t]
        /\ t \notin M => app'[s][t] = app[s][t]
        /\ t \in M => app'[s][t].db = app[s][t].db
    BY <1>g, GatewaysAt
  <2> QED BY <1>r, <2>1 DEF Exists
<1>w. ASSUME NEW W, W \subseteq Stale(a), Workers(a, W), gw' = gw
      PROVE  Exists(app'[s][t]) /\ gw'[s][t] # 0
  <2>1. /\ t \notin W => app'[s][t] = app[s][t]
        /\ t \in W => Same(app'[s][t], Config(Y(a), t))
    BY <1>w, WorkersAt
  <2>2. t \in W => t \in Declared(Y(a))  BY <1>w DEF Stale
  <2>3. t \in W => Exists(app'[s][t])  BY <1>r, <2>1, <2>2, SameExists
  <2> QED BY <1>w, <2>1, <2>3
<1>c. ASSUME NEW C, Certified(a, C), gw' = gw
      PROVE  Exists(app'[s][t]) /\ gw'[s][t] # 0
  <2>1. app'[s][t].db = app[s][t].db  BY <1>c, CertifiedAt
  <2> QED BY <1>c, <2>1 DEF Exists
<1>1. CASE UNCHANGED boxes  BY <1>1 DEF boxes
<1>2. CASE Up(a)  BY <1>2, <1>g DEF Up
<1>3. CASE Create(a)  BY <1>3, <1>w DEF Create
<1>4. CASE Provision(a)  BY <1>4, <1>c DEF Provision
<1>5. CASE CertsFail(a)  BY <1>5, <1>c DEF CertsFail
<1>6. CASE UpFails(a)
  <2>1. PICK M : Gateways(a, M)  BY <1>6 DEF UpFails
  <2> QED BY <2>1, <1>g
<1>7. CASE CreateFails(a)
  <2>1. PICK W : W \subseteq Stale(a) /\ Workers(a, W)  BY <1>7 DEF CreateFails
  <2> QED BY <1>7, <2>1, <1>w DEF CreateFails
<1>8. UNCHANGED boxes \/ Up(a) \/ Create(a) \/ Provision(a) \/ CertsFail(a)
      \/ UpFails(a) \/ CreateFails(a)
  BY DEF Hook, Lock, LockTimeout, Call, ProvisionFails, CallTimeout
<1> QED BY <1>1, <1>2, <1>3, <1>4, <1>5, <1>6, <1>7, <1>8

\* What is retired is not declared, and by then only what is declared is routed.
LEMMA RetireKeeps ==
  ASSUME TypeOK, NEW s \in Slices, Routing(s), NEW a \in Of(s), Retire(a) \/ RetireFails(a),
         NEW p \in OwnPlaces(s), p \in plat, sub'[p] = sub[p]
  PROVE  Reaches(s, p)'
<1>1. /\ apply[a].at = "retire" /\ a \in Applies /\ apply[a].slice = s /\ p \in Places
      /\ \E D : D \subseteq Slots \ Declared(Y(a)) /\ Retired(a, D)
  BY DEF Retire, RetireFails, At, Of, OwnPlaces, Places
<1>2. PICK D : D \subseteq Slots \ Declared(Y(a)) /\ Retired(a, D)  BY <1>1
<1>3. Reaches(s, p) /\ Stays(a, p) /\ sub[p] = Want(a, p)
  BY <1>1 DEF Routing, Converging, Retiring, Right
<1>4. sub[p] \in Slots /\ sub[p] \notin D  BY <1>1, <1>2, <1>3, WantOf
<1>5. /\ gw'[s][sub[p]] = IF sub[p] \in D THEN 0 ELSE gw[s][sub[p]]
      /\ app'[s][sub[p]] = IF sub[p] \in D THEN Gone ELSE app[s][sub[p]]
  BY <1>1, <1>2, <1>4, RetiredAt
<1> QED BY <1>3, <1>4, <1>5 DEF Reaches

LEMMA HookReaches ==
  ASSUME TypeOK, NEW s \in Slices, Routing(s), NEW a \in Applies, Hook(a),
         NEW p \in OwnPlaces(s), p \in plat
  PROVE  Reaches(s, p)'
<1>1. /\ \A r \in Slices \ {apply[a].slice} : gw'[r] = gw[r] /\ app'[r] = app[r]
      /\ sub' = sub
  BY HookOwn DEF ingress
<1>2. Reaches(s, p) /\ sub[p] \in Slots
  BY DEF Routing, Reaches, TypeOK, OwnPlaces, Places, Slots
<1>3. CASE apply[a].slice # s  BY <1>1, <1>2, <1>3 DEF Reaches
<1>4. CASE apply[a].slice = s /\ (Retire(a) \/ RetireFails(a))
  BY <1>1, <1>4, RetireKeeps DEF Of
<1>5. CASE apply[a].slice = s /\ ~Retire(a) /\ ~RetireFails(a)
  BY <1>1, <1>2, <1>5, HookKeeps DEF Reaches
<1> QED BY <1>3, <1>4, <1>5

LEMMA RoutesHook ==
  ASSUME BInv, TypeOK', \A b \in Applies : Confined(b),
         NEW s \in Slices, s \notin warned', Routing(s), NEW a \in Applies, Hook(a)
  PROVE  Routing(s)'
<1>t. TypeOK /\ Confined(a)  BY DEF BInv
<1>s. PICK r : r = apply[a].slice  OBVIOUS
<1>o. /\ UNCHANGED ingress /\ half' = half /\ \E to : Goes(a, to)
      /\ UNCHANGED <<req, todo>> \/ Call(a)
  BY <1>t, HookOwn
<1>g. /\ \A b \in Applies : apply'[b].slice = apply[b].slice
      /\ \A b \in Applies \ {a} : apply'[b] = apply[b]
  BY <1>t, <1>o, GoesOnly
<1>i. sub' = sub /\ rec' = rec /\ plat' = plat /\ tagged' = tagged
  BY <1>o DEF ingress
<1>h. \A b \in Of(s) : half[b] \subseteq OwnPlaces(s)
  BY <1>t, PlacesOwn DEF Of
<1>r. \A p \in OwnPlaces(s) : p \in plat => Reaches(s, p)'
  BY <1>t, HookReaches
<1>1. CASE Call(a)
  <2>1. /\ apply[a].at = "health" /\ Goes(a, "calling")
        /\ req' = [req EXCEPT ![a] = "upsert"]
        /\ todo' = [todo EXCEPT ![a] = {apply[a].slice} \X Routed(Y(a))]
    BY <1>1 DEF Call, At
  <2>2. /\ req'[a] = "upsert" /\ todo'[a] = {apply[a].slice} \X Routed(Y(a))
        /\ \A b \in Applies \ {a} : req'[b] = req[b] /\ todo'[b] = todo[b]
    BY <1>t, <2>1 DEF TypeOK
  <2>3. CASE r # s
    <3>1. a \notin Of(s) /\ a \notin Of(s)'  BY <1>s, <1>g, <2>3 DEF Of
    <3> QED BY <1>g, <1>o, <1>i, <1>h, <1>r, <2>2, <3>1, RoutesStay
  <2>4. CASE r = s
    <3>1. a \in Of(s) /\ Converging(a)  BY <1>s, <2>4 DEF Of, Routing
    <3>2. req[a] = "none" /\ half[a] = {}
      BY <2>1, <3>1 DEF Converging, Answered, Quiet
    <3>3. apply'[a].at = "calling" /\ Y(a)' = Y(a) /\ apply'[a].slice = s
      BY <1>t, <1>s, <2>1, <2>4, GoesAt
    <3>4. Converging(a)'
      <4>1. \A p : Stays(a, p)' <=> Stays(a, p)  BY <3>3 DEF Stays
      <4>2. \A p \in todo'[a] : Stays(a, p)'  BY <2>2, <4>1 DEF Stays
      <4>3. \A p \in OwnPlaces(s) : Stays(a, p)' => p \in todo'[a]
        BY <1>s, <2>2, <2>4, <4>1 DEF Stays, OwnPlaces
      <4>4. Upserting(a)'  BY <1>o, <3>2, <3>3, <4>2, <4>3 DEF Upserting
      <4> QED BY <1>o, <2>2, <3>2, <3>3, <4>4
              DEF Converging, Quiet, Answered, Pruning, Retiring
    <3>5. ASSUME NEW b \in Of(s)', b # a PROVE Converging(b)'
      <4>1. b \in Applies \ {a} /\ b \in Of(s) /\ Converging(b)
            /\ half[b] \subseteq OwnPlaces(s) /\ apply[b].slice = s
        BY <1>g, <1>h, <3>5 DEF Of, Routing
      <4>2. apply'[b] = apply[b] /\ req'[b] = req[b] /\ todo'[b] = todo[b] /\ half'[b] = half[b]
        BY <1>g, <1>o, <2>2, <4>1
      <4>3. \A p : (Right(b, p)' <=> Right(b, p)) /\ (Stays(b, p)' <=> Stays(b, p))
        BY <1>i, <4>2 DEF Right, Stays, Want, Y
      <4> QED BY <1>i, <4>1, <4>2, <4>3
              DEF Converging, Quiet, Answered, Upserting, Pruning, Retiring
    <3>6. ASSUME NEW p \in OwnPlaces(s) PROVE Noted(s, p)'
      <4>1. \A b \in Of(s) : p \in half[b] => b # a /\ b \in Of(s)' /\ req'[b] = req[b]
                                              /\ p \in half'[b]
        BY <1>g, <1>o, <2>2, <3>2 DEF Of
      <4>2. \A ph : Halfway(s, p, ph) => Halfway(s, p, ph)'  BY <4>1 DEF Halfway
      <4> QED BY <1>i, <4>2 DEF Routing, Noted
    <3> QED BY <1>i, <1>r, <3>3, <3>4, <3>5, <3>6 DEF Routing
  <2> QED BY <2>3, <2>4
<1>2. CASE UNCHANGED <<req, todo>> /\ ~CallTimeout(a) /\ ~Call(a)
  <2>1. CASE r # s
    <3>1. a \notin Of(s) /\ a \notin Of(s)'  BY <1>s, <1>g, <2>1 DEF Of
    <3> QED BY <1>g, <1>o, <1>i, <1>h, <1>r, <1>2, <3>1, RoutesStay
  <2>2. CASE r = s
    <3>1. Converging(a)  BY <1>s, <2>2 DEF Of, Routing
    <3>2. \E to : apply[a].at # "calling" /\ Goes(a, to) /\ to # "retire"
      BY <1>2 DEF Hook, Lock, LockTimeout, Up, Create, Provision, CertsFail, Retire, UpFails,
           CreateFails, ProvisionFails, RetireFails, Fails, At
    <3>3. apply[a].at # "calling" /\ apply'[a].at # "retire"
      BY <1>t, <3>2, GoesOnly
    <3>4. req[a] = "none" /\ todo[a] = {} /\ half[a] = {}
      BY <3>1, <3>3 DEF Converging, Answered, Quiet
    <3> QED BY <1>g, <1>o, <1>i, <1>h, <1>r, <1>2, <3>3, <3>4, RoutesStay
  <2> QED BY <2>1, <2>2
<1>3. CASE CallTimeout(a)
  <2>1. r # s  BY <1>3, <1>s DEF CallTimeout
  <2>2. a \notin Of(s) /\ a \notin Of(s)'  BY <1>s, <1>g, <2>1 DEF Of
  <2>3. req' = req /\ todo' = todo  BY <1>3 DEF CallTimeout, request
  <2> QED BY <1>g, <1>o, <1>i, <1>h, <1>r, <2>2, <2>3, RoutesStay
<1> QED BY <1>o, <1>1, <1>2, <1>3

LEMMA RoutesGitops ==
  ASSUME BInv, \A b \in Applies : Confined(b),
         NEW s \in Slices, Routing(s), NEW r \in Slices, Gitops(r)
  PROVE  Routing(s)'
<1>t. TypeOK  BY DEF BInv
<1>1. /\ gw' = gw /\ app' = app
      /\ sub' = sub /\ rec' = rec /\ plat' = plat /\ tagged' = tagged
      /\ req' = req /\ todo' = todo /\ half' = half
      /\ Pushed(r) \/ (pushes' = pushes /\ apply' = apply)
  BY <1>t, GitopsOwn DEF boxes, ingress, request
<1>2. \A b \in Of(s) : half[b] \subseteq OwnPlaces(s)  BY <1>t, PlacesOwn DEF Of
<1>3. \A p \in OwnPlaces(s) : p \in plat => Reaches(s, p)'
  BY <1>1 DEF Routing, Reaches
<1>4. CASE Pushed(r)
  <2>1. /\ pushes' \in Applies /\ pushes' > pushes
        /\ apply'[pushes'].at = "wait"
        /\ \A a \in Applies : a # pushes' => apply'[a] = apply[a]
    BY <1>t, <1>4, PushedAt
  <2>2. req[pushes'] = "none" /\ todo[pushes'] = {} /\ half[pushes'] = {}
    BY <2>1 DEF Confined
  <2> QED BY <1>1, <1>2, <1>3, <2>1, <2>2, RoutesStay
<1>5. CASE apply' = apply
  BY <1>1, <1>2, <1>3, <1>5, RoutesStay
<1> QED BY <1>1, <1>4, <1>5

LEMMA RoutesRestart ==
  ASSUME BInv, \A b \in Applies : Confined(b),
         DaemonRestart \/ GitopsRestart \/ (\E w \in Workspaces : DriverRestart(w)),
         NEW s \in Slices, s \notin warned', Routing(s)
  PROVE  Routing(s)'
<1>t. TypeOK /\ apply \in [Applies -> [slice : Slices, y : Records, at : Phases]]
  BY DEF BInv, TypeOK
<1>1. /\ gw' = gw /\ app' = app
      /\ sub' = sub /\ rec' = rec /\ plat' = plat /\ tagged' = tagged
      /\ \A b \in Applies : apply'[b].slice = apply[b].slice
  BY <1>t, RestartOwn DEF boxes, ingress
<1>2. \A b \in Of(s) : half[b] \subseteq OwnPlaces(s)  BY <1>t, PlacesOwn DEF Of
<1>3. \A p \in OwnPlaces(s) : p \in plat => Reaches(s, p)'
  BY <1>1 DEF Routing, Reaches
<1>4. \A b \in Applies : b \notin Of(s) => b \notin Of(s)'  BY <1>1 DEF Of
<1>5. \A b \in Of(s) : Converging(b)  BY DEF Routing
<1>6. CASE DaemonRestart
  <2> DEFINE served == {b \in Applies : req[b] # "none"}
             waiting == {b \in served : At(b, "calling")}
  <2>1. /\ apply' = [b \in Applies |-> IF b \in waiting
                                    THEN [apply[b] EXCEPT !.at = "failed"] ELSE apply[b]]
        /\ warned' = warned \cup {apply[b].slice : b \in served}
        /\ \A b \in Applies : req'[b] = "none" /\ todo'[b] = {} /\ half'[b] = {}
    BY <1>6 DEF DaemonRestart
  <2>2. \A b \in Of(s) : b \in Applies /\ b \notin served  BY <2>1 DEF Of
  <2>3. \A b \in Of(s) : apply'[b] = apply[b]  BY <2>1, <2>2
  <2>4. \A b \in Of(s) : req[b] = "none" /\ todo[b] = {} /\ half[b] = {}
    BY <1>5, <2>2 DEF Converging, Quiet
  <2> HIDE DEF served, waiting
  <2> QED BY <1>1, <1>2, <1>3, <1>4, <2>1, <2>3, <2>4, RoutesStay
<1>7. CASE GitopsRestart
  <2>1. apply' = apply /\ req' = req /\ todo' = todo /\ half' = half
    BY <1>7 DEF GitopsRestart, request
  <2> QED BY <1>1, <1>2, <1>3, <2>1, RoutesStay
<1>8. ASSUME NEW w \in Workspaces, DriverRestart(w) PROVE Routing(s)'
  <2>1. /\ apply' = [b \in Applies |-> IF b \in Running(w)
                                    THEN [apply[b] EXCEPT !.at = "failed"] ELSE apply[b]]
        /\ warned' = warned \cup {apply[a].slice : a \in {b \in Running(w) : At(b, "calling")}}
        /\ req' = req /\ todo' = todo /\ half' = half
    BY <1>8 DEF DriverRestart, request
  <2>2. ASSUME NEW b \in Of(s), b \in Running(w)
        PROVE  req[b] = "none" /\ todo[b] = {} /\ half[b] = {} /\ apply'[b].at # "retire"
    <3>1. b \in Applies /\ apply[b].slice = s  BY DEF Of
    <3>2. apply[b].at # "calling"  BY <2>1, <2>2, <3>1 DEF At
    <3>3. apply'[b].at = "failed"  BY <1>t, <2>1, <2>2, <3>1
    <3> QED BY <1>5, <3>2, <3>3 DEF Converging, Answered, Quiet
  <2>3. \A b \in Applies : b \notin Running(w) => apply'[b] = apply[b]  BY <2>1
  <2> QED BY <1>1, <1>2, <1>3, <1>4, <2>1, <2>2, <2>3, RoutesStay
<1> QED BY <1>6, <1>7, <1>8

LEMMA RoutesNext == ASSUME RInv, TypeOK', [Next]_vars PROVE RInv'
<1>b. BInv /\ CInv /\ TypeOK  BY DEF RInv, BInv
<1>1. BInv'  BY <1>b, WorkNext
<1>2. CInv'  BY <1>b, ConfinedNext DEF CInv
<1>3. ASSUME Begins = {}, NEW s \in Slices, s \notin warned' PROVE Routing(s)'
  <2>c. \A a \in Applies : Confined(a)  BY <1>b, <1>3 DEF CInv
  <2>1. s \notin warned => Routing(s)  BY <1>3 DEF RInv
  <2>2. ASSUME NEW r \in Slices, Gitops(r) PROVE Routing(s)'
    <3>1. s \notin warned  BY <1>3, <2>2, GitopsElse
    <3> QED BY <1>b, <2>c, <2>1, <2>2, <3>1, RoutesGitops
  <2>3. ASSUME NEW a \in Applies, Hook(a) PROVE Routing(s)'
    <3>1. s \notin warned  BY <1>b, <1>3, <2>3, HookElse
    <3> QED BY <1>b, <1>3, <2>c, <2>1, <2>3, <3>1, RoutesHook
  <2>4. ASSUME NEW a \in Applies, Daemon(a) PROVE Routing(s)'
    <3>1. s \notin warned
      BY <1>3, <2>4 DEF Daemon, List, Answer, Skip, Write, Record, Unroute, Forget,
                        WriteFails, UnrouteFails, Warning, trouble
    <3> QED BY <1>b, <1>3, <2>c, <2>1, <2>4, <3>1, RoutesDaemon
  <2>5. CASE DaemonRestart \/ GitopsRestart \/ (\E w \in Workspaces : DriverRestart(w))
    <3>1. s \notin warned  BY <1>3, <2>5 DEF DaemonRestart, GitopsRestart, DriverRestart
    <3> QED BY <1>b, <1>3, <2>c, <2>1, <2>5, <3>1, RoutesRestart
  <2>6. CASE UNCHANGED vars
    <3>1. /\ warned' = warned /\ apply' = apply /\ req' = req /\ todo' = todo /\ half' = half
          /\ gw' = gw /\ app' = app
          /\ sub' = sub /\ rec' = rec /\ plat' = plat /\ tagged' = tagged
      BY <2>6 DEF vars, trouble, request, boxes, ingress
    <3>2. Routing(s)  BY <1>3, <2>1, <3>1
    <3>3. \A b \in Of(s) : half[b] \subseteq OwnPlaces(s)
      BY <1>b, <2>c, PlacesOwn DEF Of
    <3>4. \A p \in OwnPlaces(s) : p \in plat => Reaches(s, p)'
      BY <3>1, <3>2 DEF Routing, Reaches
    <3> QED BY <3>1, <3>2, <3>3, <3>4, RoutesStay
  <2> QED BY <2>2, <2>3, <2>4, <2>5, <2>6 DEF Next
<1> QED BY <1>1, <1>2, <1>3 DEF RInv

LEMMA RoutesReach == RInv => NeverDangling
<1> SUFFICES ASSUME RInv, Begins = {}, NEW p \in plat, p[1] \notin warned
             PROVE  sub[p] # 0 /\ Exists(app[p[1]][sub[p]]) /\ gw[p[1]][sub[p]] # 0
  BY DEF NeverDangling
<1>1. p \in Places  BY DEF RInv, BInv, TypeOK
<1>2. p[1] \in Slices \ warned /\ p \in OwnPlaces(p[1])  BY <1>1 DEF Places, OwnPlaces
<1>3. Reaches(p[1], p)  BY <1>2 DEF RInv, Routing
<1> QED BY <1>3 DEF Reaches

\* A host that is accepted reaches a container that exists, behind a gateway that
\* exists, whichever order the pushes of the workspace get the lock in, whatever the
\* daemon skips by its record, and wherever hooks, requests and programs stop
\* (reconcile, step 5b; ReconcileIngress): for slices whose requests have gone
\* through, of workspaces whose names do not begin alike.
THEOREM RoutesNeverDangle == Spec => []NeverDangling
<1>1. Init => RInv  BY RoutesInit
<1>2. RInv /\ TypeOK' /\ [Next]_vars => RInv'  BY RoutesNext
<1>3. RInv => NeverDangling  BY RoutesReach
<1> QED BY <1>1, <1>2, <1>3, TypeCorrect, PTL DEF Spec

-----------------------------------------------------------------------------
(* What an apply that ends well has done. *)

LEMMA OnlyRetireEnds ==
  ASSUME RInv, [Next]_vars, NEW a \in Applies, ~At(a, "done"), At(a, "done")'
  PROVE  Retire(a) \/ RetireFails(a)
<1>t. TypeOK /\ apply \in [Applies -> [slice : Slices, y : Records, at : Phases]]
  BY DEF RInv, BInv, TypeOK
<1>a. apply[a].at # "done" /\ apply'[a].at = "done"  BY DEF At
<1>1. ASSUME NEW s \in Slices, Gitops(s) PROVE FALSE
  <2>1. CASE Pushed(s)
    <3>1. /\ apply'[pushes'].at = "wait" /\ \A b \in Applies : b # pushes' => apply'[b] = apply[b]
      BY <1>t, <2>1, PushedAt
    <3> QED BY <1>a, <3>1
  <2>2. CASE apply' = apply  BY <1>a, <2>2
  <2> QED BY <1>t, <1>1, <2>1, <2>2, GitopsOwn
<1>2. ASSUME NEW b \in Applies, Hook(b) PROVE Retire(a) \/ RetireFails(a)
  <2>1. b = a
    <3>1. \E to : Goes(b, to)  BY <1>t, <1>2, HookOwn
    <3> QED BY <1>t, <1>a, <3>1, GoesOnly
  <2>2. Retire(a) \/ RetireFails(a) \/ \E to : Goes(a, to) /\ to # "done"
    BY <1>2, <2>1 DEF Hook, Lock, LockTimeout, Up, Create, Provision, CertsFail, Call, UpFails,
         CreateFails, ProvisionFails, CallTimeout, Fails
  <2> QED BY <1>t, <1>a, <2>2, GoesOnly
<1>3. ASSUME NEW b \in Applies, Daemon(b) PROVE FALSE
  <2>1. apply' = apply \/ Goes(b, "retire")
    BY <1>3 DEF Daemon, List, Answer, Skip, Write, Record, Unroute, Forget, WriteFails,
         UnrouteFails
  <2>2. CASE Goes(b, "retire")
    <3>1. apply'[b].at = "retire" /\ \A c \in Applies \ {b} : apply'[c] = apply[c]
      BY <1>t, <2>2, GoesOnly
    <3> QED BY <1>a, <3>1
  <2> QED BY <1>a, <2>1, <2>2
<1>4. CASE DaemonRestart \/ GitopsRestart \/ (\E w \in Workspaces : DriverRestart(w))
  <2>1. apply'[a] = apply[a] \/ apply'[a] = [apply[a] EXCEPT !.at = "failed"]
    BY <1>4 DEF DaemonRestart, GitopsRestart, DriverRestart
  <2>2. apply'[a].at = apply[a].at \/ apply'[a].at = "failed"
    BY <1>t, <2>1
  <2> QED BY <1>a, <2>2
<1>5. CASE UNCHANGED vars  BY <1>a, <1>5 DEF vars
<1> QED BY <1>1, <1>2, <1>3, <1>4, <1>5 DEF Next

LEMMA DeployedOf ==
  ASSUME NEW y \in Records, NEW t \in Declared(y), NEW c \in Containers,
         Same(c, Config(y, t)), c.att, c.certs
  PROVE  c = Deployed(y)[t]
<1>1. t \in Slots  BY DEF Declared
<1>2. Deployed(y)[t] = [db |-> y.wire[t], role |-> Role(y, t), ver |-> y.ver,
                        att |-> TRUE, certs |-> TRUE]
  BY <1>1 DEF Deployed
<1>3. c.att = TRUE /\ c.certs = TRUE  BY DEF Containers
<1>4. c.db = y.wire[t] /\ c.role = Role(y, t) /\ c.ver = y.ver  BY DEF Same, Config
<1>5. c = [db |-> c.db, role |-> c.role, ver |-> c.ver, att |-> c.att, certs |-> c.certs]
  BY DEF Containers
<1> QED BY <1>2, <1>3, <1>4, <1>5

LEMMA RetireApplies ==
  ASSUME RInv, TypeOK', NEW a \in Applies, Retire(a) \/ RetireFails(a)
  PROVE  Applied(a)'
<1>s. PICK s : s = apply[a].slice  OBVIOUS
<1>y. PICK y : y = Y(a)  OBVIOUS
<1>t. /\ BInv /\ TypeOK /\ Working(a) /\ s \in Slices /\ y \in Records
      /\ a \in Of(s)
  BY <1>s, <1>y, WarnedType DEF RInv, BInv, Of
<1>a. /\ apply[a].at = "retire" /\ Goes(a, "done")
      /\ \E D : /\ D \subseteq Slots \ Declared(y) /\ Retired(a, D)
                /\ s \in broken' \/ (D = Slots \ Declared(y) /\ broken' = broken)
      /\ sub' = sub /\ plat' = plat /\ warned' = warned
  BY <1>s, <1>y DEF Retire, RetireFails, At, ingress, trouble
<1>d. PICK D : /\ D \subseteq Slots \ Declared(y) /\ Retired(a, D)
               /\ s \in broken' \/ (D = Slots \ Declared(y) /\ broken' = broken)
  BY <1>a
<1>g. apply'[a].slice = s /\ Y(a)' = y  BY <1>t, <1>s, <1>y, <1>a, GoesAt
<1>r. \A t \in Slots : /\ gw'[s][t] = IF t \in D THEN 0 ELSE gw[s][t]
                       /\ app'[s][t] = IF t \in D THEN Gone ELSE app[s][t]
  BY <1>t, <1>s, <1>d, RetiredAt
<1>b. \A t \in Declared(y) : t \in Slots /\ gw[s][t] = y.fw /\ Same(app[s][t], Config(y, t))
  BY <1>t, <1>s, <1>y, <1>a DEF Working, Brought, Current, Boxes, Declared, AtWork
<1>1. \A t \in Declared(y) : gw'[s][t] = y.fw /\ Same(app'[s][t], Config(y, t))
  BY <1>b, <1>d, <1>r
<1>2. ASSUME s \notin broken' PROVE Exact(s, y)'
  <2>1. D = Slots \ Declared(y) /\ s \notin broken  BY <1>2, <1>d
  <2>2. \A t \in Slots \ Declared(y) : gw'[s][t] = 0  BY <1>r, <2>1
  <2>3. ASSUME NEW t \in Slots PROVE app'[s][t] = Deployed(y)[t]
    <3>1. CASE t \notin Declared(y)
      BY <1>r, <2>1, <3>1 DEF Deployed
    <3>2. CASE t \in Declared(y)
      <4>1. app'[s][t] = app[s][t] /\ app[s][t] \in Containers
        BY <1>t, <1>r, <2>1, <3>2 DEF TypeOK
      <4>2. Same(app[s][t], Config(y, t)) /\ Exists(app[s][t])
        BY <1>t, <1>b, <3>2, SameExists
      <4>3. lock[Ws(a)] = a  BY <1>t, <1>a DEF Working, Held, AtWork
      <4>4. app[s][t].att /\ app[s][t].certs
        BY <1>t, <1>s, <1>a, <2>1, <4>2, <4>3, OwnList
      <4> QED BY <1>t, <3>2, <4>1, <4>2, <4>4, DeployedOf
    <3> QED BY <3>1, <3>2
  <2>4. app'[s] \in [Slots -> Containers] /\ Deployed(y) \in [Slots -> Containers]
    BY <1>t, DeployedType DEF TypeOK
  <2>5. app'[s] = Deployed(y)  BY <2>3, <2>4
  <2> QED BY <2>2, <2>5 DEF Exact, Deployed
<1>3. ASSUME Begins = {}, s \notin warned' PROVE Converged(s, y)'
  <2>1. \A p \in OwnPlaces(s) : IF Stays(a, p) THEN Right(a, p) ELSE p \notin plat
    BY <1>t, <1>s, <1>a, <1>3 DEF RInv, Routing, Converging, Retiring
  <2>2. ASSUME NEW h \in Hosts
        PROVE  IF Upstream(y, h) = 0 THEN <<s, h>> \notin plat
               ELSE <<s, h>> \in plat /\ sub[<<s, h>>] = Upstream(y, h)
    <3>1. <<s, h>> \in OwnPlaces(s) /\ <<s, h>> \in Places /\ <<s, h>>[2] = h
      BY <1>t DEF OwnPlaces, Places
    <3>2. Want(a, <<s, h>>) = Upstream(y, h)  BY <1>y, <3>1 DEF Want
    <3>3. Stays(a, <<s, h>>) <=> Upstream(y, h) # 0  BY <1>t, <3>1, <3>2, WantOf
    <3> QED BY <2>1, <3>1, <3>2, <3>3 DEF Right
  <2> QED BY <1>a, <2>2 DEF Converged
<1> QED BY <1>g, <1>1, <1>2, <1>3 DEF Applied

\* An apply that ends well has brought up what the record it carried declares, in
\* whatever order the pushes got the lock and however far earlier ones had got; the
\* containers are whole and the only ones if no apply of the slice has failed, and
\* the routes are the record's if no request was given up (runApply, reconcile).
THEOREM EndsApplied == Spec => DoneMeansApplied
<1>1. Init => RInv  BY RoutesInit
<1>2. RInv /\ TypeOK' /\ [Next]_vars => RInv'  BY RoutesNext
<1>3. RInv /\ TypeOK' /\ [Next]_vars
        => [\A a \in Applies : ~At(a, "done") /\ At(a, "done")' => Applied(a)']_vars
  BY OnlyRetireEnds, RetireApplies
<1> QED BY <1>1, <1>2, <1>3, TypeCorrect, PTL DEF Spec, DoneMeansApplied
=============================================================================
