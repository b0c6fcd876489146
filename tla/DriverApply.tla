------------------------------ MODULE DriverApply ------------------------------
(***************************************************************************)
(* A deployment from bitswan.yaml to the browser.  gitops pushes the       *)
(* record of a business process to the driver of its workspace; the hook   *)
(* of the push waits for the lock of the workspace, brings the containers  *)
(* up, asks the daemon to converge the routes of the process to what the   *)
(* record implies, and removes the containers that it no longer declares.  *)
(* The daemon serves such a request by itself: it goes on when the driver  *)
(* has restarted or has given up waiting, whereas the lock does not last.  *)
(*                                                                         *)
(* A slice is one business process of one workspace.  A slot of its        *)
(* production is an application container in the network namespace of a    *)
(* gateway, as in every production, which is always firewalled.                   *)
(***************************************************************************)
EXTENDS ProductionSlots, FiniteSets

CONSTANTS
  Slices,
  Home,       \* the workspace of a slice
  Name,       \* the name of its business process
  Begins,     \* pairs of workspaces: the hosts of the first begin as the second's do
  Ops,        \* kinds of operation that gitops is asked for
  MaxOps,     \* bound: operations
  MaxPushes,  \* bound: pushes
  MaxFaults   \* bound: failing steps and restarts

ASSUME BoundsAssumption ==
  MaxOps \in Nat /\ MaxPushes \in Nat /\ MaxFaults \in Nat

\* A workspace has one process of a name.
ASSUME NamesAssumption ==
  \A s, t \in Slices : Home[s] = Home[t] /\ Name[s] = Name[t] => s = t

Workspaces == {Home[s] : s \in Slices}
Applies    == 1..MaxPushes
Places     == Slices \X Hosts

Gone == [db |-> 0, role |-> "spare", ver |-> 1, att |-> FALSE, certs |-> FALSE]
Containers == [db : 0..2, role : Roles, ver : 1..2, att : BOOLEAN, certs : BOOLEAN]
Phases == {"none", "wait", "up", "workers", "provision", "health", "calling",
           "retire", "done", "failed"}
Ended  == {"none", "done", "failed"}

VARIABLES
  yaml,     \* the record of each slice
  promo,    \* where its zero-downtime promotion is
  ops, pushes,
  apply,    \* for each push: its slice, the record it carries, the phase of its hook
  moved,    \* gateways it has created anew
  fresh,    \* applications it has created anew
  lock,     \* the push whose hook has the lock of a workspace, 0 for none
  gw,       \* the posture of the gateway of each slot, 0 for no gateway
  app,      \* the application container of each slot
  sub,      \* the slot to which the workspace's sub-traefik sends a host, 0 for none
  plat,     \* the hosts that the platform's traefik accepts
  rec,      \* the upstream recorded for a host in protected_routes
  tagged,   \* the hosts whose endpoint is marked as gitops's, for their process
  req,      \* the daemon's side of a request to converge
  todo,     \* the hosts it has left
  half,     \* the host whose proxies it has written, and not yet its record
  faults,
  broken,   \* slices with an apply that left containers half done
  warned    \* slices with a request that failed in part, or outlived its apply

gitops   == <<yaml, promo, ops>>
hook     == <<moved, fresh>>
boxes    == <<gw, app>>
ingress  == <<sub, plat, rec, tagged>>
request  == <<req, todo, half>>
trouble  == <<faults, broken, warned>>
vars     == <<gitops, pushes, apply, hook, lock, boxes, ingress, request, trouble>>

Deployed(y) ==
  [s \in Slots |-> IF s \in Declared(y)
                   THEN [db |-> y.wire[s], role |-> Role(y, s), ver |-> y.ver,
                         att |-> TRUE, certs |-> TRUE]
                   ELSE Gone]

\* Every slice is as an earlier push of its record has left it.
Init ==
  /\ \E on \in [Slices -> BOOLEAN] : yaml = [s \in Slices |-> Fresh(on[s])]
  /\ promo = [s \in Slices |-> [at |-> "idle", slot |-> 1, push |-> 0]]
  /\ ops = 0 /\ pushes = 0
  /\ \E s \in Slices :
       apply = [a \in Applies |-> [slice |-> s, y |-> Fresh(FALSE), at |-> "none"]]
  /\ moved = [a \in Applies |-> {}] /\ fresh = [a \in Applies |-> {}]
  /\ lock = [w \in Workspaces |-> 0]
  /\ gw = [s \in Slices |-> [t \in Slots |-> IF t \in Declared(yaml[s]) THEN 1 ELSE 0]]
  /\ app = [s \in Slices |-> Deployed(yaml[s])]
  /\ sub = [p \in Places |-> Upstream(yaml[p[1]], p[2])]
  /\ plat = {p \in Places : sub[p] # 0} /\ rec = sub /\ tagged = plat
  /\ req = [a \in Applies |-> "none"] /\ todo = [a \in Applies |-> {}]
  /\ half = [a \in Applies |-> {}]
  /\ faults = 0 /\ broken = {} /\ warned = {}

-----------------------------------------------------------------------------
(* gitops *)

\* The commit a push carries is of the record as it is when the push is made; a
\* push that another one overtakes is refused, so that pushes are in order.
Pushed(s) ==
  /\ pushes < MaxPushes /\ pushes' = pushes + 1
  /\ apply' = [apply EXCEPT ![pushes'] = [slice |-> s, y |-> yaml'[s], at |-> "wait"]]

Push(s) ==
  /\ yaml' = yaml /\ Pushed(s)
  /\ UNCHANGED <<promo, ops, hook, lock, boxes, ingress, request, trouble>>

Operation(kind) ==
  /\ kind \in Ops /\ ops < MaxOps /\ ops' = ops + 1
  /\ UNCHANGED <<hook, lock, boxes, ingress, request, trouble>>

\* These write the record, and push it in a step of their own (Push), which they
\* may never reach; a removal takes the deployments out of the record.
Deploy(s) ==
  /\ Operation("deploy")
  /\ yaml' = [yaml EXCEPT ![s].on = TRUE, ![s].ver = IF @ = 1 THEN 2 ELSE 1]
  /\ UNCHANGED <<promo, pushes, apply>>

Remove(s) ==
  /\ Operation("remove")
  /\ yaml[s].on /\ yaml' = [yaml EXCEPT ![s].on = FALSE]
  /\ UNCHANGED <<promo, pushes, apply>>

SetPosture(s) ==
  /\ Operation("posture")
  /\ yaml' = [yaml EXCEPT ![s].fw = IF @ = 1 THEN 2 ELSE 1]
  /\ UNCHANGED <<promo, pushes, apply>>

SwapDr(s) ==
  /\ Operation("swap")
  /\ DrSlot(yaml[s]) # 0 /\ yaml' = [yaml EXCEPT ![s] = Swapped(@)]
  /\ UNCHANGED <<promo, pushes, apply>>

\* A promotion: stage the idle slot, push, and once that push has been applied
\* make the slot live, and push twice more (Push).  What keeps two of them apart is
\* that the first leaves no slot idle.
BeginPromote(s) ==
  /\ Operation("promote")
  /\ Idle(yaml[s]) # {}
  /\ yaml' = [yaml EXCEPT ![s] = Staged(@)]
  /\ promo' = [promo EXCEPT ![s] = [at |-> "begun", slot |-> First(Idle(yaml[s])),
                                    push |-> 0]]
  /\ UNCHANGED <<pushes, apply>>

PushStaged(s) ==
  /\ promo[s].at = "begun"
  /\ yaml' = yaml /\ Pushed(s)
  /\ promo' = [promo EXCEPT ![s].at = "staging", ![s].push = pushes']
  /\ UNCHANGED <<ops, hook, lock, boxes, ingress, request, trouble>>

FinishPromote(s) ==
  /\ promo[s].at = "staging" /\ apply[promo[s].push].at = "done"
  /\ yaml' = [yaml EXCEPT ![s] = Promoted(@, promo[s].slot)]
  /\ promo' = [promo EXCEPT ![s].at = "idle"]
  /\ UNCHANGED <<ops, pushes, apply, hook, lock, boxes, ingress, request, trouble>>

\* The slot stays wired: nothing takes the record of a failed promotion back,
\* or of one that a restart of gitops cuts short.
PromoteFails(s) ==
  /\ promo[s].at = "staging" /\ apply[promo[s].push].at = "failed"
  /\ promo' = [promo EXCEPT ![s].at = "idle"]
  /\ UNCHANGED <<yaml, ops, pushes, apply, hook, lock, boxes, ingress, request, trouble>>

Fault == faults < MaxFaults /\ faults' = faults + 1

GitopsRestart ==
  /\ Fault /\ UNCHANGED <<broken, warned>>
  /\ \E s \in Slices : promo[s].at # "idle"
  /\ promo' = [s \in Slices |-> [promo[s] EXCEPT !.at = "idle"]]
  /\ UNCHANGED <<yaml, ops, pushes, apply, hook, lock, boxes, ingress, request>>

-----------------------------------------------------------------------------
(* The hook of a push *)

At(a, phase)  == apply[a].at = phase
Ws(a)         == Home[apply[a].slice]
Goes(a, to)   == apply' = [apply EXCEPT ![a].at = to]
Releases(a)   == lock' = [lock EXCEPT ![Ws(a)] = 0]
Y(a)          == apply[a].y
Boxes(a)      == app[apply[a].slice]

\* Whoever polls first has it: the order of the pushes is not kept.
Lock(a) ==
  /\ At(a, "wait") /\ lock[Ws(a)] = 0
  /\ lock' = [lock EXCEPT ![Ws(a)] = a] /\ Goes(a, "up")
  /\ UNCHANGED <<gitops, pushes, hook, boxes, ingress, request, trouble>>

LockTimeout(a) ==
  /\ At(a, "wait") /\ lock[Ws(a)] # 0 /\ Goes(a, "failed")
  /\ UNCHANGED <<gitops, pushes, hook, lock, boxes, ingress, request, trouble>>

\* Creates the gateways in M anew; the applications that were in the namespace of
\* the old one are cut off.
Gateways(a, M) ==
  LET s == apply[a].slice
  IN  /\ gw'  = [gw EXCEPT ![s] = [t \in Slots |-> IF t \in M THEN Y(a).fw ELSE @[t]]]
      /\ app' = [app EXCEPT ![s] = [t \in Slots |->
                   IF t \in M THEN [@[t] EXCEPT !.att = FALSE] ELSE @[t]]]

Moving(a) == {t \in Declared(Y(a)) : gw[apply[a].slice][t] # Y(a).fw}

Up(a) ==
  /\ At(a, "up") /\ Goes(a, "workers")
  /\ Gateways(a, Moving(a)) /\ moved' = [moved EXCEPT ![a] = Moving(a)]
  /\ UNCHANGED <<gitops, pushes, fresh, lock, ingress, request, trouble>>

Exists(c)       == c.db # 0
Same(c, config) == c.db = config.db /\ c.role = config.role /\ c.ver = config.ver

BugStale(a) ==
  {t \in Declared(Y(a)) : ~Exists(Boxes(a)[t]) \/ ~Same(Boxes(a)[t], Config(Y(a), t))}

\* An application is created anew when it is missing, when what is declared of it
\* has changed, and when its gateway is another one since this apply began.
Stale(a) ==
  {t \in Declared(Y(a)) : \/ ~Exists(Boxes(a)[t])
                          \/ ~Same(Boxes(a)[t], Config(Y(a), t))
                          \/ t \in moved[a]}

Workers(a, W) ==
  app' = [app EXCEPT ![apply[a].slice] = [t \in Slots |->
            IF t \in W THEN [db |-> Y(a).wire[t], role |-> Role(Y(a), t),
                             ver |-> Y(a).ver, att |-> TRUE, certs |-> FALSE]
                       ELSE @[t]]]

Create(a) ==
  /\ At(a, "workers") /\ Goes(a, "provision")
  /\ Workers(a, Stale(a)) /\ fresh' = [fresh EXCEPT ![a] = Stale(a)]
  /\ UNCHANGED <<gitops, pushes, moved, lock, gw, ingress, request, trouble>>

\* Databases are ensured and certificates installed in what this apply created.
Certified(a, C) ==
  app' = [app EXCEPT ![apply[a].slice] = [t \in Slots |->
            IF t \in C THEN [@[t] EXCEPT !.certs = TRUE] ELSE @[t]]]

Provision(a) ==
  /\ At(a, "provision") /\ Goes(a, "health") /\ Certified(a, fresh[a])
  /\ UNCHANGED <<gitops, pushes, hook, lock, gw, ingress, request, trouble>>

\* An installation that fails is only reported.
CertsFail(a) ==
  /\ At(a, "provision") /\ Goes(a, "health")
  /\ fresh[a] # {} /\ \E C \in SUBSET fresh[a] : C # fresh[a] /\ Certified(a, C)
  /\ Fault /\ broken' = broken \cup {apply[a].slice} /\ warned' = warned
  /\ UNCHANGED <<gitops, pushes, hook, lock, gw, ingress, request>>

\* The same for a wait that times out: it is reported, and the call is made.
Call(a) ==
  /\ At(a, "health") /\ Goes(a, "calling")
  /\ req' = [req EXCEPT ![a] = "upsert"]
  /\ todo' = [todo EXCEPT ![a] = {apply[a].slice} \X Routed(Y(a))]
  /\ UNCHANGED <<gitops, pushes, hook, lock, boxes, ingress, half, trouble>>

\* Only what the record at hand does not declare, and only of this slice.
Retired(a, D) ==
  LET s == apply[a].slice
  IN  /\ gw'  = [gw EXCEPT ![s] = [t \in Slots |-> IF t \in D THEN 0 ELSE @[t]]]
      /\ app' = [app EXCEPT ![s] = [t \in Slots |-> IF t \in D THEN Gone ELSE @[t]]]

Retire(a) ==
  /\ At(a, "retire") /\ Goes(a, "done") /\ Releases(a)
  /\ Retired(a, Slots \ Declared(Y(a)))
  /\ UNCHANGED <<gitops, pushes, hook, ingress, request, trouble>>

-----------------------------------------------------------------------------
(* What may fail in the hook *)

Fails(a) ==
  /\ Fault /\ Goes(a, "failed") /\ Releases(a)
  /\ broken' = broken \cup {apply[a].slice}
  /\ UNCHANGED <<gitops, pushes, hook, ingress, request, warned>>

\* compose has created some containers and not others.
UpFails(a) ==
  /\ At(a, "up") /\ Fails(a) /\ \E M \in SUBSET Moving(a) : Gateways(a, M)

CreateFails(a) ==
  /\ At(a, "workers") /\ Fails(a) /\ UNCHANGED gw
  /\ \E W \in SUBSET Stale(a) : Workers(a, W)

ProvisionFails(a) == At(a, "provision") /\ Fails(a) /\ UNCHANGED boxes

RetireFails(a) ==
  /\ At(a, "retire") /\ Goes(a, "done") /\ Releases(a)
  /\ \E D \in SUBSET (Slots \ Declared(Y(a))) : Retired(a, D)
  /\ Fault /\ broken' = broken \cup {apply[a].slice}
  /\ UNCHANGED <<gitops, pushes, hook, ingress, request, warned>>

\* After 180 s the driver gives up; the daemon does not.
CallTimeout(a) ==
  /\ At(a, "calling") /\ req[a] # "none" /\ Goes(a, "failed") /\ Releases(a)
  /\ Fault /\ warned' = warned \cup {apply[a].slice} /\ broken' = broken
  /\ UNCHANGED <<gitops, pushes, hook, boxes, ingress, request>>

\* The hooks of a driver end with it, and the kernel frees their lock.
Running(w) == {a \in Applies : apply[a].at \notin Ended /\ Ws(a) = w}

DriverRestart(w) ==
  /\ Running(w) # {} /\ Fault
  /\ apply' = [a \in Applies |->
                 IF a \in Running(w) THEN [apply[a] EXCEPT !.at = "failed"] ELSE apply[a]]
  /\ lock' = [lock EXCEPT ![w] = 0]
  /\ broken' = broken \cup {apply[a].slice : a \in {b \in Running(w) : ~At(b, "wait")}}
  /\ warned' = warned \cup {apply[a].slice : a \in {b \in Running(w) : At(b, "calling")}}
  /\ UNCHANGED <<gitops, pushes, hook, boxes, ingress, request>>

-----------------------------------------------------------------------------
(* The daemon *)

Want(a, p) == Upstream(Y(a), p[2])

BugInSync(a, p) == p \in tagged /\ rec[p] # 0

\* It asks its own record, not the proxies.
InSync(a, p) == p \in tagged /\ rec[p] = Want(a, p)

Asked(a, p, phase) == req[a] = phase /\ p \in todo[a] /\ half[a] = {}
Less(a, p)  == todo' = [todo EXCEPT ![a] = @ \ {p}]
Half(a, P)  == half' = [half EXCEPT ![a] = P]

Skip(a, p) ==
  /\ Asked(a, p, "upsert") /\ InSync(a, p) /\ Less(a, p)
  /\ UNCHANGED <<gitops, pushes, apply, hook, lock, boxes, ingress, req, half, trouble>>

\* The sub-traefik first, the platform's traefik next, the record and the mark last.
Write(a, p) ==
  /\ Asked(a, p, "upsert") /\ ~InSync(a, p) /\ Half(a, {p}) /\ Less(a, p)
  /\ sub' = [sub EXCEPT ![p] = Want(a, p)] /\ plat' = plat \cup {p}
  /\ UNCHANGED <<gitops, pushes, apply, hook, lock, boxes, rec, tagged, req, trouble>>

Record(a, p) ==
  /\ req[a] = "upsert" /\ p \in half[a] /\ Half(a, {})
  /\ rec' = [rec EXCEPT ![p] = Want(a, p)] /\ tagged' = tagged \cup {p}
  /\ UNCHANGED <<gitops, pushes, apply, hook, lock, boxes, sub, plat, req, todo, trouble>>

BugManaged(a) ==
  {p \in tagged : LET s == apply[a].slice
                  IN Home[p[1]] = Home[s] \/ <<Home[s], Home[p[1]]>> \in Begins}

\* The marked hosts of a process of this name whose name begins as the workspace's do.
Managed(a) ==
  LET s == apply[a].slice
  IN  {p \in tagged : /\ Name[p[1]] = Name[s]
                      /\ Home[p[1]] = Home[s] \/ <<Home[s], Home[p[1]]>> \in Begins}

List(a) ==
  /\ req[a] = "upsert" /\ todo[a] = {} /\ half[a] = {}
  /\ req' = [req EXCEPT ![a] = "prune"]
  /\ todo' = [todo EXCEPT ![a] = Managed(a) \ ({apply[a].slice} \X Routed(Y(a)))]
  /\ UNCHANGED <<gitops, pushes, apply, hook, lock, boxes, ingress, half, trouble>>

\* Of the proxies only the platform's forgets the host.
Unroute(a, p) ==
  /\ Asked(a, p, "prune") /\ Half(a, {p}) /\ Less(a, p)
  /\ plat' = plat \ {p}
  /\ UNCHANGED <<gitops, pushes, apply, hook, lock, boxes, sub, rec, tagged, req, trouble>>

Forget(a, p) ==
  /\ req[a] = "prune" /\ p \in half[a] /\ Half(a, {})
  /\ rec' = [rec EXCEPT ![p] = 0] /\ tagged' = tagged \ {p}
  /\ UNCHANGED <<gitops, pushes, apply, hook, lock, boxes, sub, plat, req, todo, trouble>>

\* The answer is a success, whatever failed; the hook may no longer be there to
\* hear it.
Answer(a) ==
  /\ req[a] = "prune" /\ todo[a] = {} /\ half[a] = {}
  /\ req' = [req EXCEPT ![a] = "none"]
  /\ IF At(a, "calling") THEN Goes(a, "retire") ELSE apply' = apply
  /\ UNCHANGED <<gitops, pushes, hook, lock, boxes, ingress, todo, half, trouble>>

-----------------------------------------------------------------------------
(* What may fail in the daemon *)

Warning(a) == Fault /\ warned' = warned \cup {apply[a].slice} /\ UNCHANGED broken

\* A route that cannot be written becomes a warning in the answer, and the loop
\* goes on; the sub-traefik may have been written already.
WriteFails(a, p) ==
  /\ Asked(a, p, "upsert") /\ ~InSync(a, p) /\ Less(a, p) /\ Warning(a)
  /\ sub' \in {sub, [sub EXCEPT ![p] = Want(a, p)]}
  /\ UNCHANGED <<gitops, pushes, apply, hook, lock, boxes, plat, rec, tagged, req, half>>

UnrouteFails(a, p) ==
  /\ Asked(a, p, "prune") /\ Less(a, p) /\ Warning(a)
  /\ UNCHANGED <<gitops, pushes, apply, hook, lock, boxes, ingress, req, half>>

\* The hooks that wait for an answer fail.
DaemonRestart ==
  LET served == {a \in Applies : req[a] # "none"}
      waiting == {a \in served : At(a, "calling")}
  IN  /\ served # {} /\ Fault /\ UNCHANGED broken
      /\ warned' = warned \cup {apply[a].slice : a \in served}
      /\ req'  = [a \in Applies |-> "none"]
      /\ todo' = [a \in Applies |-> {}] /\ half' = [a \in Applies |-> {}]
      /\ apply' = [a \in Applies |-> IF a \in waiting
                                     THEN [apply[a] EXCEPT !.at = "failed"] ELSE apply[a]]
      /\ lock' = [w \in Workspaces |-> IF lock[w] \in waiting THEN 0 ELSE lock[w]]
      /\ UNCHANGED <<gitops, pushes, hook, boxes, ingress>>

-----------------------------------------------------------------------------
Gitops(s) ==
  \/ Push(s) \/ Deploy(s) \/ Remove(s) \/ SwapDr(s) \/ SetPosture(s)
  \/ BeginPromote(s) \/ PushStaged(s) \/ FinishPromote(s) \/ PromoteFails(s)

Hook(a) ==
  \/ Lock(a) \/ LockTimeout(a) \/ Up(a) \/ Create(a) \/ Provision(a) \/ CertsFail(a)
  \/ Call(a) \/ Retire(a)
  \/ UpFails(a) \/ CreateFails(a) \/ ProvisionFails(a) \/ RetireFails(a) \/ CallTimeout(a)

Daemon(a) ==
  \/ List(a) \/ Answer(a)
  \/ \E p \in Places : \/ Skip(a, p) \/ Write(a, p) \/ Record(a, p)
                       \/ Unroute(a, p) \/ Forget(a, p)
                       \/ WriteFails(a, p) \/ UnrouteFails(a, p)

Next ==
  \/ \E s \in Slices : Gitops(s)
  \/ \E a \in Applies : Hook(a) \/ Daemon(a)
  \/ \E w \in Workspaces : DriverRestart(w)
  \/ DaemonRestart \/ GitopsRestart

Spec == Init /\ [][Next]_vars

-----------------------------------------------------------------------------
(* Properties *)

TypeOK ==
  /\ yaml \in [Slices -> Records]
  /\ promo \in [Slices -> [at : {"idle", "begun", "staging"}, slot : Slots,
                           push : 0..MaxPushes]]
  /\ ops \in 0..MaxOps /\ pushes \in 0..MaxPushes
  /\ apply \in [Applies -> [slice : Slices, y : Records, at : Phases]]
  /\ moved \in [Applies -> SUBSET Slots] /\ fresh \in [Applies -> SUBSET Slots]
  /\ lock \in [Workspaces -> 0..MaxPushes]
  /\ gw \in [Slices -> [Slots -> 0..2]] /\ app \in [Slices -> [Slots -> Containers]]
  /\ sub \in [Places -> 0..3] /\ plat \subseteq Places
  /\ rec \in [Places -> 0..3] /\ tagged \subseteq Places
  /\ req \in [Applies -> {"none", "upsert", "prune"}]
  /\ todo \in [Applies -> SUBSET Places] /\ half \in [Applies -> SUBSET Places]
  /\ faults \in 0..MaxFaults /\ broken \subseteq Slices /\ warned \subseteq Slices

\* Whatever promotions and swaps meet, and wherever a promotion is cut short, the
\* live slot of the record is wired to the live database, and a slot is left that
\* stands by on the other one (begin_zero_downtime_promote,
\* finish_zero_downtime_promote, swap_production_dr).
SlotsSound ==
  \A s \in Slices : yaml[s].wire[yaml[s].live] = yaml[s].db /\ DrSlot(yaml[s]) # 0

\* A host that is accepted reaches a container that exists: the routes move before
\* the old slot is retired, in whatever order the pushes get the lock (reconcile,
\* step 5b).  Not so for a slice with a route that could not be converged, nor
\* where the request of another workspace can take the mark of a host away.
NeverDangling ==
  Begins = {} => \A p \in plat : p[1] \notin warned =>
    sub[p] # 0 /\ Exists(app[p[1]][sub[p]]) /\ gw[p[1]][sub[p]] # 0

\* retireOrphanedContainers: "Done after the ingress cutover so a removed container
\* is never one a route still points at."
NeverRetiredWhileRouted ==
  \A p \in plat : sub[p] # 0 => Exists(app[p[1]][sub[p]])

Exact(s, y) == app[s] = Deployed(y) /\ \A t \in Slots \ Declared(y) : gw[s][t] = 0

Converged(s, y) ==
  \A h \in Hosts : IF Upstream(y, h) = 0 THEN <<s, h>> \notin plat
                   ELSE <<s, h>> \in plat /\ sub[<<s, h>>] = Upstream(y, h)

\* An apply that ends well has brought up all that the record it carried declares,
\* however far earlier ones had got.  Containers are in the namespace of their
\* gateway, have their certificates and are the only ones if no apply has failed
\* (runApply, reconcile), and the routes are the record's if none was given up and
\* no other workspace's request can take them down.
Applied(a) ==
  LET s == apply[a].slice
      y == Y(a)
  IN  /\ \A t \in Declared(y) : gw[s][t] = y.fw /\ Same(app[s][t], Config(y, t))
      /\ s \notin broken => Exact(s, y)
      /\ Begins = {} /\ s \notin warned => Converged(s, y)

DoneMeansApplied ==
  [][\A a \in Applies : ~At(a, "done") /\ At(a, "done")' => Applied(a)']_vars

\* What belongs to a slice, and whether anything of its own has taken a step.
Own(s)   == <<gw[s], app[s], [h \in Hosts |-> <<sub[<<s, h>>], rec[<<s, h>>]>>],
              {p \in plat \cup tagged : p[1] = s}>>
Idles(s) == \A a \in Applies : apply[a].slice = s =>
              UNCHANGED <<apply[a], req[a], todo[a], half[a]>>

\* The apply of one process never touches the containers or the routes of another
\* (retireOrphanedContainers, listGitopsManagedHosts), provided that no workspace's
\* name begins as another's.
SiblingsUntouched ==
  [][Begins = {} => \A s \in Slices : Idles(s) => UNCHANGED Own(s)]_vars
=============================================================================
