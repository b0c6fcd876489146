----------------------------- MODULE Daemon_proofs -----------------------------
(***************************************************************************)
(* Theorems about the daemon of the automation server: what it does with   *)
(* the workspaces (Workspaces) and what goes through its relay tunnel      *)
(* (Relay), for any number of workspaces, calls, servers and streams.      *)
(***************************************************************************)
EXTENDS Workspaces, Relay, TLAPS

-----------------------------------------------------------------------------
(* The calls of the daemon, and what they leave alone *)

\* TypeOK in parts: the calls, the things of the workspaces, the background
ReadsOK ==
  /\ seen \in [Actors -> SUBSET Ws]
  /\ cand \in [Actors -> SUBSET (Ws \X Hosts)]
  /\ strays \in [Actors -> SUBSET Sidecars]

CallsOK ==
  /\ pc \in [Actors -> Labels] /\ ws \in [Actors -> Ws \cup {None}]
  /\ \A a \in Actors : At(a, "idle") <=> ws[a] = None
  /\ clean \in [Actors -> BOOLEAN] /\ ReadsOK
  /\ ops \in 0 .. MaxOps /\ faults \in 0 .. MaxFaults

ThingsOK ==
  /\ files \subseteq Ws \X Files /\ up \subseteq Ws \X Containers
  /\ nets \subseteq Ws \X Nets /\ hosts \subseteq Ws \X Hosts
  /\ vols \subseteq Ws /\ images \subseteq Ws /\ listed \subseteq Ws
  /\ \A f \in files : Has(f[1], "dir")

QuietOK ==
  /\ stopping \in [Ws -> {None, "site", "dashboard"}]
  /\ heal \subseteq Ws \X Sidecars

LEMMA TypeParts == TypeOK <=> CallsOK /\ ThingsOK /\ QuietOK
BY DEF TypeOK, CallsOK, ReadsOK, ThingsOK, QuietOK

\* Nobody else is at work on the workspace of a call that is clean.
Alone(a) ==
  /\ \A b \in Actors \ {a} : ws[b] # ws[a]
  /\ stopping[ws[a]] = None

\* Where a removal is when it is past each of its steps.
PastDown  == {"r_sweep", "r_vols", "r_nets", "r_hosts", "r_siblings", "r_unroute",
              "r_images", "r_files", "r_list"}
PastSweep == PastDown \ {"r_sweep"}
PastVols  == PastSweep \ {"r_vols"}
PastNets  == PastVols \ {"r_nets"}
PastHosts == {"r_images", "r_files", "r_list"}
PastImages == PastHosts \ {"r_images"}

\* What a clean removal has taken away is still gone, but the sidecars it has passed
\* by and what holds on to them; the hosts that are there it has listed.
Gone(a) ==
  /\ pc[a] \in PastDown =>
       Of(ws[a], Containers) \cap up \subseteq Of(ws[a], strays[a] \cup {"app"})
  /\ pc[a] \in PastSweep => Of(ws[a], Containers) \cap up \subseteq Of(ws[a], strays[a])
  /\ pc[a] \in PastVols => ws[a] \notin vols
  /\ pc[a] \in PastNets => (Of(ws[a], Nets) \cap nets # {} => "agent" \in strays[a])
  /\ pc[a] \in {"r_siblings", "r_unroute"} => Of(ws[a], Hosts) \cap hosts \subseteq cand[a]
  /\ pc[a] \in PastHosts => Of(ws[a], Hosts) \cap hosts = {}
  /\ pc[a] \in PastImages => ws[a] \notin images
  /\ pc[a] = "r_list" => Of(ws[a], Files) \cap files = {}

Clean(a) == clean[a] /\ ws[a] # None => Alone(a) /\ Gone(a)

\* What a removal is about to delete is its own, or of no workspace that it has seen.
Listed(a) ==
  pc[a] = "r_unroute" =>
    cand[a] # {} /\ \A h \in cand[a] : h[1] = ws[a] \/ h[1] \notin seen[a]

WInv == TypeOK /\ \A a \in Actors : Clean(a) /\ Listed(a)

-----------------------------------------------------------------------------
(* How a call moves on *)

Stepped(a, label) == pc[a] # "idle" /\ label \in Labels \ {"idle"}

LEMMA MovesTyped ==
  ASSUME CallsOK, NEW a \in Actors, NEW label, Stepped(a, label), ReadsOK',
         Moves(a, label) \/ Falters(a, label)
  PROVE  CallsOK'
<1>1. pc' = [pc EXCEPT ![a] = label] /\ ws' = ws  BY DEF Moves, Falters
<1>2. pc' \in [Actors -> Labels] /\ \A b \in Actors : pc'[b] = "idle" <=> pc[b] = "idle"
  BY <1>1 DEF CallsOK, Stepped
<1>3. clean' \in [Actors -> BOOLEAN]  BY DEF CallsOK, Moves, Falters
<1>4. ops' \in 0 .. MaxOps /\ faults' \in 0 .. MaxFaults
  BY BoundsAssumption DEF CallsOK, Moves, Falters, counts
<1> QED BY <1>1, <1>2, <1>3, <1>4 DEF CallsOK, At

LEMMA GoTyped ==
  ASSUME CallsOK, NEW a \in Actors, NEW label, Stepped(a, label),
         Go(a, label) \/ Fault(a, label)
  PROVE  CallsOK'
<1>1. ReadsOK'  BY DEF CallsOK, ReadsOK, Go, Fault, reads
<1> QED BY <1>1, MovesTyped DEF Go, Fault

LEMMA ReturnTyped ==
  ASSUME CallsOK, NEW a \in Actors, Return(a)
  PROVE  CallsOK'
<1>1. "idle" \in Labels  BY DEF Labels
<1>2. ReadsOK'  BY DEF CallsOK, ReadsOK, Return, Forgets
<1> QED BY <1>1, <1>2 DEF CallsOK, Return, At, counts

LEMMA AbortTyped ==
  ASSUME CallsOK, NEW a \in Actors, Abort(a)
  PROVE  CallsOK'
<1>1. "idle" \in Labels  BY DEF Labels
<1>2. ReadsOK'  BY DEF CallsOK, ReadsOK, Abort, Forgets
<1> QED BY <1>1, <1>2, BoundsAssumption DEF CallsOK, Abort, At

LEMMA BeginTyped ==
  ASSUME CallsOK, NEW a \in Actors, NEW w \in Ws, NEW label \in Labels \ {"idle"},
         Begin(a, w, label)
  PROVE  CallsOK'
<1>1. clean' \in [Actors -> BOOLEAN]  BY DEF CallsOK, Begin, Disturbed
<1>2. \A b \in Actors : (At(b, "idle") <=> ws[b] = None)'
  BY NoneAssumption DEF CallsOK, Begin, At
<1>3. ReadsOK'  BY DEF CallsOK, ReadsOK, Begin, reads
<1> QED BY <1>1, <1>2, <1>3, BoundsAssumption DEF CallsOK, Begin

LEMMA AtWork == ASSUME CallsOK, NEW a \in Actors, pc[a] # "idle" PROVE ws[a] \in Ws
BY DEF CallsOK, At

\* Only the call a moves, on its workspace or back to nothing.
Only(a) ==
  /\ \A b \in Actors \ {a} :
       /\ pc'[b] = pc[b] /\ ws'[b] = ws[b] /\ clean'[b] = clean[b]
       /\ seen'[b] = seen[b] /\ cand'[b] = cand[b] /\ strays'[b] = strays[b]
  /\ ws'[a] \in {ws[a], None}

\* It goes to a label, unless it ends or is no longer clean.
Onward(a, label) ==
  /\ CallsOK' /\ Only(a)
  /\ pc'[a] \in {label, "idle"}
  /\ clean'[a] /\ ws'[a] # None => pc'[a] = label /\ clean[a] /\ ws'[a] = ws[a]

LEMMA GoesOn ==
  ASSUME CallsOK, NEW a \in Actors, NEW label, Stepped(a, label),
         Go(a, label) \/ Fault(a, label) \/ Return(a) \/ Abort(a)
  PROVE  Onward(a, label)
<1>1. CallsOK'  BY GoTyped, ReturnTyped, AbortTyped
<1>2. Only(a)
  BY DEF CallsOK, ReadsOK, Only, Go, Moves, Fault, Falters, Return, Abort, Forgets, reads
<1>3. /\ pc'[a] \in {label, "idle"}
      /\ clean'[a] /\ ws'[a] # None => pc'[a] = label /\ clean[a] /\ ws'[a] = ws[a]
  BY DEF CallsOK, Go, Moves, Fault, Falters, Return, Abort
<1> QED BY <1>1, <1>2, <1>3 DEF Onward

\* No thing of the workspace w is made.
Spares(w) ==
  /\ Of(w, Files) \cap files' \subseteq files
  /\ Of(w, Containers) \cap up' \subseteq up
  /\ Of(w, Nets) \cap nets' \subseteq nets
  /\ Of(w, Hosts) \cap hosts' \subseteq hosts
  /\ w \in vols' => w \in vols
  /\ w \in images' => w \in images

LEMMA OthersClean ==
  ASSUME WInv, NEW b \in Actors, pc'[b] = pc[b], ws'[b] = ws[b], clean'[b] => clean[b],
         seen'[b] = seen[b], cand'[b] = cand[b], strays'[b] = strays[b],
         clean'[b] /\ ws[b] # None =>
           /\ \A c \in Actors \ {b} : ws'[c] = ws[c] \/ ws'[c] # ws[b]
           /\ stopping'[ws[b]] = None
           /\ Spares(ws[b])
  PROVE  Clean(b)' /\ Listed(b)'
<1> SUFFICES ASSUME clean'[b], ws'[b] # None  PROVE Alone(b)' /\ Gone(b)'
  BY DEF Clean, Listed, WInv
<1>1. clean[b] /\ ws[b] # None /\ Alone(b) /\ Gone(b)  BY DEF WInv, Clean
<1>2. Alone(b)'  BY <1>1 DEF Alone
<1>3. Gone(b)'  BY <1>1 DEF Gone, Spares
<1> QED BY <1>2, <1>3

\* What a call may do at its workspace: it makes things there and nowhere else.
Works(a, label) ==
  /\ Onward(a, label) /\ ThingsOK' /\ UNCHANGED quiet
  /\ \A w \in Ws \ {ws[a]} : Spares(w)

LEMMA WorkKeeps ==
  ASSUME WInv, NEW a \in Actors, NEW label, pc[a] # "idle", Works(a, label),
         clean'[a] /\ ws'[a] # None => Gone(a)', Listed(a)'
  PROVE  WInv'
<1>t. CallsOK /\ ThingsOK /\ QuietOK /\ CallsOK' /\ ThingsOK' /\ quiet' = quiet
  BY TypeParts DEF WInv, Works, Onward
<1>1. TypeOK'
  <2>1. QuietOK'  BY <1>t DEF QuietOK, quiet
  <2> QED BY <1>t, <2>1 DEF TypeOK, CallsOK, ReadsOK, ThingsOK, QuietOK
<1>2. ASSUME NEW b \in Actors \ {a}  PROVE Clean(b)' /\ Listed(b)'
  <2>1. Only(a) /\ (\A w \in Ws \ {ws[a]} : Spares(w)) /\ stopping' = stopping
    BY DEF Works, Onward, quiet
  <2>2. /\ pc'[b] = pc[b] /\ ws'[b] = ws[b] /\ clean'[b] = clean[b]
        /\ seen'[b] = seen[b] /\ cand'[b] = cand[b] /\ strays'[b] = strays[b]
    BY <2>1 DEF Only
  <2>3. ASSUME clean'[b], ws[b] # None
        PROVE  /\ \A c \in Actors \ {b} : ws'[c] = ws[c] \/ ws'[c] # ws[b]
               /\ stopping'[ws[b]] = None
               /\ Spares(ws[b])
    <3>1. Alone(b)  BY <2>2, <2>3 DEF WInv, Clean
    <3>2. ws[b] \in Ws /\ ws[a] # ws[b]  BY <1>t, <2>3, <3>1 DEF CallsOK, Alone
    <3> QED BY <2>1, <2>3, <3>1, <3>2 DEF Alone, Only
  <2> QED BY <2>2, <2>3, OthersClean
<1>3. Clean(a)'
  <2> SUFFICES ASSUME clean'[a], ws'[a] # None  PROVE Alone(a)'
    BY DEF Clean
  <2>1. clean[a] /\ ws'[a] = ws[a] /\ Only(a) /\ stopping' = stopping
    BY DEF Works, Onward, quiet
  <2>2. Alone(a)  BY <2>1 DEF WInv, Clean
  <2> QED BY <2>1, <2>2 DEF Alone, Only
<1> QED BY <1>1, <1>2, <1>3 DEF WInv

\* The labels of the calls but those of a removal that is past its first downs.
Calm == Labels \ (PastDown \cup {"idle"})

LEMMA CalmKeeps ==
  ASSUME WInv, NEW a \in Actors, NEW label \in Calm, pc[a] # "idle", Works(a, label)
  PROVE  WInv'
<1>1. clean'[a] /\ ws'[a] # None => Gone(a)'
  BY DEF Works, Onward, Gone, Calm, PastDown, PastSweep, PastVols, PastNets, PastHosts,
         PastImages
<1>2. Listed(a)'  BY DEF Works, Onward, Listed, Calm, PastDown
<1> QED BY <1>1, <1>2, WorkKeeps

-----------------------------------------------------------------------------
(* runWorkspaceInit and the list of workspaces *)

LEMMA StillThings ==
  ASSUME ThingsOK, Still  PROVE ThingsOK' /\ UNCHANGED quiet /\ \A w \in Ws : Spares(w)
BY DEF ThingsOK, Still, things, Spares, Has

\* A call ends, or goes on to a calm label, and leaves the things alone.
LEMMA Stays ==
  ASSUME CallsOK, ThingsOK, NEW a \in Actors, NEW label \in Calm, pc[a] # "idle", Still,
         Go(a, label) \/ Fault(a, label) \/ Return(a) \/ Abort(a)
  PROVE  Works(a, label)
<1>1. Stepped(a, label)  BY DEF Stepped, Calm
<1>2. Onward(a, label)  BY <1>1, GoesOn
<1> QED BY <1>2, StillThings DEF Works

LEMMA InitWorks ==
  ASSUME CallsOK, ThingsOK, NEW a \in Actors, InitStep(a)
  PROVE  pc[a] # "idle" /\ \E label \in Calm : Works(a, label)
<1> DEFINE On(label) == Go(a, label) \/ Fault(a, label) \/ Return(a) \/ Abort(a)
<1> DEFINE Made == ThingsOK' /\ UNCHANGED quiet /\ \A w \in Ws \ {ws[a]} : Spares(w)
<1>1. CASE InitStat(a)
  <2>1. At(a, "i_stat") /\ On("i_mkdir") /\ Still  BY <1>1 DEF InitStat
  <2>2. "i_mkdir" \in Calm  BY DEF Calm, Labels, PastDown
  <2> QED BY <2>1, <2>2, Stays DEF At
<1>2. ASSUME NEW label \in Calm, pc[a] # "idle", On(label), Made
      PROVE  Works(a, label)
  <2>1. Onward(a, label)  BY <1>2, GoesOn DEF Stepped, Calm
  <2> QED BY <1>2, <2>1 DEF Works
<1>w. pc[a] # "idle" => ws[a] \in Ws  BY AtWork
<1>l. {"i_tree", "i_route", "i_register", "i_compose", "i_meta", "i_up", "i_list",
       "i_dash", "i_dashroute", "i_dashup", "i_agent", "i_agentup", "i_own"}
        \subseteq Calm
  BY DEF Calm, Labels, PastDown
<1>3. CASE InitMkdir(a)
  <2>1. At(a, "i_mkdir") /\ On("i_tree")  BY <1>3 DEF InitMkdir
  <2>2. Made  BY <1>3, <1>w DEF InitMkdir, At, ThingsOK, Has, Spares, Of, things, Files
  <2> QED BY <2>1, <2>2, <1>2, <1>l DEF At
<1>4. CASE InitTree(a)
  <2>1. At(a, "i_tree") /\ On("i_route")  BY <1>4 DEF InitTree
  <2>2. Made  BY <1>4, <1>w DEF InitTree, At, ThingsOK, Has, Spares, Of, things, Files
  <2> QED BY <2>1, <2>2, <1>2, <1>l DEF At
<1>5. CASE InitRoute(a)
  <2>1. At(a, "i_route") /\ On("i_register")  BY <1>5 DEF InitRoute
  <2>2. Made  BY <1>5, <1>w DEF InitRoute, At, ThingsOK, Has, Spares, Of, things, Hosts
  <2> QED BY <2>1, <2>2, <1>2, <1>l DEF At
<1>6. CASE InitRegister(a)
  <2>1. At(a, "i_register") /\ On("i_compose")  BY <1>6 DEF InitRegister
  <2>2. Made  BY <1>6, <1>w DEF InitRegister, At, ThingsOK, Has, Spares
  <2> QED BY <2>1, <2>2, <1>2, <1>l DEF At
<1>7. CASE InitCompose(a)
  <2>1. At(a, "i_compose") /\ On("i_meta")  BY <1>7 DEF InitCompose
  <2>2. Made
    BY <1>7, <1>w DEF InitCompose, At, ThingsOK, Has, Spares, Of, things, Files
  <2> QED BY <2>1, <2>2, <1>2, <1>l DEF At
<1>8. CASE InitMeta(a)
  <2>1. At(a, "i_meta") /\ On("i_up")  BY <1>8 DEF InitMeta
  <2>2. Made  BY <1>8, <1>w DEF InitMeta, At, ThingsOK, Has, Spares, Of, things, Files
  <2> QED BY <2>1, <2>2, <1>2, <1>l DEF At
<1>9. CASE InitMetaFails(a) \/ InitMetaLost(a)
  <2>1. At(a, "i_meta") /\ On("i_up") /\ Still  BY <1>9 DEF InitMetaFails, InitMetaLost
  <2> QED BY <2>1, <1>l, Stays DEF At
<1>10. CASE InitUp(a)
  <2>1. At(a, "i_up") /\ On("i_list")  BY <1>10 DEF InitUp
  <2>2. Made  BY <1>10, <1>w DEF InitUp, At, ThingsOK, Has, Spares, Of, Containers
  <2> QED BY <2>1, <2>2, <1>2, <1>l DEF At
<1>11. CASE InitDashboard(a)
  <2>1. At(a, "i_dash") /\ On("i_dashroute")  BY <1>11 DEF InitDashboard
  <2>2. Made
    BY <1>11, <1>w DEF InitDashboard, At, ThingsOK, Has, Spares, Of, things, Files
  <2> QED BY <2>1, <2>2, <1>2, <1>l DEF At
<1>12. CASE InitDashRoute(a)
  <2>1. At(a, "i_dashroute") /\ On("i_dashup")  BY <1>12 DEF InitDashRoute
  <2>2. Made
    BY <1>12, <1>w DEF InitDashRoute, At, ThingsOK, Has, Spares, Of, things, Hosts
  <2> QED BY <2>1, <2>2, <1>2, <1>l DEF At
<1>13. CASE InitDashUp(a)
  <2>1. At(a, "i_dashup") /\ On("i_agent")  BY <1>13 DEF InitDashUp
  <2>2. Made
    BY <1>13, <1>w
       DEF InitDashUp, At, ThingsOK, Has, Spares, Of, things, Containers, Sidecars
  <2> QED BY <2>1, <2>2, <1>2, <1>l DEF At
<1>14. CASE InitAgent(a)
  <2>1. At(a, "i_agent") /\ On("i_agentup")  BY <1>14 DEF InitAgent
  <2>2. Made
    BY <1>14, <1>w DEF InitAgent, At, ThingsOK, Has, Spares, Of, things, Files
  <2> QED BY <2>1, <2>2, <1>2, <1>l DEF At
<1>15. CASE InitAgentUp(a)
  <2>1. At(a, "i_agentup") /\ On("i_own")  BY <1>15 DEF InitAgentUp
  <2>2. Made
    BY <1>15, <1>w
       DEF InitAgentUp, At, ThingsOK, Has, Spares, Of, things, Containers, Sidecars, Nets
  <2> QED BY <2>1, <2>2, <1>2, <1>l DEF At
<1>16. CASE InitOwn(a)
  <2>1. At(a, "i_own") /\ On("i_own")  BY <1>16 DEF InitOwn
  <2>2. Made  BY <1>16, <1>w DEF InitOwn, At, ThingsOK, Has, Spares, Of, things, Hosts
  <2> QED BY <2>1, <2>2, <1>2, <1>l DEF At
<1>17. CASE InitFails(a) \/ InitLost(a)
  <2>1. pc[a] # "idle" /\ On("i_up") /\ Still  BY <1>17 DEF InitFails, InitLost, At
  <2> QED BY <2>1, <1>l, Stays
<1> QED BY <1>1, <1>3, <1>4, <1>5, <1>6, <1>7, <1>8, <1>9, <1>10, <1>11, <1>12, <1>13,
           <1>14, <1>15, <1>16, <1>17 DEF InitStep

LEMMA SyncWorks ==
  ASSUME CallsOK, ThingsOK, QuietOK, NEW a \in Actors,
         SyncRead(a) \/ SyncPost(a) \/ SyncFails(a)
  PROVE  pc[a] # "idle" /\ \E label \in Calm : Works(a, label)
<1>l. {"i_post", "r_post", "i_dash"} \subseteq Calm  BY DEF Calm, Labels, PastDown
<1>1. CASE SyncRead(a)
  <2>1. pc[a] \in {"i_list", "r_list"} /\ AfterList[pc[a]] \in {"i_post", "r_post"}
    BY <1>1 DEF SyncRead, AfterList
  <2> DEFINE label == AfterList[pc[a]]
  <2>2. label \in Calm  BY <2>1, <1>l
  <2>3. CallsOK'
    <3>1. ReadsOK'  BY <1>1 DEF SyncRead, CallsOK, ReadsOK, Dirs
    <3>2. pc' \in [Actors -> Labels] /\ \A b \in Actors : (At(b, "idle") <=> ws[b] = None)'
      BY <1>1, <2>1, <2>2 DEF SyncRead, CallsOK, At, Calm
    <3> QED BY <1>1, <3>1, <3>2 DEF SyncRead, CallsOK, counts
  <2>4. Onward(a, label)
    BY <1>1, <2>3 DEF SyncRead, CallsOK, ReadsOK, Onward, Only
  <2>5. Works(a, label)  BY <1>1, <2>4, StillThings DEF SyncRead, Works
  <2> QED BY <2>1, <2>2, <2>5
<1>2. CASE SyncPost(a)
  <2>1. pc[a] # "idle" /\ (Go(a, "i_dash") \/ Return(a))
    BY <1>2 DEF SyncPost, AfterPost, At
  <2>2. Onward(a, "i_dash")  BY <2>1, <1>l, GoesOn DEF Stepped, Calm
  <2>3. seen[a] \subseteq Ws  BY DEF CallsOK, ReadsOK
  <2>4. ThingsOK' /\ UNCHANGED quiet /\ \A w \in Ws : Spares(w)
    BY <1>2, <2>3 DEF SyncPost, ThingsOK, Spares, Has
  <2> QED BY <2>1, <2>2, <2>4, <1>l DEF Works
<1>3. CASE SyncFails(a)
  <2>1. pc[a] # "idle" /\ (Fault(a, "i_dash") \/ Abort(a)) /\ Still
    BY <1>3 DEF SyncFails, At
  <2> QED BY <2>1, <1>l, Stays
<1> QED BY <1>1, <1>2, <1>3

-----------------------------------------------------------------------------
(* RunWorkspaceRemove *)

\* What a call has read is its own to change.
OwnReads(a) ==
  /\ ReadsOK'
  /\ \A b \in Actors \ {a} :
       seen'[b] = seen[b] /\ cand'[b] = cand[b] /\ strays'[b] = strays[b]

LEMMA ReadsKept ==
  ASSUME CallsOK, NEW a \in Actors, UNCHANGED reads  PROVE OwnReads(a)
BY DEF CallsOK, ReadsOK, OwnReads, reads

LEMMA TakesOn ==
  ASSUME CallsOK, NEW a \in Actors, NEW label, Stepped(a, label), NEW all, NEW gone,
         Takes(a, label, all, gone), OwnReads(a)
  PROVE  Onward(a, label) /\ (clean'[a] /\ ws'[a] # None => gone = all)
<1>1. Moves(a, label) \/ Falters(a, label)  BY DEF Takes
<1>2. gone # all => ~ clean'[a]  BY DEF Takes, Falters, CallsOK
<1>3. CallsOK'  BY <1>1, MovesTyped DEF OwnReads
<1>4. Only(a)  BY <1>1 DEF CallsOK, Only, OwnReads, Moves, Falters
<1>5. /\ pc'[a] \in {label, "idle"}
      /\ clean'[a] /\ ws'[a] # None => pc'[a] = label /\ clean[a] /\ ws'[a] = ws[a]
  BY <1>1 DEF CallsOK, Moves, Falters
<1> QED BY <1>2, <1>3, <1>4, <1>5 DEF Onward

\* No thing of any workspace is made by a step of a removal.
LEMMA NothingMade ==
  ASSUME files' \subseteq files, up' \subseteq up, nets' \subseteq nets,
         hosts' \subseteq hosts, vols' \subseteq vols, images' \subseteq images
  PROVE  \A w \in Ws : Spares(w)
BY DEF Spares

LEMMA NothingMadeTyped ==
  ASSUME ThingsOK, UNCHANGED <<files, listed>>, up' \subseteq up, nets' \subseteq nets,
         hosts' \subseteq hosts, vols' \subseteq vols, images' \subseteq images
  PROVE  ThingsOK'
BY DEF ThingsOK, Has

\* What the step that ends at a label has taken away when nothing failed.
Empty(a, label) ==
  /\ label = "r_sweep" =>
       Of(ws[a], Containers) \cap up' \subseteq Of(ws[a], strays'[a] \cup {"app"})
  /\ label = "r_vols" => Of(ws[a], Containers) \cap up' \subseteq Of(ws[a], strays[a])
  /\ label = "r_nets" => ws[a] \notin vols'
  /\ label = "r_hosts" => (Of(ws[a], Nets) \cap nets' # {} => "agent" \in strays[a])
  /\ label \in {"r_siblings", "r_unroute"} => Of(ws[a], Hosts) \cap hosts' \subseteq cand'[a]
  /\ label = "r_images" => Of(ws[a], Hosts) \cap hosts' = {}
  /\ label = "r_files" => ws[a] \notin images'
  /\ label = "r_list" => Of(ws[a], Files) \cap files' = {}

Before ==
  [r_sweep |-> {"r_down"}, r_vols |-> {"r_sweep"}, r_nets |-> {"r_vols"},
   r_hosts |-> {"r_nets"}, r_siblings |-> {"r_hosts"},
   r_unroute |-> {"r_siblings", "r_unroute"}, r_images |-> {"r_unroute"},
   r_files |-> {"r_images"}, r_list |-> {"r_files"}]

LEMMA RemovalKeeps ==
  ASSUME WInv, NEW a \in Actors, NEW label \in PastDown, pc[a] \in Before[label],
         Works(a, label), Spares(ws[a]), label # "r_sweep" => strays'[a] = strays[a],
         clean'[a] /\ ws'[a] # None /\ Gone(a) => Empty(a, label),
         label = "r_unroute" => Listed(a)'
  PROVE  WInv'
<1>1. ASSUME clean'[a], ws'[a] # None  PROVE Gone(a)'
  <2>1. pc'[a] = label /\ clean[a] /\ ws'[a] = ws[a]  BY <1>1 DEF Works, Onward
  <2>2. Gone(a)  BY <1>1, <2>1 DEF WInv, Clean
  <2>3. Empty(a, label)  BY <1>1, <2>2
  <2>4. /\ label # "r_sweep" => pc[a] \in PastDown
        /\ label \in PastSweep \ {"r_vols"} => pc[a] \in PastSweep
        /\ label \in PastVols \ {"r_nets"} => pc[a] \in PastVols
        /\ label \in PastNets \ {"r_hosts"} => pc[a] \in PastNets
        /\ label \in PastHosts \ {"r_images"} => pc[a] \in PastHosts
        /\ label \in PastImages \ {"r_files"} => pc[a] \in PastImages
    BY DEF Before, PastDown, PastSweep, PastVols, PastNets, PastHosts, PastImages
  <2>5. label # "r_sweep" <=> label \in PastSweep
    BY DEF PastDown, PastSweep
  <2>6. label \in PastDown =>
          Of(ws[a], Containers) \cap up' \subseteq Of(ws[a], strays'[a] \cup {"app"})
    BY <2>2, <2>3, <2>4 DEF Gone, Empty, Spares
  <2>7. label \in PastSweep => Of(ws[a], Containers) \cap up' \subseteq Of(ws[a], strays'[a])
    BY <2>2, <2>3, <2>4, <2>5 DEF Gone, Empty, Spares
  <2>8. label \in PastVols => ws[a] \notin vols'
    BY <2>2, <2>3, <2>4 DEF Gone, Empty, Spares
  <2>9. label \in PastNets =>
          (Of(ws[a], Nets) \cap nets' # {} => "agent" \in strays'[a])
    <3>1. label \in PastNets => label # "r_sweep"
      BY DEF PastNets, PastVols, PastSweep
    <3> QED BY <2>2, <2>3, <2>4, <3>1 DEF Gone, Empty, Spares
  <2>10. label \in PastHosts => Of(ws[a], Hosts) \cap hosts' = {}
    BY <2>2, <2>3, <2>4 DEF Gone, Empty, Spares
  <2>11. label \in PastImages => ws[a] \notin images'
    BY <2>2, <2>3, <2>4 DEF Gone, Empty, Spares
  <2> QED BY <2>1, <2>3, <2>6, <2>7, <2>8, <2>9, <2>10, <2>11 DEF Gone, Empty
<1>2. pc[a] # "idle"  BY DEF Before, PastDown
<1>3. Listed(a)'  BY DEF Works, Onward, Listed
<1> QED BY <1>1, <1>2, <1>3, WorkKeeps

\* workspaceHostsToRemove takes all the hosts of the workspace itself, as no name
\* begins with itself and a hyphen, and none of a sibling whose directory was read.
LEMMA HostsChosen ==
  ASSUME NEW w \in Ws, NEW rows \in SUBSET (Ws \X Hosts), NEW there \in SUBSET Ws
  PROVE  /\ HostsToRemove(w, rows, there) \in SUBSET (Ws \X Hosts)
         /\ HostsToRemove(w, rows, there) # {}
         /\ Of(w, Hosts) \cap rows \subseteq HostsToRemove(w, rows, there)
         /\ \A h \in HostsToRemove(w, rows, there) : h[1] = w \/ h[1] \notin there
<1>1. Of(w, {"gitops", "dashboard"}) \subseteq Ws \X Hosts  BY DEF Of, Hosts
<1>2. <<w, "gitops">> \in HostsToRemove(w, rows, there)  BY DEF HostsToRemove, Of
<1>3. Of(w, Hosts) \cap rows \subseteq HostsToRemove(w, rows, there)
  BY NamesAssumption DEF Of, HostsToRemove
<1>4. \A h \in HostsToRemove(w, rows, there) : h[1] = w \/ h[1] \notin there
  BY DEF HostsToRemove, Of
<1>5. HostsToRemove(w, rows, there) \in SUBSET (Ws \X Hosts)
  BY <1>1 DEF HostsToRemove
<1> QED BY <1>2, <1>3, <1>4, <1>5

LEMMA RemoveKeeps == ASSUME WInv, NEW a \in Actors, RemoveStep(a) PROVE WInv'
<1>t. CallsOK /\ ThingsOK /\ QuietOK  BY TypeParts DEF WInv
<1>w. pc[a] # "idle" => ws[a] \in Ws  BY <1>t, AtWork
<1>l. PastDown \subseteq Labels \ {"idle"} /\ "r_down" \in Calm
  BY DEF Labels, Calm, PastDown
<1>s. \A label \in PastDown : pc[a] # "idle" => Stepped(a, label)  BY <1>l DEF Stepped
<1>r. UNCHANGED reads => OwnReads(a) /\ strays'[a] = strays[a]
  BY <1>t, ReadsKept DEF reads
<1>1. CASE DownApps(a)
  <2>1. PICK all, gone : /\ gone \subseteq all /\ up' = up \ gone
                         /\ Takes(a, "r_down", all, gone)
    BY <1>1 DEF DownApps
  <2>2. Onward(a, "r_down")
    BY <1>1, <1>t, <1>l, <1>r, <2>1, TakesOn DEF Stepped, Calm, DownApps, At
  <2>3. ThingsOK' /\ \A w \in Ws : Spares(w)
    BY <1>1, <1>t, <2>1, NothingMade, NothingMadeTyped DEF DownApps, things
  <2> QED BY <1>1, <1>l, <2>2, <2>3, CalmKeeps DEF Works, DownApps, At
<1>2. CASE DownProjects(a)
  <2> DEFINE all == Of(ws[a], Projects(ws[a])) \cap up
  <2>1. PICK gone \in SUBSET all : up' = up \ gone /\ Takes(a, "r_sweep", all, gone)
    BY <1>2 DEF DownProjects
  <2>0. /\ strays' = [strays EXCEPT ![a] =
                        {k \in Sidecars \ Projects(ws[a]) : Runs(ws[a], k)}]
        /\ UNCHANGED <<seen, cand>>
    BY <1>2 DEF DownProjects
  <2>r. OwnReads(a)  BY <1>t, <2>0 DEF OwnReads, CallsOK, ReadsOK
  <2>2. Onward(a, "r_sweep") /\ (clean'[a] /\ ws'[a] # None => gone = all)
    BY <1>2, <1>t, <1>s, <2>1, <2>r, TakesOn DEF DownProjects, At, PastDown
  <2>3. ThingsOK' /\ ws[a] \in Ws /\ \A w \in Ws : Spares(w)
    BY <1>2, <1>t, <1>w, <2>1, NothingMade, NothingMadeTyped DEF DownProjects, things, At
  <2>4. clean'[a] /\ ws'[a] # None => Empty(a, "r_sweep")
    <3> SUFFICES ASSUME gone = all, NEW k \in Containers, <<ws[a], k>> \in up'
                 PROVE  k \in strays'[a] \cup {"app"}
      BY <2>2 DEF Empty, Of
    <3>1. k \notin Projects(ws[a]) /\ Runs(ws[a], k)  BY <2>1 DEF Of, Runs
    <3>2. Site \subseteq Projects(ws[a])  BY DEF Projects
    <3>3. strays'[a] = {x \in Sidecars \ Projects(ws[a]) : Runs(ws[a], x)}
      BY <1>t, <2>0 DEF CallsOK, ReadsOK
    <3> QED BY <3>1, <3>2, <3>3 DEF Containers
  <2>5. Works(a, "r_sweep")  BY <1>2, <2>2, <2>3 DEF Works, DownProjects
  <2> QED BY <1>2, <2>3, <2>4, <2>5, RemovalKeeps DEF DownProjects, At, Before, PastDown
<1>3. CASE SweepContainers(a)
  <2> DEFINE all == Of(ws[a], Labelled) \cap up
  <2>1. PICK gone \in SUBSET all : up' = up \ gone /\ Takes(a, "r_vols", all, gone)
    BY <1>3 DEF SweepContainers
  <2>0. UNCHANGED reads  BY <1>3 DEF SweepContainers
  <2>2. Onward(a, "r_vols") /\ (clean'[a] /\ ws'[a] # None => gone = all)
    BY <1>3, <1>t, <1>s, <1>r, <2>0, <2>1, TakesOn DEF SweepContainers, At, PastDown
  <2>3. ThingsOK' /\ ws[a] \in Ws /\ \A w \in Ws : Spares(w)
    BY <1>3, <1>t, <1>w, <2>1, NothingMade, NothingMadeTyped DEF SweepContainers, things, At
  <2>4. clean'[a] /\ ws'[a] # None /\ Gone(a) => Empty(a, "r_vols")
    <3> SUFFICES ASSUME gone = all, Gone(a), NEW k \in Containers, <<ws[a], k>> \in up'
                 PROVE  k \in strays[a]
      BY <2>2 DEF Empty, Of
    <3>1. k \in strays[a] \cup {"app"}
      BY <1>3, <2>1 DEF Gone, PastDown, SweepContainers, At, Of
    <3>2. k # "app"  BY <2>1 DEF Of, Labelled
    <3> QED BY <3>1, <3>2
  <2>5. Works(a, "r_vols")  BY <1>3, <2>2, <2>3 DEF Works, SweepContainers
  <2> QED BY <1>3, <1>r, <2>0, <2>3, <2>4, <2>5, RemovalKeeps
          DEF SweepContainers, At, Before, PastDown
<1>4. CASE RemoveVolumes(a)
  <2> DEFINE all == IF Of(ws[a], Labelled) \cap up = {} THEN {ws[a]} \cap vols ELSE {}
  <2>1. PICK gone \in SUBSET all : vols' = vols \ gone /\ Takes(a, "r_nets", all, gone)
    BY <1>4 DEF RemoveVolumes
  <2>0. UNCHANGED reads  BY <1>4 DEF RemoveVolumes
  <2>2. Onward(a, "r_nets") /\ (clean'[a] /\ ws'[a] # None => gone = all)
    BY <1>4, <1>t, <1>s, <1>r, <2>0, <2>1, TakesOn DEF RemoveVolumes, At, PastDown
  <2>3. ThingsOK' /\ ws[a] \in Ws /\ \A w \in Ws : Spares(w)
    BY <1>4, <1>t, <1>w, <2>1, NothingMade, NothingMadeTyped DEF RemoveVolumes, At
  <2>4. clean'[a] /\ ws'[a] # None /\ Gone(a) => Empty(a, "r_nets")
    <3> SUFFICES ASSUME Gone(a)  PROVE Of(ws[a], Labelled) \cap up = {}
      BY <2>1, <2>2 DEF Empty
    <3>1. Of(ws[a], Containers) \cap up \subseteq Of(ws[a], strays[a])
      BY <1>4 DEF Gone, PastDown, PastSweep, RemoveVolumes, At
    <3>2. strays[a] \subseteq Sidecars  BY <1>t DEF CallsOK, ReadsOK
    <3> QED BY <3>1, <3>2 DEF Of, Labelled, Containers, Sidecars, Site
  <2>5. Works(a, "r_nets")  BY <1>4, <2>2, <2>3 DEF Works, RemoveVolumes
  <2> QED BY <1>4, <1>r, <2>0, <2>3, <2>4, <2>5, RemovalKeeps
          DEF RemoveVolumes, At, Before, PastDown
<1>5. CASE RemoveNetworks(a)
  <2> DEFINE all == {n \in Of(ws[a], Nets) \cap nets :
                       Of(ws[a], NetUsers[n[2]]) \cap up = {}}
  <2>1. PICK gone \in SUBSET all : nets' = nets \ gone /\ Takes(a, "r_hosts", all, gone)
    BY <1>5 DEF RemoveNetworks
  <2>0. UNCHANGED reads  BY <1>5 DEF RemoveNetworks
  <2>2. Onward(a, "r_hosts") /\ (clean'[a] /\ ws'[a] # None => gone = all)
    BY <1>5, <1>t, <1>s, <1>r, <2>0, <2>1, TakesOn DEF RemoveNetworks, At, PastDown
  <2>3. ThingsOK' /\ ws[a] \in Ws /\ \A w \in Ws : Spares(w)
    BY <1>5, <1>t, <1>w, <2>1, NothingMade, NothingMadeTyped DEF RemoveNetworks, things, At
  <2>4. Gone(a) /\ "agent" \notin strays[a] => all = Of(ws[a], Nets) \cap nets
    <3> SUFFICES ASSUME Gone(a), "agent" \notin strays[a],
                        NEW n \in Of(ws[a], Nets) \cap nets
                 PROVE  Of(ws[a], NetUsers[n[2]]) \cap up = {}
      OBVIOUS
    <3>1. NetUsers[n[2]] \subseteq {"site", "agent", "app"}  BY DEF Of, Nets, NetUsers
    <3>2. Of(ws[a], Containers) \cap up \subseteq Of(ws[a], strays[a])
      BY <1>5 DEF Gone, PastDown, PastSweep, PastVols, RemoveNetworks, At
    <3>3. strays[a] \subseteq {"dashboard"}
      BY <1>t DEF CallsOK, ReadsOK, Sidecars
    <3>4. NetUsers[n[2]] \subseteq Containers
      BY <3>1 DEF Containers, Site, Sidecars
    <3> QED BY <3>1, <3>2, <3>3, <3>4 DEF Of
  <2>5. clean'[a] /\ ws'[a] # None /\ Gone(a) => Empty(a, "r_hosts")
    BY <2>1, <2>2, <2>4 DEF Empty
  <2>6. Works(a, "r_hosts")  BY <1>5, <2>2, <2>3 DEF Works, RemoveNetworks
  <2> QED BY <1>5, <1>r, <2>0, <2>3, <2>5, <2>6, RemovalKeeps
          DEF RemoveNetworks, At, Before, PastDown
<1>6. CASE ListHosts(a)
  <2>1. PICK rows \in {hosts, {}} : /\ cand' = [cand EXCEPT ![a] = rows]
                                    /\ Takes(a, "r_siblings", hosts, rows)
    BY <1>6 DEF ListHosts
  <2>0. UNCHANGED <<seen, strays>> /\ rows \in SUBSET (Ws \X Hosts) /\ cand'[a] = rows
    BY <1>6, <1>t, <2>1 DEF ListHosts, ThingsOK, CallsOK, ReadsOK
  <2>r. OwnReads(a)  BY <1>t, <2>0, <2>1 DEF OwnReads, CallsOK, ReadsOK
  <2>2. Onward(a, "r_siblings") /\ (clean'[a] /\ ws'[a] # None => rows = hosts)
    BY <1>6, <1>t, <1>s, <2>1, <2>r, TakesOn DEF ListHosts, At, PastDown
  <2>3. ThingsOK' /\ ws[a] \in Ws /\ \A w \in Ws : Spares(w)
    BY <1>6, <1>t, <1>w, NothingMade, NothingMadeTyped DEF ListHosts, things, At
  <2>4. clean'[a] /\ ws'[a] # None => Empty(a, "r_siblings")
    BY <1>6, <2>0, <2>2 DEF Empty, ListHosts
  <2>5. Works(a, "r_siblings")  BY <1>6, <2>2, <2>3 DEF Works, ListHosts
  <2> QED BY <1>6, <2>0, <2>3, <2>4, <2>5, RemovalKeeps DEF ListHosts, At, Before, PastDown
<1>7. CASE ReadSiblings(a)
  <2>1. PICK there \in {Dirs, {}} :
          /\ seen' = [seen EXCEPT ![a] = there]
          /\ cand' = [cand EXCEPT ![a] = HostsToRemove(ws[a], cand[a], there)]
          /\ Takes(a, "r_unroute", Dirs, there)
    BY <1>7, <1>t DEF ReadSiblings, CallsOK, ReadsOK
  <2>w. ws[a] \in Ws /\ there \in SUBSET Ws /\ cand[a] \in SUBSET (Ws \X Hosts)
    BY <1>7, <1>t, <1>w DEF ReadSiblings, At, Dirs, CallsOK, ReadsOK
  <2>0. /\ UNCHANGED strays /\ seen'[a] = there
        /\ cand'[a] = HostsToRemove(ws[a], cand[a], there)
    BY <1>7, <1>t, <2>1 DEF ReadSiblings, CallsOK, ReadsOK
  <2>h. /\ cand'[a] \in SUBSET (Ws \X Hosts) /\ cand'[a] # {}
        /\ Of(ws[a], Hosts) \cap cand[a] \subseteq cand'[a]
        /\ \A h \in cand'[a] : h[1] = ws[a] \/ h[1] \notin there
    BY <2>w, <2>0, HostsChosen
  <2>r. OwnReads(a)  BY <1>t, <2>w, <2>h, <2>0, <2>1 DEF OwnReads, CallsOK, ReadsOK
  <2>2. Onward(a, "r_unroute") /\ ws'[a] = ws[a]
    BY <1>7, <1>t, <1>s, <2>1, <2>r, TakesOn
       DEF ReadSiblings, At, PastDown, Takes, Moves, Falters
  <2>3. ThingsOK' /\ \A w \in Ws : Spares(w)
    BY <1>7, <1>t, NothingMade, NothingMadeTyped DEF ReadSiblings, things
  <2>4. Gone(a) => Empty(a, "r_unroute")
    BY <1>7, <2>h DEF Empty, Gone, ReadSiblings, At
  <2>5. Works(a, "r_unroute")  BY <1>7, <2>2, <2>3 DEF Works, ReadSiblings
  <2>6. Listed(a)'  BY <2>h, <2>0, <2>2 DEF Listed
  <2> QED BY <1>7, <2>w, <2>0, <2>3, <2>4, <2>5, <2>6, RemovalKeeps
          DEF ReadSiblings, At, Before, PastDown
<1>8. CASE RemoveHost(a)
  <2> DEFINE h == CHOOSE h \in cand[a] : TRUE
             next == IF cand[a] = {h} THEN "r_images" ELSE "r_unroute"
  <2>1. PICK gone \in SUBSET {h} : /\ hosts' = hosts \ gone
                                   /\ cand' = [cand EXCEPT ![a] = cand[a] \ {h}]
                                   /\ Takes(a, next, {h}, gone)
    BY <1>8, <1>t DEF RemoveHost, CallsOK, ReadsOK
  <2>0. /\ UNCHANGED <<seen, strays>> /\ cand[a] \in SUBSET (Ws \X Hosts)
        /\ cand'[a] = cand[a] \ {h}
    BY <1>8, <1>t, <2>1 DEF RemoveHost, CallsOK, ReadsOK
  <2>i. Listed(a) /\ cand[a] # {}  BY <1>8 DEF WInv, Listed, RemoveHost, At
  <2>h. h \in cand[a]  BY <2>i
  <2>n. next \in PastDown \ {"r_sweep"}  BY DEF PastDown
  <2> HIDE DEF h
  <2>r. OwnReads(a)  BY <1>t, <2>0, <2>1 DEF OwnReads, CallsOK, ReadsOK
  <2>2. /\ Onward(a, next) /\ (clean'[a] /\ ws'[a] # None => gone = {h})
        /\ ws'[a] = ws[a]
    <3>1. Stepped(a, next)  BY <1>8, <1>s, <2>n DEF RemoveHost, At
    <3>2. ws'[a] = ws[a]  BY <2>1 DEF Takes, Moves, Falters
    <3> HIDE DEF next
    <3> QED BY <1>t, <2>1, <2>r, <3>1, <3>2, TakesOn
  <2>3. ThingsOK' /\ ws[a] \in Ws /\ \A w \in Ws : Spares(w)
    BY <1>8, <1>t, <1>w, <2>1, NothingMade, NothingMadeTyped DEF RemoveHost, things, At
  <2>4. clean'[a] /\ ws'[a] # None /\ Gone(a) => Empty(a, next)
    <3> SUFFICES ASSUME gone = {h}, Gone(a)  PROVE Empty(a, next)
      BY <2>2
    <3>1. Of(ws[a], Hosts) \cap hosts' \subseteq cand[a] \ {h}
      BY <1>8, <2>1 DEF Gone, RemoveHost, At
    <3> QED BY <3>1, <2>0 DEF Empty
  <2>5. Works(a, next)  BY <1>8, <2>2, <2>3 DEF Works, RemoveHost
  <2>6. next = "r_unroute" => Listed(a)'
    <3> SUFFICES ASSUME next = "r_unroute"
                 PROVE  /\ cand'[a] # {}
                        /\ \A x \in cand'[a] : x[1] = ws'[a] \/ x[1] \notin seen'[a]
      BY DEF Listed
    <3>1. cand[a] # {h}  OBVIOUS
    <3>2. \A x \in cand[a] : x[1] = ws[a] \/ x[1] \notin seen[a]
      BY <1>8, <2>i DEF Listed, RemoveHost, At
    <3> QED BY <2>h, <2>0, <2>2, <3>1, <3>2
  <2>7. pc[a] \in Before[next]  BY <1>8 DEF RemoveHost, At, Before
  <2> HIDE DEF next
  <2> QED BY <2>0, <2>3, <2>4, <2>5, <2>6, <2>7, <2>n, RemovalKeeps
<1>9. CASE RemoveImages(a)
  <2> DEFINE all == {x \in images : /\ x = ws[a] \/ <<x, ws[a]>> \in Prefixed
                                    /\ ~ Runs(x, "app")}
  <2>1. PICK gone \in SUBSET all : images' = images \ gone /\ Takes(a, "r_files", all, gone)
    BY <1>9 DEF RemoveImages
  <2>0. UNCHANGED reads  BY <1>9 DEF RemoveImages
  <2>2. Onward(a, "r_files") /\ (clean'[a] /\ ws'[a] # None => gone = all)
    BY <1>9, <1>t, <1>s, <1>r, <2>0, <2>1, TakesOn DEF RemoveImages, At, PastDown
  <2>3. ThingsOK' /\ ws[a] \in Ws /\ \A w \in Ws : Spares(w)
    BY <1>9, <1>t, <1>w, <2>1, NothingMade, NothingMadeTyped DEF RemoveImages, At
  <2>4. Gone(a) => ~ Runs(ws[a], "app")
    <3> SUFFICES ASSUME Gone(a), Runs(ws[a], "app")  PROVE FALSE
      OBVIOUS
    <3>1. <<ws[a], "app">> \in Of(ws[a], strays[a])
      BY <1>9 DEF Gone, PastDown, PastSweep, RemoveImages, At, Runs, Of, Containers
    <3> QED BY <1>t, <3>1 DEF CallsOK, ReadsOK, Of, Sidecars
  <2>5. clean'[a] /\ ws'[a] # None /\ Gone(a) => Empty(a, "r_files")
    BY <2>1, <2>2, <2>4 DEF Empty
  <2>6. Works(a, "r_files")  BY <1>9, <2>2, <2>3 DEF Works, RemoveImages
  <2> QED BY <1>9, <1>r, <2>0, <2>3, <2>5, <2>6, RemovalKeeps
          DEF RemoveImages, At, Before, PastDown
<1>10. CASE RemoveFiles(a)
  <2> DEFINE all == Of(ws[a], Files) \cap files
  <2>1. PICK gone \in {all, {}} : files' = files \ gone /\ Takes(a, "r_list", all, gone)
    BY <1>10 DEF RemoveFiles
  <2>0. UNCHANGED reads  BY <1>10 DEF RemoveFiles
  <2>2. Onward(a, "r_list") /\ (clean'[a] /\ ws'[a] # None => gone = all)
    BY <1>10, <1>t, <1>s, <1>r, <2>0, <2>1, TakesOn DEF RemoveFiles, At, PastDown
  <2>3. ws[a] \in Ws /\ \A w \in Ws : Spares(w)
    BY <1>10, <1>w, <2>1, NothingMade DEF RemoveFiles, things, At
  <2>4. ThingsOK'
    BY <1>10, <1>t, <2>1 DEF ThingsOK, RemoveFiles, things, Has, Of
  <2>5. clean'[a] /\ ws'[a] # None => Empty(a, "r_list")
    BY <2>1, <2>2 DEF Empty
  <2>6. Works(a, "r_list")  BY <1>10, <2>2, <2>3, <2>4 DEF Works, RemoveFiles
  <2> QED BY <1>10, <1>r, <2>0, <2>3, <2>5, <2>6, RemovalKeeps
          DEF RemoveFiles, At, Before, PastDown
<1> QED BY <1>1, <1>2, <1>3, <1>4, <1>5, <1>6, <1>7, <1>8, <1>9, <1>10 DEF RemoveStep

-----------------------------------------------------------------------------
(* Restore, start and stop *)

LEMMA OtherWorks ==
  ASSUME CallsOK, ThingsOK, NEW a \in Actors, OtherStep(a)
  PROVE  pc[a] # "idle" /\ \E label \in Calm : Works(a, label)
<1> DEFINE On(label) == Go(a, label) \/ Fault(a, label) \/ Return(a) \/ Abort(a)
<1> DEFINE Made == ThingsOK' /\ UNCHANGED quiet /\ \A w \in Ws \ {ws[a]} : Spares(w)
<1>w. pc[a] # "idle" => ws[a] \in Ws  BY AtWork
<1>l. {"u_dash", "u_mark", "t_site", "t_apps", "s_site", "x_site"} \subseteq Calm
  BY DEF Calm, Labels, PastDown
<1>o. ASSUME NEW label \in Calm, pc[a] # "idle", On(label), Made
      PROVE  Works(a, label)
  <2>1. Onward(a, label)  BY <1>o, GoesOn DEF Stepped, Calm
  <2> QED BY <1>o, <2>1 DEF Works
<1>1. CASE SiteUp(a)
  <2>1. pc[a] # "idle" /\ (On("u_dash") \/ On("t_apps"))  BY <1>1 DEF SiteUp
  <2>2. Made
    BY <1>1, <1>w DEF SiteUp, ThingsOK, Has, Spares, Of, things, Containers, Site
  <2> QED BY <2>1, <2>2, <1>o, <1>l
<1>2. CASE SiteUpFails(a) \/ RestoreDashboardFails(a) \/ StopAppsFails(a)
  <2>1. pc[a] # "idle" /\ Still
    BY <1>2 DEF SiteUpFails, RestoreDashboardFails, StopAppsFails, AfterApps, At
  <2>2. On("u_mark") \/ On("s_site") \/ On("x_site")
    BY <1>2 DEF SiteUpFails, RestoreDashboardFails, StopAppsFails, AfterApps
  <2> QED BY <2>1, <2>2, <1>l, Stays
<1>3. CASE RestoreDashboard(a)
  <2>1. At(a, "u_dash") /\ On("u_mark")  BY <1>3 DEF RestoreDashboard
  <2>2. Made
    BY <1>3, <1>w
       DEF RestoreDashboard, At, ThingsOK, Has, Spares, Of, things, Containers, Sidecars
  <2> QED BY <2>1, <2>2, <1>o, <1>l DEF At
<1>4. CASE Unmark(a)
  <2>1. At(a, "u_mark") /\ On("u_mark")  BY <1>4 DEF Unmark
  <2>2. Made  BY <1>4, <1>w DEF Unmark, At, ThingsOK, Has, Spares, things
  <2> QED BY <2>1, <2>2, <1>o, <1>l DEF At
<1>5. CASE StartApps(a)
  <2>1. At(a, "t_apps") /\ On("t_apps")  BY <1>5 DEF StartApps
  <2>2. Made  BY <1>5, <1>w DEF StartApps, At, ThingsOK, Has, Spares, Of, things, Containers
  <2> QED BY <2>1, <2>2, <1>o, <1>l DEF At
<1>6. CASE StopApps(a)
  <2>1. pc[a] # "idle" /\ (On("s_site") \/ On("x_site"))
    BY <1>6 DEF StopApps, AfterApps
  <2>2. Made  BY <1>6 DEF StopApps, ThingsOK, Has, Spares, things
  <2> QED BY <2>1, <2>2, <1>o, <1>l
<1>7. CASE StopSite(a)
  <2>1. pc[a] # "idle" /\ On("t_site")  BY <1>7 DEF StopSite
  <2>2. Made  BY <1>7 DEF StopSite, ThingsOK, Has, Spares, things
  <2> QED BY <2>1, <2>2, <1>o, <1>l
<1> QED BY <1>1, <1>2, <1>3, <1>4, <1>5, <1>6, <1>7 DEF OtherStep

-----------------------------------------------------------------------------
(* Calls that begin, and what happens behind their backs *)

\* Whatever call the workspace w has, it is no longer clean; others keep theirs.
LEMMA Intrudes ==
  ASSUME WInv, TypeOK', NEW w \in Ws,
         \A b \in Actors : pc'[b] = pc[b] /\ ws'[b] = ws[b], UNCHANGED reads,
         \A b \in Actors : clean'[b] => clean[b] /\ ws[b] # w,
         \A x \in Ws \ {w} : Spares(x) /\ stopping'[x] = stopping[x]
  PROVE  WInv'
<1> SUFFICES ASSUME NEW b \in Actors  PROVE Clean(b)' /\ Listed(b)'
  BY DEF WInv
<1>1. ASSUME clean'[b], ws[b] # None
      PROVE  Spares(ws[b]) /\ stopping'[ws[b]] = None
  <2>1. ws[b] \in Ws \ {w}  BY <1>1 DEF WInv, TypeOK
  <2>2. Alone(b)  BY <1>1 DEF WInv, Clean
  <2> QED BY <2>1, <2>2 DEF Alone
<1> QED BY <1>1, OthersClean DEF reads

LEMMA BeginKeeps ==
  ASSUME WInv, NEW a \in Actors, NEW w \in Ws, NEW label \in Calm, Begin(a, w, label),
         ThingsOK', UNCHANGED quiet, \A x \in Ws \ {w} : Spares(x)
  PROVE  WInv'
<1>t. CallsOK /\ QuietOK  BY TypeParts DEF WInv
<1>1. CallsOK'
  BY <1>t, BeginTyped DEF Calm
<1>2. TypeOK'
  <2>1. QuietOK'  BY <1>t DEF QuietOK, quiet
  <2> QED BY <1>1, <2>1 DEF TypeOK, CallsOK, ReadsOK, ThingsOK, QuietOK
<1>r. UNCHANGED reads  BY DEF Begin
<1>3. ASSUME NEW b \in Actors \ {a}  PROVE Clean(b)' /\ Listed(b)'
  <2>1. pc'[b] = pc[b] /\ ws'[b] = ws[b] /\ (clean'[b] => clean[b] /\ ws[b] # w)
    BY <1>t DEF Begin, CallsOK, Disturbed
  <2>2. ASSUME clean'[b], ws[b] # None
        PROVE  /\ \A c \in Actors \ {b} : ws'[c] = ws[c] \/ ws'[c] # ws[b]
               /\ stopping'[ws[b]] = None
               /\ Spares(ws[b])
    <3>1. Alone(b) /\ ws[b] \in Ws \ {w}  BY <1>t, <2>1, <2>2 DEF WInv, Clean, CallsOK
    <3>2. \A c \in Actors : ws'[c] = ws[c] \/ ws'[c] = w  BY <1>t DEF Begin, CallsOK
    <3> QED BY <3>1, <3>2 DEF Alone, quiet
  <2> QED BY <1>r, <2>1, <2>2, OthersClean DEF reads
<1>4. Listed(a)'  BY <1>t DEF Listed, Begin, CallsOK, Calm, PastDown
<1>5. Clean(a)'
  <2> SUFFICES ASSUME clean'[a]  PROVE Alone(a)' /\ Gone(a)'
    BY DEF Clean
  <2>1. pc'[a] = label /\ ws'[a] = w /\ \A b \in Actors \ {a} : ws'[b] = ws[b]
    BY <1>t DEF Begin, CallsOK
  <2>2. stopping[w] = None /\ \A b \in Actors : ws[b] # w
    <3>1. Disturbed(w, a) \in [Actors -> BOOLEAN]  BY <1>t DEF Disturbed, CallsOK
    <3> QED BY <3>1 DEF Begin
  <2>3. Gone(a)'
    BY <2>1 DEF Gone, Calm, PastDown, PastSweep, PastVols, PastNets, PastHosts, PastImages
  <2> QED BY <2>1, <2>2, <2>3 DEF Alone, quiet
<1> QED BY <1>2, <1>3, <1>4, <1>5 DEF WInv

LEMMA RequestKeeps ==
  ASSUME WInv, NEW a \in Actors, NEW w \in Ws, Request(a, w)
  PROVE  WInv'
<1>t. CallsOK /\ ThingsOK /\ QuietOK  BY TypeParts DEF WInv
<1>l. {"i_stat", "r_apps", "u_site", "t_site", "s_apps", "x_apps"} \subseteq Calm
  BY DEF Calm, Labels, PastDown
<1>1. CASE BeginInit(a, w)
  <2>1. ThingsOK' /\ UNCHANGED quiet /\ \A x \in Ws \ {w} : Spares(x)
    BY <1>1, <1>t DEF BeginInit, ThingsOK, Has, Spares, Of, things, Nets
  <2> QED BY <1>1, <1>l, <2>1, BeginKeeps DEF BeginInit
<1>2. CASE BeginRemove(a, w) \/ BeginRestore(a, w) \/ BeginStart(a, w) \/ BeginStop(a, w)
  <2>1. Still
    BY <1>2 DEF BeginRemove, BeginRestore, BeginStart, BeginStop, Still
  <2>2. \E label \in Calm : Begin(a, w, label)
    BY <1>2, <1>l DEF BeginRemove, BeginRestore, BeginStart, BeginStop
  <2>3. ThingsOK' /\ UNCHANGED quiet /\ \A x \in Ws : Spares(x)
    BY <1>t, <2>1, StillThings
  <2> QED BY <2>2, <2>3, BeginKeeps
<1>3. CASE Trash(a, w)
  <2>1. TypeOK'
    BY <1>3, <1>t, BoundsAssumption
       DEF WInv, TypeOK, Trash, Disturbed, things, reads, At, Has, Files
  <2>2. \A x \in Ws \ {w} : Spares(x) /\ stopping'[x] = stopping[x]
    BY <1>3, <1>t DEF Trash, things, Spares, Of, QuietOK
  <2>3. \A b \in Actors : clean'[b] => clean[b] /\ ws[b] # w
    BY <1>3, <1>t, NoneAssumption DEF Trash, Disturbed, CallsOK, At
  <2> QED BY <1>3, <2>1, <2>2, <2>3, Intrudes DEF Trash
<1> QED BY <1>1, <1>2, <1>3 DEF Request

LEMMA StopNextKeeps == ASSUME WInv, NEW w \in Ws, StopNext(w) PROVE WInv'
<1>t. CallsOK /\ ThingsOK /\ QuietOK  BY TypeParts DEF WInv
<1>1. TypeOK'
  BY <1>t DEF WInv, TypeOK, StopNext, things, reads, counts, At, Has
<1>2. \A x \in Ws \ {w} : Spares(x) /\ stopping'[x] = stopping[x]
  BY <1>t DEF StopNext, things, Spares, Of, QuietOK
<1> QED BY <1>1, <1>2, Intrudes DEF StopNext

LEMMA DeployKeeps == ASSUME WInv, NEW w \in Ws, Deploy(w) PROVE WInv'
<1>t. CallsOK /\ ThingsOK /\ QuietOK  BY TypeParts DEF WInv
<1>1. TypeOK'
  <2>1. ThingsOK'
    BY <1>t DEF Deploy, ThingsOK, Has, Files, Containers, Nets, Hosts
  <2>2. CallsOK' /\ QuietOK'
    BY <1>t DEF Deploy, CallsOK, ReadsOK, QuietOK, quiet, reads, counts, At
  <2> QED BY <2>1, <2>2 DEF TypeOK, CallsOK, ReadsOK, ThingsOK, QuietOK
<1>2. \A x \in Ws \ {w} : Spares(x) /\ stopping'[x] = stopping[x]
  BY <1>t DEF Deploy, quiet, Spares, Of
<1> QED BY <1>1, <1>2, Intrudes DEF Deploy

LEMMA HealKeeps == ASSUME WInv, HealStart \/ HealFails PROVE WInv'
<1>t. CallsOK /\ ThingsOK /\ QuietOK  BY TypeParts DEF WInv
<1>1. TypeOK'
  <2>1. ThingsOK'
    BY <1>t DEF HealStart, HealFails, ThingsOK, QuietOK, Has, things, Containers, Nets,
                Sidecars
  <2>2. UNCHANGED <<pc, ws, reads, ops>> /\ clean' = Healed /\ faults' \in 0 .. MaxFaults
    BY <1>t, BoundsAssumption DEF HealStart, HealFails, CallsOK, counts
  <2>3. Healed \in [Actors -> BOOLEAN]  BY <1>t DEF Healed, CallsOK
  <2>4. CallsOK'  BY <1>t, <2>2, <2>3 DEF CallsOK, ReadsOK, reads, At
  <2>5. QuietOK'  BY <1>t DEF HealStart, HealFails, QuietOK
  <2> QED BY <2>1, <2>4, <2>5 DEF TypeOK, CallsOK, ReadsOK, ThingsOK, QuietOK
<1> SUFFICES ASSUME NEW b \in Actors  PROVE Clean(b)' /\ Listed(b)'
  BY <1>1 DEF WInv
<1>2. pc'[b] = pc[b] /\ ws' = ws /\ stopping' = stopping /\ UNCHANGED reads
  BY DEF HealStart, HealFails
<1>3. clean'[b] => clean[b] /\ \A p \in heal : ws[b] # p[1]
  BY DEF HealStart, HealFails, Healed
<1>4. ASSUME clean'[b], ws[b] # None  PROVE Spares(ws[b]) /\ stopping[ws[b]] = None
  <2>1. Spares(ws[b])
    BY <1>3, <1>4 DEF HealStart, HealFails, Spares, Of, things
  <2> QED BY <1>3, <1>4, <2>1 DEF WInv, Clean, Alone
<1> QED BY <1>2, <1>3, <1>4, OthersClean DEF reads

LEMMA HealCheckKeeps ==
  ASSUME WInv, NEW w \in Ws, NEW k \in Sidecars, HealCheck(w, k)  PROVE WInv'
<1>1. TypeOK'  BY DEF WInv, TypeOK, HealCheck, things, reads, counts, At, Has
<1> QED BY <1>1 DEF WInv, HealCheck, Clean, Alone, Gone, Listed, things, reads

LEMMA RestartKeeps == ASSUME WInv, Restart PROVE WInv'
<1>1. TypeOK'
  BY BoundsAssumption DEF WInv, TypeOK, Restart, things, At, Has, Labels
<1>2. \A a \in Actors : ws'[a] = None /\ pc'[a] = "idle"  BY DEF Restart
<1> QED BY <1>1, <1>2 DEF WInv, Clean, Listed

-----------------------------------------------------------------------------
(* The workspaces *)

LEMMA WInit == Init => WInv
<1> SUFFICES ASSUME Init  PROVE WInv
  OBVIOUS
<1>1. ThingsOK
  <2>1. PICK born \in SUBSET Ws, left \in SUBSET Ws :
          /\ files = born \X (Files \ {"trashed"})
          /\ up = (born \X Containers) \cup (left \X Sidecars)
          /\ nets = (born \X Nets) \cup (left \X {"agent"})
          /\ hosts = (born \cup left) \X Hosts
          /\ vols = born /\ images = born /\ listed = born
    BY DEF Init
  <2>2. "dir" \in Files \ {"trashed"}  BY DEF Files
  <2>3. \A f \in files : Has(f[1], "dir")  BY <2>1, <2>2 DEF Has
  <2> QED BY <2>1, <2>3 DEF ThingsOK, Containers, Nets
<1>2. CallsOK /\ QuietOK
  BY BoundsAssumption DEF Init, CallsOK, ReadsOK, QuietOK, At, Labels
<1>3. \A a \in Actors : ws[a] = None /\ pc[a] = "idle"  BY DEF Init
<1> QED BY <1>1, <1>2, <1>3, TypeParts DEF WInv, Clean, Listed

LEMMA WNext == WInv /\ [Next]_vars => WInv'
<1> SUFFICES ASSUME WInv, [Next]_vars  PROVE WInv'
  OBVIOUS
<1>t. CallsOK /\ ThingsOK /\ QuietOK  BY TypeParts DEF WInv
<1>1. ASSUME NEW a \in Actors, Call(a)  PROVE WInv'
  <2>1. CASE RemoveStep(a)  BY <2>1, RemoveKeeps
  <2>2. CASE ~ RemoveStep(a)
    <3>1. pc[a] # "idle" /\ \E label \in Calm : Works(a, label)
      BY <1>1, <1>t, <2>2, InitWorks, OtherWorks, SyncWorks DEF Call
    <3> QED BY <3>1, CalmKeeps
  <2> QED BY <2>1, <2>2
<1>2. CASE UNCHANGED vars
  <2>1. TypeOK'  BY <1>2 DEF WInv, TypeOK, vars, At, Has
  <2> QED BY <1>2, <2>1 DEF WInv, Clean, Alone, Gone, Listed, vars
<1>3. CASE Next
  BY <1>1, <1>3, RequestKeeps, StopNextKeeps, DeployKeeps, HealCheckKeeps, HealKeeps,
     RestartKeeps DEF Next
<1> QED BY <1>2, <1>3

\* The invariant of the workspaces: a call that is clean has its workspace to
\* itself, and what its removal has taken away is gone; the hosts that a removal is
\* about to delete are its own or of no workspace whose directory it has seen.
THEOREM WorkspacesInductive == Spec => []WInv
BY WInit, WNext, PTL DEF Spec

\* Every variable keeps its shape, a call at work has a workspace, and no file of a
\* workspace outlives its directory.
THEOREM WorkspacesTyped == Spec => []TypeOK
<1>1. WInv => TypeOK  BY DEF WInv
<1> QED BY <1>1, WorkspacesInductive, PTL

\* RunWorkspaceRemove, of whose commands none failed and which nobody disturbed,
\* leaves nothing of its workspace, whatever other calls do at others meanwhile and
\* whatever creations and removals that stopped half-way had left, but the sidecars
\* that no compose file on the disk names, and then the agent's network.
THEOREM RemovalIsWhole == Spec => []RemoveLeavesNothing
<1>1. ASSUME WInv  PROVE RemoveLeavesNothing
  <2> SUFFICES ASSUME NEW a \in Actors, At(a, "r_list"), clean[a]
               PROVE  /\ \A x \in files \cup hosts : x[1] # ws[a]
                      /\ ws[a] \notin vols \cup images
                      /\ Of(ws[a], Containers) \cap up \subseteq Of(ws[a], strays[a])
                      /\ Of(ws[a], Nets) \cap nets # {} => "agent" \in strays[a]
    BY DEF RemoveLeavesNothing
  <2>1. ws[a] # None  BY <1>1 DEF WInv, TypeOK, At
  <2>2. Gone(a)  BY <1>1, <2>1 DEF WInv, Clean
  <2>3. /\ Of(ws[a], Containers) \cap up \subseteq Of(ws[a], strays[a])
        /\ Of(ws[a], Nets) \cap nets # {} => "agent" \in strays[a]
        /\ ws[a] \notin vols /\ ws[a] \notin images
        /\ Of(ws[a], Hosts) \cap hosts = {} /\ Of(ws[a], Files) \cap files = {}
    BY <2>2 DEF Gone, At, PastDown, PastSweep, PastVols, PastNets, PastHosts, PastImages
  <2> QED BY <1>1, <2>3 DEF WInv, TypeOK, Of
<1> QED BY <1>1, WorkspacesInductive, PTL

\* A step of RunWorkspaceRemove takes no file, container, network or volume of another
\* workspace that has a directory, also where the name of that one begins with its own
\* (workspaceHostsToRemove), and no host of one whose directory it has seen.
THEOREM SiblingsAlwaysKept == Spec => SiblingsKept
<1> DEFINE Spared(a) ==
      \A w \in Dirs \ {ws[a]} :
        Keeps(w) /\ (~ At(a, "r_unroute") \/ w \in seen[a] => KeepsHosts(w))
<1>1. ASSUME WInv, NEW a \in Actors, RemoveStep(a), NEW w \in Dirs \ {ws[a]}
      PROVE  Keeps(w) /\ (~ At(a, "r_unroute") \/ w \in seen[a] => KeepsHosts(w))
  <2>1. CASE DownApps(a)
    BY <1>1, <2>1 DEF DownApps, Keeps, KeepsHosts, things, Of
  <2>2. CASE DownProjects(a)
    BY <1>1, <2>2 DEF DownProjects, Keeps, KeepsHosts, things, Of
  <2>3. CASE SweepContainers(a)
    BY <1>1, <2>3 DEF SweepContainers, Keeps, KeepsHosts, things, Of
  <2>4. CASE RemoveVolumes(a)
    BY <1>1, <2>4 DEF RemoveVolumes, Keeps, KeepsHosts, Of
  <2>5. CASE RemoveNetworks(a)
    BY <1>1, <2>5 DEF RemoveNetworks, Keeps, KeepsHosts, things, Of
  <2>6. CASE ListHosts(a) \/ ReadSiblings(a)
    BY <1>1, <2>6 DEF ListHosts, ReadSiblings, Keeps, KeepsHosts, things
  <2>7. CASE RemoveHost(a)
    <3>1. Keeps(w)  BY <1>1, <2>7 DEF RemoveHost, Keeps, things
    <3>2. ASSUME w \in seen[a]  PROVE KeepsHosts(w)
      <4> DEFINE h == CHOOSE h \in cand[a] : TRUE
      <4>1. PICK gone \in SUBSET {h} : hosts' = hosts \ gone
        BY <2>7 DEF RemoveHost
      <4>2. Listed(a) /\ pc[a] = "r_unroute"  BY <1>1, <2>7 DEF WInv, RemoveHost, At
      <4>3. h \in cand[a]  BY <4>2 DEF Listed
      <4> HIDE DEF h
      <4>4. h[1] # w  BY <1>1, <3>2, <4>2, <4>3 DEF Listed
      <4> QED BY <4>1, <4>4 DEF KeepsHosts, Of
    <3> QED BY <2>7, <3>1, <3>2 DEF RemoveHost
  <2>8. CASE RemoveImages(a)
    BY <1>1, <2>8 DEF RemoveImages, Keeps, KeepsHosts, things
  <2>9. CASE RemoveFiles(a)
    BY <1>1, <2>9 DEF RemoveFiles, Keeps, KeepsHosts, things, Of
  <2> QED BY <1>1, <2>1, <2>2, <2>3, <2>4, <2>5, <2>6, <2>7, <2>8, <2>9 DEF RemoveStep
<1>2. WInv => [\A a \in Actors : RemoveStep(a) => Spared(a)]_vars  BY <1>1
<1> QED BY <1>2, WorkspacesInductive, PTL DEF SiblingsKept

-----------------------------------------------------------------------------
(* The relay *)

\* RelayTypeOK in parts: daemons and their clients, the links, the streams, the hosts
ClientsTyped ==
  /\ setting \in [Baileys -> Settings]
  /\ started \in [Baileys -> BOOLEAN]
  /\ fetching \in [Baileys -> SUBSET Callers]
  /\ stale \in [Baileys -> BOOLEAN]
  /\ client \in [Baileys -> {"off", "backoff", "awaiting", "serving"}]
  /\ link \in [Baileys -> Links \cup {Nobody}]

LinksTyped ==
  /\ owner \in [Links -> Baileys \cup {Nobody}]
  /\ serving \in [Links -> {"none", "opening", "installed", "holding"}]
  /\ farOpen \in [Links -> BOOLEAN] /\ nearOpen \in [Links -> BOOLEAN]
  /\ down \in [Links -> Seq(Frames)]
  /\ tunnels \in [Baileys -> Links \cup {Nobody}]

FlowsTyped ==
  /\ pending \subseteq Streams
  /\ stream \in [Streams -> {"new", "resolving", "routed", "waiting",
                             "expired", "draining", "spliced", "closed"}]
  /\ via \in [Streams -> Links \cup Baileys \cup {Nobody}]
  /\ back \in [Streams -> {"none", "dialing", "sent", "claimed", "handed",
                           "spliced", "closed"}]
  /\ dest \in [Streams -> PublicHosts \cup {Nobody}]
  /\ \A s \in Streams : stream[s] = "routed" => via[s] \in Links

PublicTyped ==
  /\ publisher \in [PublicHosts -> Baileys \cup {Nobody}]
  /\ cache \in [PublicHosts -> Cached \cup {NoEntry}]

BoundsTyped == breakages \in 0..MaxBreakages /\ moves \in 0..MaxMoves

LEMMA RelayParts ==
  RelayTypeOK <=> ClientsTyped /\ LinksTyped /\ FlowsTyped /\ PublicTyped /\ BoundsTyped
BY DEF RelayTypeOK, ClientsTyped, LinksTyped, FlowsTyped, PublicTyped, BoundsTyped

\* A stream that asks the AOC knows for which host.  The entry of a stream is there
\* only while its handler waits or is about to delete it; once it is claimed there is
\* none, and the handler will still look into the channel.
FlowSound(s) ==
  /\ stream[s] = "resolving" => via[s] \in Baileys \cup {Nobody} /\ dest[s] \in PublicHosts
  /\ s \in pending => stream[s] \in {"waiting", "expired"}
  /\ back[s] \in {"claimed", "handed"} =>
       stream[s] \in {"waiting", "expired", "draining"} /\ s \notin pending

FlowsSound == \A s \in Streams : FlowSound(s)

RelayInv == RelayTypeOK /\ FlowsSound

LEMMA RelayInvInit == RelayInit => RelayInv
<1> SUFFICES ASSUME RelayInit  PROVE RelayInv
  OBVIOUS
<1>1. ClientsTyped  BY DEF RelayInit, ClientsTyped, Settings
<1>2. LinksTyped  BY DEF RelayInit, LinksTyped
<1>3. FlowsTyped  BY DEF RelayInit, FlowsTyped
<1>4. PublicTyped  BY DEF RelayInit, PublicTyped
<1>5. BoundsTyped  BY RelayBounds DEF RelayInit, BoundsTyped
<1>6. FlowsSound  BY DEF RelayInit, FlowsSound, FlowSound
<1> QED BY <1>1, <1>2, <1>3, <1>4, <1>5, <1>6, RelayParts DEF RelayInv

\* The daemon: registration, startRelayTunnel, and its restart.
LEMMA DaemonKeeps ==
  ASSUME RelayInv, NEW b \in Baileys, Daemon(b)
  PROVE  ClientsTyped' /\ LinksTyped' /\ UNCHANGED <<flows, public>> /\ BoundsTyped'
<1>t. ClientsTyped /\ LinksTyped /\ BoundsTyped  BY RelayParts DEF RelayInv
<1>1. ASSUME NEW s \in Settings, NEW force \in BOOLEAN, Register(b, s, force)
      PROVE  ClientsTyped' /\ LinksTyped' /\ UNCHANGED <<flows, public>> /\ BoundsTyped'
  BY <1>t, <1>1, RelayBounds
     DEF Register, Move, ClientsTyped, LinksTyped, BoundsTyped, clients, links
<1>2. ASSUME NEW c \in Callers, AskAOC(b, c) \/ Launch(b, c) \/ NotProxied(b, c)
      PROVE  ClientsTyped' /\ LinksTyped' /\ UNCHANGED <<flows, public>> /\ BoundsTyped'
  <2>1. ClientsTyped'
    <3>1. fetching' \in [Baileys -> SUBSET Callers]
      BY <1>t, <1>2 DEF AskAOC, Launch, NotProxied, ClientsTyped
    <3> QED BY <1>t, <1>2, <3>1
            DEF AskAOC, Launch, NotProxied, ClientsTyped, clients
  <2>2. UNCHANGED <<links, tunnels, flows, public, breakages, moves>>
    BY <1>2 DEF AskAOC, Launch, NotProxied
  <2> QED BY <1>t, <2>1, <2>2 DEF LinksTyped, BoundsTyped, links
<1>3. CASE Disconnect(b)
  BY <1>t, <1>3
     DEF Disconnect, ClientsTyped, LinksTyped, BoundsTyped, clients, links, Settings
<1>4. CASE Break(b)
  BY <1>t, <1>4, RelayBounds
     DEF Break, Breakage, HangUp, ClientsTyped, LinksTyped, BoundsTyped, daemons
<1>5. CASE RestartDaemon(b)
  BY <1>t, <1>5, RelayBounds
     DEF RestartDaemon, Breakage, ClientsTyped, LinksTyped, BoundsTyped
<1>6. CASE ReplaceToken(b)
  BY <1>t, <1>6, RelayBounds
     DEF ReplaceToken, Move, ClientsTyped, LinksTyped, BoundsTyped, clients, links
<1> QED BY <1>1, <1>2, <1>3, <1>4, <1>5, <1>6 DEF Daemon

LEMMA FramesTyped ==
  ASSUME LinksTyped, NEW l \in Links, NEW f \in Frames
  PROVE  /\ [down EXCEPT ![l] = Append(@, f)] \in [Links -> Seq(Frames)]
         /\ down[l] # <<>> => /\ Head(down[l]) \in Frames
                              /\ [down EXCEPT ![l] = Tail(@)] \in [Links -> Seq(Frames)]
<1>1. down[l] \in Seq(Frames)  BY DEF LinksTyped
<1>2. Append(down[l], f) \in Seq(Frames)  BY <1>1
<1>3. down[l] # <<>> => Head(down[l]) \in Frames /\ Tail(down[l]) \in Seq(Frames)
  BY <1>1
<1> QED BY <1>2, <1>3 DEF LinksTyped

\* The client: Run and runOnce.
LEMMA RunKeeps ==
  ASSUME RelayInv, NEW b \in Baileys, Run(b)
  PROVE  /\ ClientsTyped' /\ LinksTyped' /\ UNCHANGED <<public, breakages, moves>>
         /\ FlowsTyped' /\ FlowsSound'
<1>t. ClientsTyped /\ LinksTyped /\ FlowsTyped /\ FlowsSound
  BY RelayParts DEF RelayInv
<1>f. "ack" \in Frames  BY DEF Frames
<1>h. HasFrame(b) => /\ link[b] \in Links
                     /\ [down EXCEPT ![link[b]] = Tail(@)] \in [Links -> Seq(Frames)]
  BY <1>t, <1>f, FramesTyped DEF HasFrame, ClientsTyped
<1>s. UNCHANGED flows => FlowsTyped' /\ FlowsSound'
  BY <1>t DEF FlowsTyped, FlowsSound, FlowSound, flows
<1>1. CASE Connect(b)
  <2>1. <<>> \in Seq(Frames)  OBVIOUS
  <2> QED BY <1>t, <1>s, <1>1, <2>1 DEF Connect, ClientsTyped, LinksTyped, daemons
<1>2. CASE ReadAck(b)
  BY <1>t, <1>s, <1>h, <1>2 DEF ReadAck, Taken, ClientsTyped, LinksTyped, daemons
<1>3. CASE ReadRefusal(b)
  BY <1>t, <1>s, <1>h, <1>3
     DEF ReadRefusal, HangUp, Taken, ClientsTyped, LinksTyped, daemons
<1>4. CASE ReadOpen(b)
  <2>1. PICK s \in Streams : back' = [back EXCEPT ![s] = "dialing"]
    BY <1>4 DEF ReadOpen
  <2>2. UNCHANGED <<pending, stream, via, dest>>  BY <1>4 DEF ReadOpen
  <2>3. FlowsTyped' /\ FlowsSound'
    BY <1>t, <2>1, <2>2 DEF FlowsTyped, FlowsSound, FlowSound
  <2>4. ClientsTyped' /\ LinksTyped'
    BY <1>t, <1>h, <1>4 DEF ReadOpen, Taken, ClientsTyped, LinksTyped, daemons, clients
  <2> QED BY <1>4, <2>3, <2>4 DEF ReadOpen
<1>5. CASE ReadEnd(b)
  BY <1>t, <1>s, <1>5 DEF ReadEnd, HangUp, ClientsTyped, LinksTyped, daemons
<1> QED BY <1>1, <1>2, <1>3, <1>4, <1>5 DEF Run

\* The relay's handler of a link: handleRegister.
LEMMA LinkKeeps ==
  ASSUME RelayInv, NEW l \in Links, Validated(l) \/ HandleLink(l)
  PROVE  LinksTyped' /\ UNCHANGED <<daemons, clients, flows, public>> /\ BoundsTyped'
<1>t. LinksTyped /\ BoundsTyped  BY RelayParts DEF RelayInv
<1>f. "ack" \in Frames /\ "error" \in Frames  BY DEF Frames
<1>1. CASE Install(l)
  BY <1>t, <1>1 DEF Install, LinksTyped, BoundsTyped
<1>2. CASE Refuse(l)
  <2>1. down' \in [Links -> Seq(Frames)]  BY <1>t, <1>f, <1>2, FramesTyped DEF Refuse
  <2> QED BY <1>t, <1>2, <2>1, RelayBounds DEF Refuse, Breakage, LinksTyped, BoundsTyped
<1>3. CASE Ack(l)
  <2>1. down' \in [Links -> Seq(Frames)]  BY <1>t, <1>f, <1>3, FramesTyped DEF Ack
  <2> QED BY <1>t, <1>3, <2>1 DEF Ack, LinksTyped, BoundsTyped
<1>4. CASE AckFails(l)
  BY <1>t, <1>4 DEF AckFails, LinksTyped, BoundsTyped
<1>5. CASE Retire(l)
  BY <1>t, <1>5 DEF Retire, LinksTyped, BoundsTyped
<1> QED BY <1>1, <1>2, <1>3, <1>4, <1>5 DEF Validated, HandleLink

\* Only the stream s moves; the relay leaves the links and the daemons alone.
LEMMA OneFlows ==
  ASSUME FlowsTyped, FlowsSound, NEW s \in Streams,
         NEW to \in {"new", "resolving", "routed", "waiting", "expired", "draining",
                     "spliced", "closed"},
         NEW v \in Links \cup Baileys \cup {Nobody},
         NEW k \in {"none", "dialing", "sent", "claimed", "handed", "spliced", "closed"},
         NEW d \in PublicHosts \cup {Nobody},
         stream' = [stream EXCEPT ![s] = to], via' = [via EXCEPT ![s] = v],
         back' = [back EXCEPT ![s] = k], dest' = [dest EXCEPT ![s] = d],
         pending' \subseteq Streams,
         \A t \in Streams \ {s} : t \in pending' <=> t \in pending,
         to = "routed" => v \in Links,
         to = "resolving" => v \in Baileys \cup {Nobody} /\ d \in PublicHosts,
         s \in pending' => to \in {"waiting", "expired"},
         k \in {"claimed", "handed"} =>
           to \in {"waiting", "expired", "draining"} /\ s \notin pending'
  PROVE  FlowsTyped' /\ FlowsSound'
<1>1. FlowsTyped'  BY DEF FlowsTyped
<1>2. ASSUME NEW t \in Streams  PROVE FlowSound(t)'
  <2>1. CASE t = s  BY <2>1 DEF FlowsTyped, FlowSound
  <2>2. CASE t # s  BY <2>2 DEF FlowsTyped, FlowsSound, FlowSound
  <2> QED BY <2>1, <2>2
<1> QED BY <1>1, <1>2 DEF FlowsSound

LEMMA CacheTyped ==
  ASSUME PublicTyped, NEW h \in PublicHosts
  PROVE  PubCacheGet(h) \in Baileys \cup {Nobody}
BY DEF PublicTyped, PubCacheGet, Cached, NoEntry

\* The relay's handler of a stream until it has a link: handlePassthroughConn.
LEMMA ArriveKeeps ==
  ASSUME RelayInv, NEW s \in Streams,
         \/ \E b \in Baileys : Arrive(s, b)
         \/ \E h \in PublicHosts : ArrivePublic(s, h)
         \/ Resolved(s) \/ AskFails(s)
  PROVE  FlowsTyped' /\ FlowsSound' /\ PublicTyped'
<1>t. LinksTyped /\ FlowsTyped /\ FlowsSound /\ PublicTyped
  BY RelayParts DEF RelayInv
<1>b. /\ back' = [back EXCEPT ![s] = back[s]] /\ pending' = pending
      /\ pending \subseteq Streams
  BY <1>t DEF Arrive, ArrivePublic, Resolved, AskFails, FlowsTyped
<1>s. /\ stream[s] \in {"new", "resolving", "routed"}
      /\ s \notin pending /\ back[s] \notin {"claimed", "handed"}
  BY <1>t DEF Arrive, ArrivePublic, Resolved, AskFails, FlowsSound, FlowSound
<1>r. ASSUME NEW l \in Links \cup {Nobody}, NEW d \in PublicHosts \cup {Nobody},
             RouteBy(s, l), dest' = [dest EXCEPT ![s] = d]
      PROVE  FlowsTyped' /\ FlowsSound'
  <2> DEFINE to == IF l = Nobody THEN "closed" ELSE "routed"
  <2>1. stream' = [stream EXCEPT ![s] = to] /\ via' = [via EXCEPT ![s] = l]
    BY <1>r DEF RouteBy, Goto
  <2>2. back[s] \in {"none", "dialing", "sent", "claimed", "handed", "spliced", "closed"}
    BY <1>t DEF FlowsTyped
  <2>3. to \in {"closed", "routed"} /\ (to = "routed" => l \in Links)  OBVIOUS
  <2> HIDE DEF to
  <2> QED BY <1>r, <1>t, <1>b, <1>s, <2>1, <2>2, <2>3, OneFlows
<1>d. dest[s] \in PublicHosts \cup {Nobody} /\ dest = [dest EXCEPT ![s] = dest[s]]
  BY <1>t DEF FlowsTyped
<1>1. ASSUME NEW b \in Baileys, Arrive(s, b)
      PROVE  FlowsTyped' /\ FlowsSound' /\ PublicTyped'
  <2>1. tunnels[b] \in Links \cup {Nobody}  BY <1>t DEF LinksTyped
  <2>2. RouteBy(s, tunnels[b]) /\ dest' = dest /\ UNCHANGED public
    BY <1>1 DEF Arrive
  <2> QED BY <1>d, <1>r, <1>t, <2>1, <2>2 DEF PublicTyped, public
<1>2. ASSUME NEW h \in PublicHosts, ArrivePublic(s, h)
      PROVE  FlowsTyped' /\ FlowsSound' /\ PublicTyped'
  <2>0. PublicTyped'  BY <1>2, <1>t DEF ArrivePublic, PublicTyped, public
  <2>1. CASE PubCacheGet(h) # Nobody
    <3>1. tunnels[PubCacheGet(h)] \in Links \cup {Nobody}
      BY <1>t, <2>1, CacheTyped DEF LinksTyped
    <3>2. RouteBy(s, tunnels[PubCacheGet(h)]) /\ dest' = dest
      BY <1>2, <2>1 DEF ArrivePublic
    <3> QED BY <1>d, <1>r, <2>0, <3>1, <3>2
  <2>2. CASE PubCacheGet(h) = Nobody
    <3>1. publisher[h] \in Baileys \cup {Nobody}  BY <1>t DEF PublicTyped
    <3>2. /\ stream' = [stream EXCEPT ![s] = "resolving"]
          /\ via' = [via EXCEPT ![s] = publisher[h]] /\ dest' = [dest EXCEPT ![s] = h]
      BY <1>2, <2>2 DEF ArrivePublic, Goto
    <3>3. back[s] \in {"none", "dialing", "sent", "claimed", "handed", "spliced", "closed"}
      BY <1>t DEF FlowsTyped
    <3> QED BY <1>t, <1>b, <1>s, <2>0, <3>1, <3>2, <3>3, OneFlows
  <2> QED BY <2>1, <2>2
<1>3. CASE Resolved(s)
  <2>1. via[s] \in Baileys \cup {Nobody} /\ dest[s] \in PublicHosts
    BY <1>t, <1>3 DEF Resolved, FlowsSound, FlowSound
  <2>2. CASE via[s] = Nobody
    <3>1. RouteBy(s, Nobody) /\ dest' = [dest EXCEPT ![s] = Nobody] /\ UNCHANGED public
      BY <1>3, <2>2 DEF Resolved, public
    <3> QED BY <1>r, <1>t, <3>1 DEF PublicTyped, public
  <2>3. CASE via[s] # Nobody
    <3>1. tunnels[via[s]] \in Links \cup {Nobody}  BY <1>t, <2>1, <2>3 DEF LinksTyped
    <3>2. RouteBy(s, tunnels[via[s]]) /\ dest' = [dest EXCEPT ![s] = Nobody]
      BY <1>3, <2>3 DEF Resolved
    <3>3. PublicTyped'
      <4> DEFINE entry == [server |-> via[s], live |-> TRUE]
      <4>1. entry \in Cached  BY <2>1, <2>3 DEF Cached
      <4>2. cache' = [cache EXCEPT ![dest[s]] = entry] /\ publisher' = publisher
        BY <1>3, <2>3 DEF Resolved
      <4> HIDE DEF entry
      <4> QED BY <1>t, <4>1, <4>2 DEF PublicTyped
    <3> QED BY <1>r, <3>1, <3>2, <3>3
  <2> QED BY <2>2, <2>3
<1>4. CASE AskFails(s)
  <2>1. RouteBy(s, Nobody) /\ dest' = dest /\ UNCHANGED public
    BY <1>4 DEF AskFails
  <2> QED BY <1>d, <1>r, <1>t, <2>1 DEF PublicTyped, public
<1> QED BY <1>1, <1>2, <1>3, <1>4

\* The handler asks its Bailey, waits and gives up; the data connection comes back,
\* is claimed and handed over: handlePassthroughConn, handleData and dialBack.
LEMMA StreamKeeps ==
  ASSUME RelayInv, NEW s \in Streams,
         \/ Dial(s) \/ HandleData(s) \/ EndSplice(s)
         \/ Ask(s) \/ Splice(s) \/ TimeOut(s) \/ GiveUp(s) \/ Drain(s) \/ DrainEnds(s)
  PROVE  /\ FlowsTyped' /\ FlowsSound' /\ LinksTyped'
         /\ UNCHANGED <<daemons, clients, public, breakages, moves>>
<1>t. LinksTyped /\ FlowsTyped /\ FlowsSound  BY RelayParts DEF RelayInv
<1> DEFINE Rest == UNCHANGED <<daemons, clients, public, breakages, moves>>
<1>l. UNCHANGED <<links, tunnels>> => LinksTyped'  BY <1>t DEF LinksTyped, links
<1>s. FlowSound(s)  BY <1>t DEF FlowsSound
<1>1. CASE Dial(s)
  <2>1. UNCHANGED <<links, tunnels>> /\ Rest  BY <1>1 DEF Dial, DialBack, DialBackFails
  <2>2. FlowsTyped'  BY <1>1, <1>t DEF Dial, DialBack, DialBackFails, FlowsTyped
  <2>3. FlowsSound'
    BY <1>1, <1>t DEF Dial, DialBack, DialBackFails, FlowsTyped, FlowsSound, FlowSound
  <2> QED BY <1>l, <2>1, <2>2, <2>3
<1>2. CASE Claim(s)
  <2>1. UNCHANGED <<links, tunnels>> /\ Rest  BY <1>2 DEF Claim
  <2>2. FlowsTyped'  BY <1>2, <1>t DEF Claim, FlowsTyped
  <2>3. FlowsSound'  BY <1>2, <1>t DEF Claim, FlowsTyped, FlowsSound, FlowSound
  <2> QED BY <1>l, <2>1, <2>2, <2>3
<1>3. CASE HandOver(s)
  <2>1. UNCHANGED <<links, tunnels>> /\ Rest  BY <1>3 DEF HandOver
  <2>2. FlowsTyped'  BY <1>3, <1>t DEF HandOver, FlowsTyped
  <2>3. FlowsSound'  BY <1>3, <1>t DEF HandOver, FlowsTyped, FlowsSound, FlowSound
  <2> QED BY <1>l, <2>1, <2>2, <2>3
<1>4. CASE EndSplice(s) \/ Splice(s) \/ Drain(s)
  <2>1. UNCHANGED <<links, tunnels>> /\ Rest  BY <1>4 DEF EndSplice, Splice, Drain
  <2>2. FlowsTyped'  BY <1>4, <1>t DEF EndSplice, Splice, Drain, Goto, FlowsTyped
  <2>3. FlowsSound'
    BY <1>4, <1>t DEF EndSplice, Splice, Drain, Goto, FlowsTyped, FlowsSound, FlowSound
  <2> QED BY <1>l, <2>1, <2>2, <2>3
<1>5. CASE TimeOut(s) \/ GiveUp(s) \/ DrainEnds(s)
  <2>1. UNCHANGED <<links, tunnels>> /\ Rest  BY <1>5 DEF TimeOut, GiveUp, DrainEnds
  <2>2. FlowsTyped'
    BY <1>5, <1>t DEF TimeOut, GiveUp, DrainEnds, AfterTimeout, Goto, FlowsTyped
  <2>3. FlowsSound'
    BY <1>5, <1>t
       DEF TimeOut, GiveUp, DrainEnds, AfterTimeout, Goto, FlowsTyped, FlowsSound,
           FlowSound
  <2> QED BY <1>l, <2>1, <2>2, <2>3
<1>6. CASE Ask(s)
  <2>1. Rest  BY <1>6 DEF Ask
  <2>2. FlowsTyped'  BY <1>6, <1>t DEF Ask, Goto, FlowsTyped
  <2>3. FlowsSound'  BY <1>6, <1>t DEF Ask, Goto, FlowsTyped, FlowsSound, FlowSound
  <2>4. LinksTyped'
    <3>1. via[s] \in Links /\ s \in Frames  BY <1>6, <1>t DEF Ask, FlowsTyped, Frames
    <3>2. down' \in [Links -> Seq(Frames)]  BY <1>6, <1>t, <3>1, FramesTyped DEF Ask
    <3> QED BY <1>6, <1>t, <3>2 DEF Ask, LinksTyped
  <2> QED BY <2>1, <2>2, <2>3, <2>4
<1> QED BY <1>1, <1>2, <1>3, <1>4, <1>5, <1>6 DEF HandleData

LEMMA RelayRestarts ==
  ASSUME RelayInv, RestartRelay
  PROVE  /\ LinksTyped' /\ FlowsTyped' /\ FlowsSound' /\ PublicTyped' /\ BoundsTyped'
         /\ UNCHANGED <<daemons, clients>>
<1>t. LinksTyped /\ FlowsTyped /\ PublicTyped /\ BoundsTyped
  BY RelayParts DEF RelayInv
<1>1. LinksTyped'  BY <1>t DEF RestartRelay, LinksTyped
<1>2. FlowsTyped'  BY <1>t DEF RestartRelay, FlowsTyped
<1>3. FlowsSound'  BY <1>t DEF RestartRelay, FlowsTyped, FlowsSound, FlowSound
<1>4. PublicTyped'  BY <1>t DEF RestartRelay, PublicTyped
<1>5. BoundsTyped'  BY <1>t, RelayBounds DEF RestartRelay, Breakage, BoundsTyped
<1> QED BY <1>1, <1>2, <1>3, <1>4, <1>5 DEF RestartRelay

\* The AOC: a host moves, and what the relay remembers of it grows old.
LEMMA HostKeeps ==
  ASSUME RelayInv, NEW h \in PublicHosts,
         Expire(h) \/ \E b \in Baileys \cup {Nobody} : Publish(h, b)
  PROVE  /\ PublicTyped' /\ BoundsTyped'
         /\ UNCHANGED <<daemons, clients, links, tunnels, flows>>
<1>t. PublicTyped /\ BoundsTyped  BY RelayParts DEF RelayInv
<1>1. CASE Expire(h)
  <2>1. cache[h] \in Cached /\ cache' = [cache EXCEPT ![h] = [cache[h] EXCEPT !.live = FALSE]]
    BY <1>t, <1>1 DEF Expire, PublicTyped, NoEntry
  <2>2. [cache[h] EXCEPT !.live = FALSE] \in Cached  BY <2>1 DEF Cached
  <2> QED BY <1>t, <1>1, <2>1, <2>2 DEF Expire, PublicTyped, BoundsTyped
<1>2. CASE \E b \in Baileys \cup {Nobody} : Publish(h, b)
  BY <1>t, <1>2, RelayBounds DEF Publish, Move, PublicTyped, BoundsTyped
<1> QED BY <1>1, <1>2

LEMMA RelayInvNext == RelayInv /\ [RelayNext]_relayVars => RelayInv'
<1> SUFFICES ASSUME RelayInv, [RelayNext]_relayVars  PROVE RelayInv'
  OBVIOUS
<1>t. /\ ClientsTyped /\ LinksTyped /\ FlowsTyped /\ PublicTyped /\ BoundsTyped
      /\ FlowsSound
  BY RelayParts DEF RelayInv
<1>p. ClientsTyped' /\ LinksTyped' /\ FlowsTyped' /\ PublicTyped' /\ BoundsTyped'
        => RelayTypeOK'
  BY DEF RelayTypeOK, ClientsTyped, LinksTyped, FlowsTyped, PublicTyped, BoundsTyped
<1>c. UNCHANGED <<daemons, clients>> => ClientsTyped'
  BY <1>t DEF ClientsTyped, daemons, clients
<1>l. UNCHANGED <<links, tunnels>> => LinksTyped'  BY <1>t DEF LinksTyped, links
<1>f. UNCHANGED flows => FlowsTyped' /\ FlowsSound'
  BY <1>t DEF FlowsTyped, FlowsSound, FlowSound, flows
<1>h. UNCHANGED public => PublicTyped'  BY <1>t DEF PublicTyped, public
<1>b. UNCHANGED <<breakages, moves>> => BoundsTyped'  BY <1>t DEF BoundsTyped
<1>1. ASSUME NEW b \in Baileys, Run(b)  PROVE RelayInv'
  BY <1>1, <1>p, <1>h, <1>b, RunKeeps DEF RelayInv
<1>2. ASSUME NEW b \in Baileys, Daemon(b)  PROVE RelayInv'
  BY <1>2, <1>p, <1>f, <1>h, DaemonKeeps DEF RelayInv
<1>3. ASSUME NEW l \in Links, Validated(l) \/ HandleLink(l)  PROVE RelayInv'
  BY <1>3, <1>p, <1>c, <1>f, <1>h, LinkKeeps DEF RelayInv
<1>4. ASSUME NEW s \in Streams,
             \/ \E b \in Baileys : Arrive(s, b)
             \/ \E h \in PublicHosts : ArrivePublic(s, h)
             \/ Resolved(s) \/ AskFails(s)
      PROVE  RelayInv'
  <2>1. UNCHANGED <<daemons, clients, links, tunnels, breakages, moves>>
    BY <1>4 DEF Arrive, ArrivePublic, Resolved, AskFails
  <2> QED BY <1>4, <1>p, <1>c, <1>l, <1>b, <2>1, ArriveKeeps DEF RelayInv
<1>5. ASSUME NEW s \in Streams,
             \/ Dial(s) \/ HandleData(s) \/ EndSplice(s)
             \/ Ask(s) \/ Splice(s) \/ TimeOut(s) \/ GiveUp(s) \/ Drain(s) \/ DrainEnds(s)
      PROVE  RelayInv'
  BY <1>5, <1>p, <1>c, <1>h, <1>b, StreamKeeps DEF RelayInv
<1>6. ASSUME NEW h \in PublicHosts,
             Expire(h) \/ \E b \in Baileys \cup {Nobody} : Publish(h, b)
      PROVE  RelayInv'
  BY <1>6, <1>p, <1>c, <1>l, <1>f, HostKeeps DEF RelayInv
<1>7. CASE RestartRelay
  BY <1>7, <1>p, <1>c, RelayRestarts DEF RelayInv
<1>8. CASE UNCHANGED relayVars
  BY <1>8, <1>p, <1>c, <1>l, <1>f, <1>h, <1>b DEF relayVars, RelayInv
<1> QED BY <1>1, <1>2, <1>3, <1>4, <1>5, <1>6, <1>7, <1>8 DEF RelayNext, HandleStream

\* The invariant of the relay: streams, their entries in Server.pending and the data
\* connections that were claimed for them go together.
THEOREM RelayInductive == RelaySpec => []RelayInv
BY RelayInvInit, RelayInvNext, PTL DEF RelaySpec

\* Every variable keeps its shape, and a stream is routed by a tunnel that was there.
THEOREM RelayTyped == RelaySpec => []RelayTypeOK
<1>1. RelayInv => RelayTypeOK  BY DEF RelayInv
<1> QED BY <1>1, RelayInductive, PTL

\* A data connection that handleData has claimed has a handler, or the goroutine the
\* handler leaves behind, that takes it: however the claim races the 15 s time-out,
\* and wherever the relay and the daemons restart, none is leaked in a channel.
THEOREM NobodyEverStranded == RelaySpec => []NobodyStranded
<1>1. RelayInv => NobodyStranded
  BY DEF RelayInv, FlowsSound, FlowSound, NobodyStranded
<1> QED BY <1>1, RelayInductive, PTL
=============================================================================
