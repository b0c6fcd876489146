----------------------------- MODULE Workspaces -----------------------------
(***************************************************************************)
(* The life of a workspace on the automation server: created step by step  *)
(* by runWorkspaceInit, started, stopped, put into the trash and taken out *)
(* of it, and torn down by RunWorkspaceRemove.  No lock guards any of it:  *)
(* the calls interleave with each other, with the background stop that a   *)
(* trash leaves behind and with the reconciler that starts sidecars which  *)
(* are down.  A call may fail, and a restart of the daemon kills them all. *)
(*                                                                         *)
(* What docker, the ingress and the AOC keep for a workspace is a set of   *)
(* pairs of the workspace and a kind of thing.  The names matter only      *)
(* where the code compares prefixes or asks docker for a part of a name.   *)
(***************************************************************************)
EXTENDS Integers, FiniteSets

CONSTANTS
  Ws,          \* the names of workspaces
  Prefixed,    \* <<x, w>> where the name x begins with w and a hyphen
  Suffixed,    \* <<x, w>> where the name x ends with w
  Actors,      \* calls of the daemon that can run at a time
  MaxOps,      \* bound: calls begun
  MaxFaults    \* bound: failing commands and restarts of the daemon

ASSUME NamesAssumption ==
  /\ Prefixed \subseteq Ws \X Ws /\ Suffixed \subseteq Ws \X Ws
  /\ \A w \in Ws : <<w, w>> \notin Prefixed \cup Suffixed
  /\ \A p \in Prefixed : <<p[2], p[1]>> \notin Prefixed
ASSUME BoundsAssumption == MaxOps \in Nat /\ MaxFaults \in Nat

None == "none"
ASSUME NoneAssumption == None \notin Ws

Files      == {"dir", "deployment", "meta", "site", "dashboard", "agent", "bp",
               "trashed"}
Sidecars   == {"dashboard", "agent"}
Site       == {"site", "driver"}
Containers == Site \cup {"app"} \cup Sidecars
Nets       == {"agent", "stage"}
Hosts      == {"gitops", "dashboard", "app"}

VARIABLES
  files,     \* what is on the disk of a workspace
  up,        \* containers: "site" is gitops, "driver" its driver, "app" what it runs
  nets,      \* its docker networks
  vols,      \* whether volumes of its compose projects exist
  hosts,     \* its rows in endpoints and protected_routes
  images,    \* whether it has automation images
  listed,    \* the workspaces the AOC knows
  pc, ws,    \* where each call is, and on which workspace
  seen,      \* the workspaces a call has read from the disk
  cand,      \* the hosts a removal has listed and not yet deleted
  strays,    \* the sidecars a removal has passed by, without a compose file
  clean,     \* no command of it failed and nobody else touched its workspace
  stopping,  \* what the background stop of a workspace takes down next
  heal,      \* the sidecar the reconciler has found down, if any
  ops, faults

vars == <<files, up, nets, vols, hosts, images, listed, pc, ws, seen, cand, strays,
          clean, stopping, heal, ops, faults>>

things == <<vols, images, listed>>
quiet  == <<stopping, heal>>
reads  == <<seen, cand, strays>>
counts == <<ops, faults>>

Has(w, kind)  == <<w, kind>> \in files
Runs(w, kind) == <<w, kind>> \in up
Of(w, kinds)  == {w} \X kinds
Dirs          == {w \in Ws : Has(w, "dir")}
At(a, label)  == pc[a] = label

\* The workspaces that are there were created in full and have deployed.  Of others
\* a removal whose commands failed has left the sidecars and the hosts.
Init ==
  \E born \in SUBSET Ws : \E left \in SUBSET (Ws \ born) :
    /\ files = born \X (Files \ {"trashed"})
    /\ up = (born \X Containers) \cup (left \X Sidecars)
    /\ nets = (born \X Nets) \cup (left \X {"agent"})
    /\ vols = born /\ images = born /\ listed = born
    /\ hosts = (born \cup left) \X Hosts
    /\ pc = [a \in Actors |-> "idle"] /\ ws = [a \in Actors |-> None]
    /\ seen = [a \in Actors |-> {}] /\ cand = [a \in Actors |-> {}]
    /\ strays = [a \in Actors |-> {}] /\ clean = [a \in Actors |-> TRUE]
    /\ stopping = [w \in Ws |-> None] /\ heal = {} /\ ops = 0 /\ faults = 0

-----------------------------------------------------------------------------
Moves(a, label) == pc' = [pc EXCEPT ![a] = label] /\ UNCHANGED <<ws, clean, counts>>
Go(a, label)    == Moves(a, label) /\ UNCHANGED reads

\* The calls on w other than a's are no longer alone with it.
Disturbed(w, a) == [b \in Actors |-> clean[b] /\ (b = a \/ ws[b] # w)]

Begin(a, w, label) ==
  /\ At(a, "idle") /\ ops < MaxOps /\ ops' = ops + 1
  /\ pc' = [pc EXCEPT ![a] = label] /\ ws' = [ws EXCEPT ![a] = w]
  /\ clean' = [Disturbed(w, a) EXCEPT ![a] =
       stopping[w] = None /\ \A b \in Actors : ws[b] # w]
  /\ UNCHANGED <<reads, faults>>

Forgets(a) ==
  /\ seen' = [seen EXCEPT ![a] = {}] /\ cand' = [cand EXCEPT ![a] = {}]
  /\ strays' = [strays EXCEPT ![a] = {}]

Return(a) ==
  /\ pc' = [pc EXCEPT ![a] = "idle"] /\ ws' = [ws EXCEPT ![a] = None]
  /\ Forgets(a) /\ clean' = [clean EXCEPT ![a] = TRUE]
  /\ UNCHANGED counts

\* A command fails and the call carries on.
Falters(a, label) ==
  /\ faults < MaxFaults /\ faults' = faults + 1
  /\ pc' = [pc EXCEPT ![a] = label] /\ clean' = [clean EXCEPT ![a] = FALSE]
  /\ UNCHANGED <<ws, ops>>

Fault(a, label) == Falters(a, label) /\ UNCHANGED reads

\* A command fails and the call returns an error.
Abort(a) ==
  /\ faults < MaxFaults /\ faults' = faults + 1
  /\ pc' = [pc EXCEPT ![a] = "idle"] /\ ws' = [ws EXCEPT ![a] = None]
  /\ Forgets(a) /\ clean' = [clean EXCEPT ![a] = TRUE]
  /\ UNCHANGED ops

\* Nothing but the position of the call changes.
Still == UNCHANGED <<files, up, nets, hosts, things, quiet>>

-----------------------------------------------------------------------------
(* runWorkspaceInit *)

\* The agent's network is created before the name is looked at.
BeginInit(a, w) ==
  /\ Begin(a, w, "i_stat") /\ nets' = nets \cup {<<w, "agent">>}
  /\ UNCHANGED <<files, up, hosts, things, quiet>>

InitStat(a) ==
  /\ At(a, "i_stat")
  /\ IF Has(ws[a], "dir") THEN Return(a) ELSE Go(a, "i_mkdir")
  /\ Still

InitMkdir(a) ==
  /\ At(a, "i_mkdir") /\ files' = files \cup {<<ws[a], "dir">>} /\ Go(a, "i_tree")
  /\ UNCHANGED <<up, nets, hosts, things, quiet>>

\* os.Mkdir, of the last directory only.
BugMkdir(a) ==
  /\ At(a, "i_tree") /\ files' = files \cup {<<ws[a], "deployment">>}
  /\ Go(a, "i_route")
  /\ UNCHANGED <<up, nets, hosts, things, quiet>>

\* Repositories, keys, images to use: until the deployment directory exists.
InitTree(a) ==
  /\ At(a, "i_tree") /\ files' = files \cup Of(ws[a], {"dir", "deployment"})
  /\ Go(a, "i_route")
  /\ UNCHANGED <<up, nets, hosts, things, quiet>>

InitRoute(a) ==
  /\ At(a, "i_route") /\ hosts' = hosts \cup {<<ws[a], "gitops">>}
  /\ Go(a, "i_register")
  /\ UNCHANGED <<files, up, nets, things, quiet>>

\* The AOC refuses a name it already knows.
InitRegister(a) ==
  /\ At(a, "i_register")
  /\ IF ws[a] \in listed THEN Return(a) /\ UNCHANGED listed
     ELSE Go(a, "i_compose") /\ listed' = listed \cup {ws[a]}
  /\ UNCHANGED <<files, up, nets, hosts, vols, images, quiet>>

InitCompose(a) ==
  /\ At(a, "i_compose") /\ Has(ws[a], "deployment")
  /\ files' = files \cup {<<ws[a], "site">>} /\ Go(a, "i_meta")
  /\ UNCHANGED <<up, nets, hosts, things, quiet>>

InitMeta(a) ==
  /\ At(a, "i_meta") /\ Has(ws[a], "dir")
  /\ files' = files \cup {<<ws[a], "meta">>} /\ Go(a, "i_up")
  /\ UNCHANGED <<up, nets, hosts, things, quiet>>

\* Saving the metadata fails: a warning.
InitMetaFails(a) == At(a, "i_meta") /\ Fault(a, "i_up") /\ Still

\* It cannot be saved where the directory is gone.
InitMetaLost(a) ==
  At(a, "i_meta") /\ ~ Has(ws[a], "dir") /\ Go(a, "i_up") /\ Still

\* The compose file declares the agent's network as external.
SiteCanRun(w) == Has(w, "site") /\ <<w, "agent">> \in nets

InitUp(a) ==
  /\ At(a, "i_up") /\ SiteCanRun(ws[a])
  /\ up' = up \cup Of(ws[a], Site) /\ vols' = vols \cup {ws[a]}
  /\ Go(a, "i_list")
  /\ UNCHANGED <<files, nets, hosts, images, listed, quiet>>

InitDashboard(a) ==
  /\ At(a, "i_dash") /\ Has(ws[a], "dir")
  /\ IF Has(ws[a], "dashboard") THEN Return(a) /\ UNCHANGED files
     ELSE /\ Go(a, "i_dashroute")
          /\ files' = files \cup {<<ws[a], "deployment">>, <<ws[a], "dashboard">>}
  /\ UNCHANGED <<up, nets, hosts, things, quiet>>

InitDashRoute(a) ==
  /\ At(a, "i_dashroute") /\ hosts' = hosts \cup {<<ws[a], "dashboard">>}
  /\ Go(a, "i_dashup")
  /\ UNCHANGED <<files, up, nets, things, quiet>>

InitDashUp(a) ==
  /\ At(a, "i_dashup") /\ Has(ws[a], "dashboard")
  /\ up' = up \cup {<<ws[a], "dashboard">>} /\ Go(a, "i_agent")
  /\ UNCHANGED <<files, nets, hosts, things, quiet>>

InitAgent(a) ==
  /\ At(a, "i_agent") /\ Has(ws[a], "deployment")
  /\ IF Has(ws[a], "agent") THEN Return(a) /\ UNCHANGED files
     ELSE Go(a, "i_agentup") /\ files' = files \cup {<<ws[a], "agent">>}
  /\ UNCHANGED <<up, nets, hosts, things, quiet>>

InitAgentUp(a) ==
  /\ At(a, "i_agentup") /\ Has(ws[a], "agent")
  /\ nets' = nets \cup {<<ws[a], "agent">>} /\ up' = up \cup {<<ws[a], "agent">>}
  /\ Go(a, "i_own")
  /\ UNCHANGED <<files, hosts, things, quiet>>

\* The console registers the endpoints once more, for the caller.
InitOwn(a) ==
  /\ At(a, "i_own") /\ hosts' = hosts \cup Of(ws[a], {"gitops", "dashboard"})
  /\ Return(a)
  /\ UNCHANGED <<files, up, nets, things, quiet>>

\* Any step returns on an error and leaves what there is.
InitFails(a) ==
  /\ pc[a] \in {"i_stat", "i_mkdir", "i_tree", "i_route", "i_register", "i_compose",
                "i_up", "i_dash", "i_dashroute", "i_dashup", "i_agent", "i_agentup"}
  /\ Abort(a) /\ Still

\* A step that finds its workspace torn down under it returns an error.
InitLost(a) ==
  /\ \/ At(a, "i_up") /\ ~ SiteCanRun(ws[a])
     \/ At(a, "i_compose") /\ ~ Has(ws[a], "deployment")
     \/ At(a, "i_dash") /\ ~ Has(ws[a], "dir")
     \/ At(a, "i_dashup") /\ ~ Has(ws[a], "dashboard")
     \/ At(a, "i_agent") /\ ~ Has(ws[a], "deployment")
     \/ At(a, "i_agentup") /\ ~ Has(ws[a], "agent")
  /\ Return(a) /\ Still

InitStep(a) ==
  \/ InitStat(a) \/ InitMkdir(a) \/ InitTree(a) \/ InitRoute(a) \/ InitRegister(a)
  \/ InitCompose(a) \/ InitMeta(a) \/ InitMetaFails(a) \/ InitMetaLost(a) \/ InitUp(a)
  \/ InitDashboard(a) \/ InitDashRoute(a) \/ InitDashUp(a) \/ InitAgent(a)
  \/ InitAgentUp(a) \/ InitOwn(a) \/ InitFails(a) \/ InitLost(a)

-----------------------------------------------------------------------------
(* syncWorkspaceListToAOC: the list is read, then sent; what it does not    *)
(* name the AOC deletes.                                                    *)

AfterList == [i_list |-> "i_post", r_list |-> "r_post"]
AfterPost(a) == IF At(a, "i_post") THEN Go(a, "i_dash") ELSE Return(a)

SyncRead(a) ==
  /\ pc[a] \in DOMAIN AfterList /\ seen' = [seen EXCEPT ![a] = Dirs]
  /\ pc' = [pc EXCEPT ![a] = AfterList[pc[a]]]
  /\ UNCHANGED <<ws, cand, strays, clean, counts>> /\ Still

SyncPost(a) ==
  /\ pc[a] \in {"i_post", "r_post"} /\ listed' = seen[a] /\ AfterPost(a)
  /\ UNCHANGED <<files, up, nets, hosts, vols, images, quiet>>

\* Best effort: init carries on, a removal has reported its result.
SyncFails(a) ==
  /\ \/ At(a, "i_post") /\ Fault(a, "i_dash")
     \/ At(a, "r_post") /\ Abort(a)
  /\ Still

-----------------------------------------------------------------------------
(* RunWorkspaceRemove, called by the host for any name and by the emptying  *)
(* of the trash for what its caller owns there.  Every step is best effort: *)
(* what it could not remove stays, and the next step follows.               *)

BeginRemove(a, w) ==
  /\ Begin(a, w, "r_apps")
  /\ UNCHANGED <<files, up, nets, hosts, things, quiet>>

\* A step of the removal takes away `all`, or with a failing command a part.
Takes(a, label, all, gone) ==
  IF gone = all THEN Moves(a, label) ELSE Falters(a, label)

\* Compose files of business processes, if gitops has written any.
DownApps(a) ==
  /\ At(a, "r_apps")
  /\ LET all == IF Has(ws[a], "bp") THEN {<<ws[a], "app">>} \cap up ELSE {}
     IN \E gone \in SUBSET all :
          up' = up \ gone /\ Takes(a, "r_down", all, gone)
  /\ UNCHANGED <<files, nets, hosts, things, quiet, reads>>

\* Without a deployment directory the projects are named, else their files are.
Projects(w) ==
  IF ~ Has(w, "deployment") THEN Site \cup Sidecars
  ELSE Site \cup {k \in Sidecars : Has(w, k)}

DownProjects(a) ==
  /\ At(a, "r_down")
  /\ LET all == Of(ws[a], Projects(ws[a])) \cap up
     IN \E gone \in SUBSET all :
          up' = up \ gone /\ Takes(a, "r_sweep", all, gone)
  /\ strays' = [strays EXCEPT ![a] = {k \in Sidecars \ Projects(ws[a]) : Runs(ws[a], k)}]
  /\ UNCHANGED <<files, nets, hosts, things, quiet, seen, cand>>

\* There is no sweep by label.
BugNoSweep(a) ==
  /\ At(a, "r_sweep") /\ Go(a, "r_vols")
  /\ UNCHANGED <<files, up, nets, hosts, things, quiet>>

\* gitops and what it deploys carry the label gitops.workspace; the driver, the
\* dashboard and the coding agent do not.
Labelled == {"site", "app"}

\* Every container with the workspace's label.
SweepContainers(a) ==
  /\ At(a, "r_sweep")
  /\ LET all == Of(ws[a], Labelled) \cap up
     IN \E gone \in SUBSET all :
          up' = up \ gone /\ Takes(a, "r_vols", all, gone)
  /\ UNCHANGED <<files, nets, hosts, things, quiet, reads>>

\* docker refuses what a container still uses.  The sidecars and the driver mount
\* only the volume that all workspaces share.
RemoveVolumes(a) ==
  /\ At(a, "r_vols")
  /\ LET all == IF Of(ws[a], Labelled) \cap up = {} THEN {ws[a]} \cap vols ELSE {}
     IN \E gone \in SUBSET all :
          vols' = vols \ gone /\ Takes(a, "r_nets", all, gone)
  /\ UNCHANGED <<files, up, nets, hosts, images, listed, quiet, reads>>

NetUsers == [agent |-> {"site", "agent"}, stage |-> {"app"}]

RemoveNetworks(a) ==
  /\ At(a, "r_nets")
  /\ LET all == {n \in Of(ws[a], Nets) \cap nets :
                   Of(ws[a], NetUsers[n[2]]) \cap up = {}}
     IN \E gone \in SUBSET all :
          nets' = nets \ gone /\ Takes(a, "r_hosts", all, gone)
  /\ UNCHANGED <<files, up, hosts, things, quiet, reads>>

\* The rows of endpoints and protected_routes are listed, none when this fails ...
ListHosts(a) ==
  /\ At(a, "r_hosts")
  /\ \E rows \in {hosts, {}} :
       cand' = [cand EXCEPT ![a] = rows] /\ Takes(a, "r_siblings", hosts, rows)
  /\ UNCHANGED <<files, up, nets, hosts, things, quiet, seen, strays>>

\* Every row that begins with the workspace's name and a hyphen.
BugByPrefix(w, rows, there) ==
  Of(w, {"gitops", "dashboard"}) \cup {h \in rows : h[1] = w \/ <<h[1], w>> \in Prefixed}

\* workspaceHostsToRemove: but those of a sibling whose directory is there, and
\* gitops and the dashboard of the workspace at any rate.
HostsToRemove(w, rows, there) ==
  LET siblings == {x \in there : <<x, w>> \in Prefixed}
  IN Of(w, {"gitops", "dashboard"}) \cup
     {h \in rows :
        /\ h[1] = w \/ <<h[1], w>> \in Prefixed
        /\ \A x \in siblings : h[1] # x /\ <<h[1], x>> \notin Prefixed}

\* ... then the directories are read, none when this fails ...
ReadSiblings(a) ==
  /\ At(a, "r_siblings")
  /\ \E there \in {Dirs, {}} :
       /\ seen' = [seen EXCEPT ![a] = there]
       /\ cand' = [cand EXCEPT ![a] = HostsToRemove(ws[a], @, there)]
       /\ Takes(a, "r_unroute", Dirs, there)
  /\ UNCHANGED <<files, up, nets, hosts, things, quiet, strays>>

\* ... and the hosts are deleted one by one, in the order of the rows, whatever it is.
RemoveHost(a) ==
  /\ At(a, "r_unroute")
  /\ LET h == CHOOSE h \in cand[a] : TRUE
     IN \E gone \in SUBSET {h} :
          /\ hosts' = hosts \ gone
          /\ cand' = [cand EXCEPT ![a] = @ \ {h}]
          /\ Takes(a, IF cand[a] = {h} THEN "r_images" ELSE "r_unroute", {h}, gone)
  /\ UNCHANGED <<files, up, nets, things, quiet, seen, strays>>

\* removeImagesByPrefix: by the name and a hyphen, but those a container uses.
RemoveImages(a) ==
  /\ At(a, "r_images")
  /\ LET all == {x \in images : /\ x = ws[a] \/ <<x, ws[a]>> \in Prefixed
                                /\ ~ Runs(x, "app")}
     IN \E gone \in SUBSET all :
          images' = images \ gone /\ Takes(a, "r_files", all, gone)
  /\ UNCHANGED <<files, up, nets, hosts, vols, listed, quiet, reads>>

RemoveFiles(a) ==
  /\ At(a, "r_files")
  /\ LET all == Of(ws[a], Files) \cap files
     IN \E gone \in {all, {}} :
          files' = files \ gone /\ Takes(a, "r_list", all, gone)
  /\ UNCHANGED <<up, nets, hosts, things, quiet, reads>>

RemoveStep(a) ==
  \/ DownApps(a) \/ DownProjects(a) \/ SweepContainers(a) \/ RemoveVolumes(a)
  \/ RemoveNetworks(a) \/ ListHosts(a) \/ ReadSiblings(a) \/ RemoveHost(a)
  \/ RemoveImages(a) \/ RemoveFiles(a)

-----------------------------------------------------------------------------
(* Trash and restore *)

\* The marker is written at once; the containers are stopped in the background.
Trash(a, w) ==
  /\ At(a, "idle") /\ ops < MaxOps /\ ops' = ops + 1 /\ Has(w, "dir")
  /\ files' = files \cup {<<w, "trashed">>}
  /\ stopping' = [stopping EXCEPT ![w] = "site"]
  /\ clean' = Disturbed(w, a)
  /\ UNCHANGED <<up, nets, hosts, things, pc, ws, reads, heal, faults>>

\* Down of the site's project, then of the dashboard's.
StopNext(w) ==
  /\ stopping[w] # None
  /\ up' = up \ Of(w, IF stopping[w] = "site" THEN Site ELSE {"dashboard"})
  /\ stopping' = [stopping EXCEPT ![w] =
       IF stopping[w] = "site" THEN "dashboard" ELSE None]
  /\ clean' = [b \in Actors |-> clean[b] /\ ws[b] # w]
  /\ UNCHANGED <<files, nets, hosts, things, pc, ws, reads, heal, counts>>

BeginRestore(a, w) ==
  /\ Has(w, "deployment") /\ Begin(a, w, "u_site")
  /\ UNCHANGED <<files, up, nets, hosts, things, quiet>>

\* docker compose up of the site, as restore and `workspace start` do it.
SiteUp(a) ==
  /\ pc[a] \in {"u_site", "t_site"} /\ SiteCanRun(ws[a])
  /\ up' = up \cup Of(ws[a], Site)
  /\ Go(a, IF At(a, "u_site") THEN "u_dash" ELSE "t_apps")
  /\ UNCHANGED <<files, nets, hosts, things, quiet>>

SiteUpFails(a) ==
  /\ pc[a] \in {"u_site", "t_site"}
  /\ IF SiteCanRun(ws[a]) THEN Abort(a) ELSE Return(a)
  /\ Still

RestoreDashboard(a) ==
  /\ At(a, "u_dash") /\ Go(a, "u_mark")
  /\ up' = up \cup (Of(ws[a], {"dashboard"}) \cap files)
  /\ UNCHANGED <<files, nets, hosts, things, quiet>>

RestoreDashboardFails(a) ==
  /\ At(a, "u_dash") /\ Has(ws[a], "dashboard") /\ Fault(a, "u_mark") /\ Still

Unmark(a) ==
  /\ At(a, "u_mark") /\ files' = files \ {<<ws[a], "trashed">>} /\ Return(a)
  /\ UNCHANGED <<up, nets, hosts, things, quiet>>

-----------------------------------------------------------------------------
(* bitswan workspace start, stop and restart *)

BeginStart(a, w) ==
  /\ Has(w, "meta") /\ Begin(a, w, "t_site")
  /\ UNCHANGED <<files, up, nets, hosts, things, quiet>>

\* gitops is reachable and is asked to deploy everything.
StartApps(a) ==
  /\ At(a, "t_apps") /\ Return(a)
  /\ up' = IF Runs(ws[a], "site") /\ Has(ws[a], "bp") THEN up \cup {<<ws[a], "app">>}
           ELSE up
  /\ UNCHANGED <<files, nets, hosts, things, quiet>>

\* With "restart" a start follows.
BeginStop(a, w) ==
  /\ \E label \in {"s_apps", "x_apps"} : Begin(a, w, label)
  /\ UNCHANGED <<files, up, nets, hosts, things, quiet>>

AfterApps == [s_apps |-> "s_site", x_apps |-> "x_site"]

\* gitops stops them, one by one; without gitops none is stopped.
StopApps(a) ==
  /\ pc[a] \in DOMAIN AfterApps /\ Go(a, AfterApps[pc[a]])
  /\ up' = IF Runs(ws[a], "site") THEN up \ {<<ws[a], "app">>} ELSE up
  /\ UNCHANGED <<files, nets, hosts, things, quiet>>

StopAppsFails(a) ==
  pc[a] \in DOMAIN AfterApps /\ Fault(a, AfterApps[pc[a]]) /\ Still

StopSite(a) ==
  /\ pc[a] \in {"s_site", "x_site"}
  /\ IF Has(ws[a], "site")
     THEN /\ up' = up \ Of(ws[a], Site)
          /\ IF At(a, "x_site") /\ Has(ws[a], "meta") THEN Go(a, "t_site")
             ELSE Return(a)
     ELSE Return(a) /\ UNCHANGED up
  /\ UNCHANGED <<files, nets, hosts, things, quiet>>

OtherStep(a) ==
  \/ SiteUp(a) \/ SiteUpFails(a) \/ RestoreDashboard(a) \/ RestoreDashboardFails(a)
  \/ Unmark(a) \/ StartApps(a) \/ StopApps(a) \/ StopAppsFails(a) \/ StopSite(a)

-----------------------------------------------------------------------------
\* gitops deploys an automation (external).
Deploy(w) ==
  /\ Runs(w, "site") /\ Has(w, "deployment")
  /\ files' = files \cup {<<w, "bp">>} /\ up' = up \cup {<<w, "app">>}
  /\ nets' = nets \cup {<<w, "stage">>} /\ hosts' = hosts \cup {<<w, "app">>}
  /\ images' = images \cup {w} /\ vols' = vols \cup {w}
  /\ clean' = [b \in Actors |-> clean[b] /\ ws[b] # w]
  /\ UNCHANGED <<listed, pc, ws, reads, quiet, counts>>

\* docker ps --filter name=: a container whose name contains the one asked for.
LooksRunning(w, k) == \E x \in Ws : Runs(x, k) /\ (x = w \/ <<x, w>> \in Suffixed)

\* reconcileSidecar: enabled and not running...
HealCheck(w, k) ==
  /\ heal = {} /\ Has(w, k) /\ ~ LooksRunning(w, k) /\ heal' = {<<w, k>>}
  /\ UNCHANGED <<files, up, nets, hosts, things, pc, ws, reads, clean, stopping, counts>>

Healed == [b \in Actors |-> clean[b] /\ \A p \in heal : ws[b] # p[1]]

\* ... so it is started: the agent's network first, then compose up.
HealStart ==
  /\ heal # {} /\ heal' = {} /\ clean' = Healed
  /\ nets' = nets \cup {p \in heal : p[2] = "agent"}
  /\ up' = up \cup (heal \cap files)
  /\ UNCHANGED <<files, hosts, things, pc, ws, reads, stopping, counts>>

HealFails ==
  /\ heal # {} /\ heal' = {} /\ clean' = Healed
  /\ faults < MaxFaults /\ faults' = faults + 1
  /\ UNCHANGED <<files, up, nets, hosts, things, pc, ws, reads, stopping, ops>>

\* The daemon restarts: its calls and its background work are gone.
Restart ==
  /\ faults < MaxFaults /\ faults' = faults + 1
  /\ pc' = [a \in Actors |-> "idle"] /\ ws' = [a \in Actors |-> None]
  /\ seen' = [a \in Actors |-> {}] /\ cand' = [a \in Actors |-> {}]
  /\ strays' = [a \in Actors |-> {}] /\ clean' = [a \in Actors |-> TRUE]
  /\ stopping' = [w \in Ws |-> None] /\ heal' = {}
  /\ UNCHANGED <<files, up, nets, hosts, things, ops>>

-----------------------------------------------------------------------------
Call(a) ==
  InitStep(a) \/ RemoveStep(a) \/ OtherStep(a) \/ SyncRead(a) \/ SyncPost(a)
  \/ SyncFails(a)

Request(a, w) ==
  \/ BeginInit(a, w) \/ BeginRemove(a, w) \/ Trash(a, w) \/ BeginRestore(a, w)
  \/ BeginStart(a, w) \/ BeginStop(a, w)

Next ==
  \/ \E a \in Actors : Call(a) \/ \E w \in Ws : Request(a, w)
  \/ \E w \in Ws : StopNext(w) \/ Deploy(w)
  \/ \E w \in Ws, k \in Sidecars : HealCheck(w, k)
  \/ HealStart \/ HealFails \/ Restart

Spec == Init /\ [][Next]_vars

-----------------------------------------------------------------------------
Labels ==
  {"idle", "i_stat", "i_mkdir", "i_tree", "i_route", "i_register", "i_compose",
   "i_meta", "i_up", "i_list", "i_post", "i_dash", "i_dashroute", "i_dashup",
   "i_agent", "i_agentup", "i_own", "r_apps", "r_down", "r_sweep", "r_vols",
   "r_nets", "r_hosts", "r_siblings", "r_unroute", "r_images", "r_files", "r_list",
   "r_post", "u_site", "u_dash", "u_mark", "t_site", "t_apps", "s_apps", "s_site",
   "x_apps", "x_site"}

\* Every variable keeps its shape; a call at work has a workspace, and no file of
\* a workspace is without its directory.
TypeOK ==
  /\ files \subseteq Ws \X Files /\ up \subseteq Ws \X Containers
  /\ nets \subseteq Ws \X Nets /\ hosts \subseteq Ws \X Hosts
  /\ vols \subseteq Ws /\ images \subseteq Ws /\ listed \subseteq Ws
  /\ pc \in [Actors -> Labels] /\ ws \in [Actors -> Ws \cup {None}]
  /\ \A a \in Actors : At(a, "idle") <=> ws[a] = None
  /\ seen \in [Actors -> SUBSET Ws] /\ clean \in [Actors -> BOOLEAN]
  /\ cand \in [Actors -> SUBSET (Ws \X Hosts)]
  /\ strays \in [Actors -> SUBSET Sidecars]
  /\ stopping \in [Ws -> {None, "site", "dashboard"}]
  /\ heal \subseteq Ws \X Sidecars
  /\ ops \in 0 .. MaxOps /\ faults \in 0 .. MaxFaults
  /\ \A f \in files : Has(f[1], "dir")

\* A removal none of whose commands failed, and which had its workspace to
\* itself, leaves nothing of it, however far its creation had come and whatever
\* earlier removals had left - but a sidecar that an earlier removal had left, whose
\* compose file was gone with it and whose workspace was there again: no project
\* names it and, against the comment on the sweep, it has no label.
RemoveLeavesNothing ==
  \A a \in Actors : At(a, "r_list") /\ clean[a] =>
    LET w == ws[a]
    IN /\ \A x \in files \cup hosts : x[1] # w
       /\ w \notin vols \cup images
       /\ Of(w, Containers) \cap up \subseteq Of(w, strays[a])
       /\ Of(w, Nets) \cap nets # {} => "agent" \in strays[a]

\* A removal takes nothing from another workspace that has a directory, also from
\* one whose name begins with its own.  (Images it does.)  Hosts it takes only where
\* it has not seen the directory: it lists the hosts first, so that those which an
\* earlier removal of a sibling had left it may delete after the sibling is created
\* anew.
Keeps(w) ==
  /\ Of(w, Files) \cap files \subseteq files' /\ Of(w, Nets) \cap nets \subseteq nets'
  /\ Of(w, Containers) \cap up \subseteq up'
  /\ w \in vols => w \in vols'

KeepsHosts(w) == Of(w, Hosts) \cap hosts \subseteq hosts'

SiblingsKept ==
  [][\A a \in Actors : RemoveStep(a) =>
       \A w \in Dirs \ {ws[a]} :
         Keeps(w) /\ (~ At(a, "r_unroute") \/ w \in seen[a] => KeepsHosts(w))]_vars
=============================================================================
