# Verification of Bailey lab

TLA+ models of the parts of this repository where state is shared between concurrent
operations or must survive a failure, TLC runs over small instances of them, and TLAPS
proofs that do not depend on the size of the instance.

    tlc -workers 2 -config MCGitQueue.cfg MCGitQueue
    tlapm Gitops_proofs.tla

`MC*` are the instances for TLC, `*_proofs` the theorems, and every other module a component
or an abstract specification. `PROJECT.json` lists the runs, the lines of the source that
each definition stands for, the hazards with the properties that are about them, a mutant
for each property, and the disagreement found.

## 1. The system

Bailey lab hosts workspaces on a server. In each workspace a `bitswan-gitops` process
(Python, one asyncio event loop) owns a git repository whose `bitswan.yaml` says which
automations of which business process run at which stage, and pushes it to the driver of the
workspace (Go, inside the workspace's own container), whose hook turns it into containers
and asks the daemon for routes. The daemon, `bitswan-automation-server` (Go), creates and
removes workspaces, routes their hosts through two levels of traefik, trusts devices, backs
the server up, updates itself and keeps a tunnel to the relay of the AOC, an outside
service. A dashboard, a coding agent and the CLI call the routes of both programs.

What makes it hard:

* `bitswan-gitops` has no database: `bitswan.yaml` is read whole, changed in memory and
  written whole, often with awaits in between, and what a coroutine decided from is read at
  its start and used at its end;
* its locks are dictionaries of the process, taken by a request and given back minutes later
  by a background coroutine; an administrator may clear the git queue under a coroutine that
  waits in it;
* the daemon's long operations (creating a workspace, recovering one, replacing its own
  binary) are sequences of calls to docker, to the file system and to the AOC, any of which
  may fail, and a restart kills them between any two;
* its handlers run concurrently over SQLite, where a statement is atomic and a handler is
  several of them;
* a deployment crosses three programs, each with its own idea of when the other one has
  failed.

### Components, their state and what makes them correct

| component | state | operations | must hold | model |
|---|---|---|---|---|
| Git task queue: `task_queue.py`, `GitLockContext` in `utils.py` | tasks, functions, order, the `asyncio.Queue`, grant and release events | submit, acquire, release, worker, clear, trim | one git operation at a time, in order; the worker never wedged; every waiter answered | `GitQueue` implements `GitTurn` |
| Deploy manager and deploy coroutines: `deploy_manager.py`, `deploy_runner.py`, routes | `_active_deploys`, `_tasks`, entries in `bitswan.yaml` | four coroutines, builds, write, release, clean-up | reserved all or nothing; the lock stays with the running deploy and comes back; an entry that has settled is kept | `DeployLocks` implements `Reservation` |
| Release state and staging gate: `automation_service.py` | images, sign-offs, freeze, policy | freeze, audit, promote, deploy, rollback | whatever image of a member is in production was let in with a content that was fully signed off | `ReleaseGate` |
| Snapshots, restore, clone, DR: `snapshot_*.py` | stage locks, snapshots on disk, live database | create, restore, clone, delete, prune, DR restore, swap | dumps and loads are not disturbed; a rollback exists; the source survives | `SnapshotOps`, its locks `Reservation` |
| Production slots: `automation_service.py`, the driver's `resolver` | `slots`, `live_slot`, `live_db` | begin and finish a promotion, swap, compile | the live slot is on the live database and another one stands by | `ProductionSlots`, `DriverApply` |
| Docker driver: `internal/infradriver` | lock of the workspace, containers, gateways | apply: lock, up, create, provision, route, retire | an apply that ends well made what its record declares; siblings are left alone | `DriverApply` |
| Ingress reconcile: `daemon/ingress.go`, `acl.go`, `traefikapi` | both proxies, `protected_routes`, marks | upsert, prune | a host that is accepted reaches a container | `DriverApply` |
| Relay: `internal/relay`, `daemon/relay_tunnel.go` | tunnels, pending connections, public-host cache | register, replace, dial back, splice, expire | the tunnel of a client with a good token comes back; every stream is answered; nothing is leaked | `Relay` |
| Server update: `bailey_admin_server_update.go`, `bailey_admin_rollback.go`, `bailey_update_history.go`, `cmd/self_update.go` | the binary, its ledger, `serverUpdateMu` | update, rollback, self-update, restart | a row has its binary; what was done can be undone; the daemon runs what was installed | `ServerUpdate` |
| Workspace lifecycle: `workspace_*.go`, the sidecar reconciler | files, containers, networks, routes, the AOC list | create, remove, trash, restore, start, stop, heal | a removal leaves nothing it can find and takes nothing of a sibling it has seen | `Workspaces` |
| Server backups, workspace recovery: `daemon/backup_*.go`, `daemon/backup` | repository, trees, the engine's flag | nightly run, retention, select, quarantine, restore, rollback | a selection stays and is of one run; no half-restored tree is captured; the own tree is kept | `Backups` |
| Whole-server recovery: `cmd/recover_server*.go` | token, volume, daemon, newest backup | preflight, exchange, phases, resume | no password is spent in vain; success is a whole server | `ServerRecovery` |
| Device trust: `mfa_*.go`, `bailey_gate_api.go`, `bailey_people*.go`, `bailey_sso.go` | devices, pending codes, invites, backup codes, roles | claim, pair, invite, redeem, recover, change roles | a device is bought once and with approval; an admin is left | `DeviceTrust` |

### How they interact

Every commit of `bitswan-gitops` passes through the git queue: for `DeployLocks` and
`ReleaseGate` that is a step that takes time and may be cleared. Deploys and promotions take
the locks of `DeployLocks`; `ReleaseGate` keeps of these that two deploys of a stage exclude
each other. `SnapshotOps` has locks of the same shape, which neither a swap nor a deploy
looks at. `DriverApply` composes `ProductionSlots` (the record and the operations on it)
with the hook of a push, the lock of the workspace, and the daemon's side of the request for
routes. `Workspaces` has gitops with its driver as one container, and a recovery of
`Backups` brings it up as a step. `ServerRecovery` has a workspace's recovery as one step
that may fail, and the new daemon's backups beside it.

### What a step is

In `bitswan-gitops` a step is the code between two awaits that yield. In the daemon it is a
SQL statement or a call to docker, the file system or the AOC, and what the code does around
it to state that no one else reads. Where two programs meet, the request, the work and the
answer are steps of their own.

## 2. The models

In a component module a definition named `Bug...` directly precedes the one it is a wrong
variant of. No action uses it: it records a mistake that could be made in that place, and
`PROJECT.json` says which property catches it.

**GitQueue.** A task is a *job* (a function the worker runs) or a *lease* (the turn a
request takes with `acquire()`). `taskStatus`, `recorded`, `fns`, `order`, `cancelled`,
`queue`, `running`, `registered` are the fields of `TaskQueue`, `granted` and `released` its
events, `caller` where the coroutine behind a lease is. `Owner[l]` says that a lease is a
`GitLockContext` entered within a job, where `in_queue_task` makes it a no-op. `Submit`
includes the trimming with which `submit()` ends. `GitTurn` is the promise: a line and a
turn.

**DeployLocks.** One scope (process and stage; the stage is chosen in `Init`). The four
kinds of coroutine share their phases and differ in how they end: `single` and `bp` release
in a `finally`, `set` ends its task on `Exception` only, `agent` never does. `Fail` is any
exception, `Cleared` the `CancelledError` of a cleared git queue. `PrepFails` ends the task
while the other builds go on, as `asyncio.gather` has it. In dev `Read` and `Write` are
apart (`git show` is awaited), in live-dev they see one file. `settled` records the entries
that were written while no deploy under way overlooked them, that is, had enumerated the
scope or read the file without them. `Reservation` is the promise: a table reserved all or
nothing.

**ReleaseGate.** The content of a stage is a set of images, at most one for each member of
the process, and `content_sha` is that set. Only a deploy of the whole process has a
`prune_scope` and replaces what is there; every other writer updates the members it carries
and leaves the others (`Upsert`), so that a stage may hold a mixture. `job[t].image` and
`job[t].gate` are the tree a writer has read and will write back: all writers own the images
of all stages, `single` (`deploy_automation`, which does not pass `owned_keys`) also the
gate and the sign-offs. `PromoteToProduction` is the check in the route, `Check` the one in
`promote_business_process`, `Record` the stamp of the release, `AutoUnfreeze` the thaw after
the commit. `history`, `cleared` and `lastWord` record what happened; `cleared` has the
images of each content that has passed the gate while it was fully signed off.

**SnapshotOps.** Data is named after the place it first came from. An operation saves
service by service (`Dump`), renames the snapshot into place, prunes and loads service by
service (`Load`), and may fail anywhere; `LoadFails` leaves a service dropped and not
loaded. `Restart` empties locks and coroutines and keeps disk and data.

**ProductionSlots, DriverApply.** A record has three slots, each wired to a database or
idle, the live slot and the live database; `Upstream` is the slot the compiler routes a host
to. An operation of gitops writes the record and pushes it in a step of its own, which it
may never reach; a promotion stages a slot, waits for that push to be applied, and makes the
slot live. The hook of a push (`Lock`, `Up`, `Create`, `Provision`, `Call`, `Retire`) works
on the record it carries, not on the newest. `Stale` is the comparison of configuration
hashes together with the gateways this apply created. The daemon serves the request by
itself (`Skip`, `Write`, `Record`, `List`, `Unroute`, `Forget`, `Answer`), the proxies
before the record (`half`), and goes on when the hook has timed out or its driver restarted.
`broken` and `warned` remember which slices had an apply die half way and a request that
lost a route or its hook: the properties say what they still claim of those.

**Relay.** Both ends of a link are apart (`farOpen`, `nearOpen`), the frames written and not
yet read are in `down`. `serving` and `stream` are the relay's handlers, `client` the
goroutine of `Client.Run`; `pending` and `back` are the handoff of a data connection, with
its time-out of 15 s. `cache` has the owner of a public host for as long as `Expire` has not
happened. The client keeps the token that `AskAOC` read for it, since `relayStarted` is
never reset and `Disconnect` does not end the client; `stale` says that the token has been
replaced since, by `Register` or `ReplaceToken`, and such a client may be refused any number
of times.

**ServerUpdate.** A row of the ledger is the number of the file that holds its binary. The
console's update and rollback hold `serverUpdateMu`; the `self-update` of the host holds
nothing. `Crash` kills what the daemon was doing, `Restart` is the one an update armed 1.2 s
before.

**Workspaces.** What docker, the ingress and the AOC hold is a set of pairs of a workspace
and a kind of thing; `Prefixed` and `Suffixed` are the only facts about names, used where
the code matches prefixes or parts. In `Init` a workspace is there, is gone, or has left the
sidecars and hosts that failed removals leave. Only gitops and what it deploys carry the
label that `SweepContainers` asks for; `strays` are the sidecars a removal has passed by
because no compose file names them. A removal lists the hosts (`cand`), reads the
directories (`seen`) and deletes the hosts one by one. `pc` has one label for each step of
`runWorkspaceInit`, `RunWorkspaceRemove` and the others; the background stop of a trash and
the reconciler (`HealCheck`, `HealStart`) go on beside them.

**Backups.** A snapshot carries the run that took it and the day. A run captures a tree and
then a dump per workspace and prunes; a recovery selects a tree and its dumps, puts the
present tree aside, restores, brings the site up and loads, and rolls back when that fails.
`TryReserve` is the flag they share. `uneven` are the workspaces of which some run has left
a tree without a dump or a dump without a tree, or has taken them on two days.

**ServerRecovery.** Tokens are numbered in the order the AOC issues them; it accepts the
last. A run of the command may `Fail` after any step and is run again, and resumes when the
stored token still works. The daemon it brought up takes backups, each with the token it had
when it began (`taken`).

**DeviceTrust.** A request's steps are the statements of its handler, and what it read
before is in its local record. `bought` says what a device was bought with, `approvals`
which codes somebody approved for which account, `dead` which links were replaced or revoked
before they were used. The handlers drop many errors and go on: a read that fails is one
that finds nothing (`Reads`), a row whose deletion fails stays (`Clears`). `excused` says
that a claim was recorded over another one, that an SSO mapping gave the root admin a lesser
role, or that one was set for the root admin by a request that could not read who that is.

## 3. The runs

| run | instance | what it shows |
|---|---|---|
| `git_queue` | 2 jobs, 2 leases and a nested one, history of 1 | a cancelled task never runs, a running one is never cancelled; the queue implements `GitTurn`; every task ends, every `acquire()` returns |
| `deploy_locks` | 2 deployments, 2 deploys of any kind, dev or live-dev | a running deploy keeps its locks; a settled entry is not lost; the table implements `Reservation`; locks of coroutines with a `finally` come back |
| `release_gate` | 2 members with an image each, 1 auditor, 2 writers at a time out of deploys of a part of dev, promotions, and rollbacks of staging and production | every member's image in production was let in with a fully signed-off content |
| `snapshots` | 2 stages, 1 service, 3 snapshots, 2 operations, 1 automatic snapshot kept | dumps and loads undisturbed, a rollback there, the source kept |
| `driver_apply` | 2 processes of a workspace, 2 operations, 2 pushes, 1 fault | live slot and standby; accepted hosts reach containers; a good apply is a whole one; siblings untouched |
| `relay` | 1 Bailey, 2 links, 1 stream, 1 public host, 2 faults, 2 moves | nothing leaked; the tunnel of a client with a good token comes back, streams are answered, moves are seen |
| `server_update` | 2 sessions, 1 shell, 2 versions, a ledger of 1, 2 saved files, 1 fault | rows have files; an update can be undone; the daemon comes to run what was installed |
| `workspaces` | `pr` and `pr-two`, each of them there, gone or left half removed; 2 calls, 1 fault | a removal leaves nothing but sidecars without a compose file, and takes nothing of a sibling it has seen but images |
| `backups` | 2 workspaces, an earlier run or none, 1 run, 1 change of day, 2 recoveries, 1 fault | selections stay; tree and dump are of one run; no torn tree in the repository but by a fault; own trees are kept |
| `server_recovery` | 3 workspaces, 5 attempts, 3 backups | no password spent in vain; success means a whole server |
| `device_trust` | 2 accounts and requests, 2 devices, codes and links, 1 backup code, 4 arrivals | pairing by approval only, one device for each link or code, a claimed server has an admin |
| `routed_container_retired` | 1 process, 1 promotion, 1 fault | violated: see below |

### Bounds, and why they are enough

* `git_queue`: five tasks outlive `HistoryCap` 1 (50 in the code), so records are trimmed
  while callers look for them and cleared ids are still queued.
* `deploy_locks`: two deployments are the fewest with which a reservation can be partial, a
  set can skip a member and a prune can retire a sibling. Each task is used once;
  interference is between one that awaits and one that acts.
* `release_gate`: two members give three contents, one under audit and others, so that a
  freeze can be stale or for the wrong one, and a promotion of one member can meet the
  left-over of the other. `MaxRequired` 1: the number is compared and never counted with.
  `Tasks` are slots, so sequences are unbounded.
* `snapshots`: `Keep` 1 (5 in the code) makes the second automatic snapshot prune the first;
  with `MaxSnaps` 3 a restore, its own snapshot before it and another operation meet. One
  service makes a dump a step, which the next operation may follow or precede; the lock
  covers all services alike.
* `driver_apply`: two operations and two pushes let a promotion meet a swap, a removal or a
  change of posture, and two hooks take the lock in either order. Two pushes end a promotion
  at its new record; the cut-over is then seen in `DoneMeansApplied` when the operations are
  applied by a later push. Also run without faults and with three pushes (2.7 million
  states), where the push after a promotion is applied.
* `relay`: a link is used again when gone, so two are a current and a replaced one, any
  number of times; two faults are a break during the repair of another. Two moves are a
  registration and the replacement of its token, or a public host that moves after one. With
  one Bailey a host moves from it to nobody or back; that it passes straight from one Bailey
  to another is in the model and not in the run.
* `server_update`: `Depth` 1 (the smallest window) makes every insertion prune. `MaxFiles` 2
  is an update and the rollback of it.
* `workspaces`: two calls are any pair, one after the other or at once; what earlier failed
  calls leave is in `Init`, so that two calls are enough for a creation over left-overs and
  its removal, or for the removal of one workspace while the other is created over its own.
  The pair of names is the hard one, one beginning with the other.
* `backups`: 1 daily and 2 monthly snapshots are kept and a month is a day, so that a run on
  the day of an earlier one drops it, and one on the next day leaves it to the monthly rule;
  two recoveries are one and the retry of it, in one workspace or two.
* `server_recovery`: three workspaces are needed for a manifest that names some but not all
  of those left; five attempts for a failure at each of them and a resumption.
* `device_trust`: two of each row; four arrivals are the steps of a mint, an approval, a
  second mint and a claim. Also run with five.

Symmetry is used over values that nothing but their name tells apart, and never with
liveness. `CHECK_DEADLOCK FALSE` is set where the system may stop: when all tasks are done,
or where operations, faults or attempts reach their bound.

### Fairness

`GitQueue`: the worker, each poll and each leaving. The event loop starves no ready task,
the poll is a 50 ms sleep, and a git section is a subprocess that ends. `DeployLocks`: each
coroutine and each build, for the same reasons. `Relay`: goroutines run, timers fire, dials
and the AOC answer or refuse, the refusals of a good token being among the bounded faults;
nothing is assumed of browsers, operators and faults, which are bounded, so that they end.
`ServerUpdate`: each step of an operation that has begun and the restart it armed: that
docker then restarts the daemon is assumed, for the code drops the error of that command.
Nobody has to submit, start or clear anything. A caller of the git queue ends by its own
means only: that a request is cancelled from outside while it waits is not modelled. The
other models have safety properties only: what they would have to come to depends on
somebody running a command again.

### What the violated run says

`routed_container_retired`: the daemon turns a route that it cannot write into a warning and
answers 200; the driver looks at the status only and goes on to retire the old slot, which
the production host still reaches. The comment of `retireOrphanedContainers` says that a
removed container is never one a route still points at, and the step before it that a
missing route must surface. `NeverDangling` is what holds: not so for a slice of which a
route was given up.

### Behaviours of the code the models contain and no run states

* A build that outlives its failed deploy runs beside a new deploy of the same deployment; a
  `set` or `agent` deploy that is cleared out of the git queue keeps its locks.
* A verdict that is recorded under a `single` deploy is lost with the file it read; a
  rejection between the gate's check and the write does not stop a release.
* After a rollback of staging to fewer members a promotion leaves the others in production:
  each member's image there was signed off with some content, the mixture with none.
* A deploy that read `bitswan.yaml`, or enumerated the scope, before another one entered an
  automation writes the file without it.
* The relay's client keeps its first token: when the server has been registered again, or
  has got new credentials, a broken tunnel may be refused until the daemon restarts, against
  `reconnecting on drop` (`client.go:68`).
* The containers of the dashboard, the coding agent and the driver have no label, against
  `Every container the workspace ever ran carries gitops.workspace`
  (`workspace_remove.go:158-161`). A sidecar that one removal could not take down survives
  the next if a creation in between came as far as the deployment directory, and keeps the
  agent's network.
* A removal lists hosts, reads directories and deletes: the hosts of a sibling that is
  created anew in between, over those it had left, are deleted.
* Where a run saved the dump of a workspace and not its tree, a recovery takes that dump for
  the tree of an earlier run and warns of nothing, against `the dump captured by the SAME
  run` and `must not mix` (`recover_select.go:16,79-80`).
* A claim may be recorded over another one, by two first users at once or since a failed
  read finds no root admin (against `mfa_claim.go:144-147`); a failed read lets a role be
  set for the root admin (against `bailey_people.go:183-184`), and so does an SSO mapping
  (`bailey_people.go:87`).
* An account that trusts itself by an authenticator, a backup code or an approved code
  before anybody has claimed the server closes the claim, and there is no admin.
* A restore from the oldest automatic snapshot of its own stage prunes that snapshot; a swap
  during a DR restore makes it load into the live database, against
  `routes/snapshots.py:182-184`. After a restore that failed, retries may prune the snapshot
  taken before it.
* A removal of workspace images takes those of a workspace whose name begins with its own.
* The prune of routes finds its own by a pattern of the workspace's name and the name of the
  process, so that of `pr` reaches like-named processes of `pr-two`.
* A swap changes the environment and the labels of both slots' containers and so re-creates
  the one that serves; an older push applied after a newer one holds until the next.
* Containers left in the namespace of a gateway that is gone, or without certificates, are
  not repaired by a later apply.
* A failed promotion leaves its slot wired, and no slot is idle for the next.
* A resumed server recovery may find the lost server's token restored over its own.

Each is listed as a hazard in `PROJECT.json`, with its line.

## 4. The proofs

All theorems are for any sets and any bounds; the assumptions on constants are the named
`ASSUME`s of the modules. A module of proofs may be about two components: their identifiers
are then distinct (`QueueSpec`, `RelaySpec`, `RecoverySpec`).

**Gitops_proofs, the queue.** `QueueInv` is `QueueTypeOK` with `OneRunning`, `LiveKnown`,
`QueuedHasFn`, `FnNotStarted`, `CancelledStatus`, `QueuedInQueue` (the four places of a task
agree), `NestedInv` and `LeaseInv` (where a lease's coroutine can be, given its events).
Exclusion alone is not inductive: it needs that a grant is given once, hence that no task
starts twice, hence that its function was popped. From it `Exclusion`, `NeverOrphaned`,
`NeverLost`, `ClearedForGood`. `QueueIsALine` is the refinement of `GitTurn`, a step of the
code to a step of the line or a stutter. It needs `LineInv`: the `asyncio.Queue`, with the
cleared ids that are still in it, is the end of the order of creation, and nothing before
that end still waits; so the task that the worker takes is the head of the line, although
the trimmed records are no longer there to tell.

**Gitops_proofs, the locks.** `IInv`: owners are deploys started with that member; a running
deploy holds its members and is tracked; a finished task has no running coroutine, which
keeps the clean-up away; a filtered deploy does not prune. From it `TypeCorrect`,
`RunnersAlwaysHold`, `RunningNeverForgotten`, `OnlyNetlessLeak`, `NetsNeverLeak` (with
`Kinds` within `SafetyNet`), and `Refinement`: every step of the table is a reservation, a
release of exactly what a task holds, or a stutter. `SettledNeverLost`
(`SettledKeepsItsEntry`) needs `SettledOK` beside it: no deploy under way overlooks a
settled entry, neither with the scope it has enumerated nor with the file it has read. A
deploy that starts later enumerates a source that has the automation, and whoever reads the
file later finds the entry.

**SnapshotOps_proofs.** The argument is ownership: `LocksHeld` (a stage is locked by exactly
the operation that touches it) and what an operation relies on in each phase (`Selected`,
`Saved`, `Copied`, `Delivered`), all of it in places and snapshots of stages it holds, which
no other operation, deletion or prune can reach. From it `TypeCorrect`,
`NobodyEverInterferes`, `AlwaysCanRollBack`, `SourceAlwaysKept`, and two that no run states:
`SuccessIsWhole` (what is loaded at the end is one snapshot, for any number of services) and
`StagesReserved`: until a restart empties the table, these locks are an implementation of
`Reservation` too.

**ReleaseGate_proofs.** `TypeCorrect` and `OnlyAdmitted` for every mix of writers: the
strengthening (`Traced`) follows the images of production through its history, through what
a writer has read, and through what one carries to production, until they are written; what
is updated in place and what is left over are both cleared. `LatestVerdict` supposes that no
`single` deploy runs.

**Server_proofs, the update.** `TypeCorrect`, with the mutual exclusion of the console's
sessions in it. `LedgerSound` proves `RowsHaveFiles` from what a session at each label
knows: its new file is there before the row, and the doomed rows are gone before the files.
`AlwaysReversible` proves `Reversible` from `Undoable`: the session that holds the lock
carries the binary it has replaced from the swap to its file and its row, and the prune of
its own insertion leaves the newest row.

**Server_proofs, the recovery.** `RecoveryInv` ties the phase to what is on the volume and
to the token, and a manifest that no half-way backup has made to all the workspaces. From it
`RecoveryTyped`, `TokenLives`, `KeyComesFirst` (`NothingSpentInVain`) and `SuccessIsWhole`
(`DoneMeansWhole`).

**Daemon_proofs, the workspaces.** `WInv`: a call that nobody has disturbed (`clean`) is
alone with its workspace, and what its removal is past is gone, or among the `strays` it has
noted, and cannot come back, since every step that makes something is one of a call on that
workspace, or of a stop or a reconcile, which `clean` gives up; until they are deleted the
hosts of the workspace are among the listed ones. From it `WorkspacesTyped` and
`RemovalIsWhole`. `SiblingsAlwaysKept` needs its other part, `Listed`: what a removal is
about to delete belongs to it or to a workspace it has not seen, from the reading of the
directories to the last deletion. `NamesAssumption` says that two names cannot each begin
with the other.

**Daemon_proofs, the relay.** `RelayInv`: a stream's handler, its entry in `Server.pending`
and the data connection that claimed it go together (`FlowSound`), so that whoever takes the
entry out has somebody to deliver to. From it `RelayTyped` and `NobodyEverStranded`.

**Backups_proofs.** `Inductive`: one user of the engine at a time, selections within the
repository, a tree that a recovery is laying has the own one aside, and the two series of an
even workspace have the same runs and days, but for the tree of the present run until its
dump is taken. Retention looks at numbers and days alone, so it keeps or drops the two
alike, and a recovery finds the dump of the tree's own run. From it `TypeCorrect`,
`PointStays`, `DumpMatchesTree`, `SnapshotsWhole`, `OwnTreeSurvives`.

**DeviceTrust_proofs.** `TypeCorrect` and `NobodyUnapproved` from `TInv` and `PInv` (what a
request carries between its statements: the code it read was approved when it says so);
`BoughtOnce` from `SInv` (one holder of a proof, fresh numbers, dead links unused, a request
that burnt a link is the only one); `AlwaysAnAdmin` from `RInv`: before the claim nobody
hands out roles, and a device is trusted only by what its account has proved itself
(`EarlyOnly`, which makes `Early` true of it); afterwards, unless `excused`, the root admin
has the role of an admin or none, and no request is about to give it another (`RootKeeps`).

**DriverApply_proofs.** `TypeCorrect`, where what matters is that the upstream of a host is
a declared slot. `AlwaysAStandby` (`SlotsSound`): alone it is not inductive, since a
promotion ends on a record that swaps have changed since; what is needed is that no slot is
idle while a promotion is on its way and that the slots other than its own are wired to the
two databases. `SiblingsApart` (`SiblingsUntouched`, from `CInv`): a request only has places
of its own slice left, for which `NamesAssumption` and `Begins = {}` are needed at `List`,
and there is no request of a push still to be made.

`RoutesNeverDangle` (`NeverDangling`) and `EndsApplied` (`DoneMeansApplied`) rest on two
layers. `BInv` is about the hooks: the one that holds the lock of the workspace is the only
one at work, what it has brought up stays up until it ends, and a container without
namespace or certificates is on its own list (`Whole`), unless an apply of the slice has
died. `RInv` adds the routes, for slices of which no request was given up: a request is
served while its hook waits, so there is one at a time; what it has left, half done and done
(`Upserting`, `Pruning`) agrees with the record it carries; and `Noted` says that the marks
and the recorded upstreams tell the truth about the proxies but for the one host that is
half done. That is what `Skip` and `List` rely on when they ask the record and not the
proxies. Both theorems have their statement about routes under `Begins = {}`. With two
workspaces of which one name begins with the other it does not hold: a request of `pr` that
has taken a host of `pr-two` off the proxies takes its mark away after `pr-two`'s own
request has written and marked it anew; the removal of that process then does not list the
host, and retires the container it still reaches (TLC finds this with one removal and four
pushes).

**Only model-checked.** Liveness under fairness, which the prover does not do:
`EverySubmittedEnds`, `EveryAcquireReturns`, `LocksComeBack`, `TunnelComesBack`,
`StreamsAnswered`, `MovesAreSeen`, `DaemonCatchesUp`. Every invariant, action property and
refinement of a passing run is proved.

## 5. Not modelled

| part | why |
|---|---|
| Requirement test runs | verdicts depend on what processes print; the run table has one writer |
| Deletion of processes and copies | steps over docker, git and files with little shared state beyond the git turn |
| Memory governance, live-dev pool and wake-on-access | not reached yet; see the first item of what is next |
| Workspace mirror | a timer before the queue |
| Copies and source control | git commands, whose effects are git's |
| Events and watchers | nothing depends on an event being delivered |
| Images, supply chain, firewall, secrets, templates, data services | calls to outside tools with little state of their own |
| Daemon jobs | one goroutine a job over buffered channels; effects are those of the command it runs |
| Egress gateway, AOC client | I/O |
| Coding agent, dashboard, console | callers of the routes; the agent's deploy is in `DeployLocks` |
| End-to-end tests and docs | read for what they say of the code |

Of the modelled components, what is left out: in `GitQueue` the rebinding to another event
loop and the worker dying with its loop; in `DeployLocks` the building of images and the
contents of an entry; in `ReleaseGate` roles, secrets, firewall rules and the cap of 200 on
`released_shas`; in `SnapshotOps` formats, services that are not available and the deploy
check before a reservation; in `DriverApply` the other stages, shared services, object
stores, versions pinned on a slot, manual routes, certificates of the proxies, and the stop
of a deleted deployment's containers ahead of the apply that removes them; in `Workspaces`
the automations-only variants, certificates and `/etc/hosts`; in `Backups` restores of a
single file or database and restic itself; in `ServerRecovery` the ingress and DNS phases
and the `--skip` options; in `DeviceTrust` enrolling an authenticator, attempt throttles,
sessions, magic links and renaming.

## 6. What is next

1. `Hydration`: the daemon's sweep plans evictions on an inventory that may be 30 s old
   (`memory.go`), gitops marks the victims inactive and removes their containers outside the
   lock of the workspace (`_evict_instance_deployment`), the live-dev cap does the same on a
   list it read before its first await, and a visit wakes the whole group by an apply
   (`livedev_wake.go`, `wake_live_dev`). Worth stating: nothing always-on is put to sleep,
   also when its policy has changed since the inventory; a group is never left half asleep
   once it is visited; a host that is visited often enough answers; and what a deploy of a
   sleeping group does, whose entries keep `active: false` (`write_deployment_entries`).
2. Abstract specifications for the other components, with refinements proved like that of
   `GitTurn`: a stage that is replaced from one snapshot in one step (`SnapshotOps`), a
   workspace that is there or not (`Workspaces`), a handoff of one connection (`Relay`).
3. The lemmas on which the liveness properties rest, as safety theorems: what is enabled for
   a waiting coroutine in `GitQueue` and `DeployLocks`, and for a stream in `Relay`.
4. `BpDelete` (guard, queued steps, retry) and `TestRuns` (supersession and the deploy gate)
   as modules of their own.
5. `DeployLocks` and `SnapshotOps` composed, where a deploy starts under a restore.
