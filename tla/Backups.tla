------------------------------ MODULE Backups -------------------------------
(***************************************************************************)
(* The nightly backups of the automation server and the recovery of a      *)
(* workspace from them.  A run of the engine takes, for each workspace,    *)
(* first a snapshot of its file tree and then a dump of its databases, and *)
(* ends by pruning every series of snapshots by itself.  A recovery picks  *)
(* a file snapshot and the dumps that belong to it, puts the present tree  *)
(* aside, restores another in its place, brings the containers up and      *)
(* loads the dumps.  Runs and recoveries share one flag of the engine; a   *)
(* restart of the daemon forgets it.                                       *)
(*                                                                         *)
(* A workspace has one series of dumps here: the code treats each service  *)
(* of each stage in the same way.  Snapshots carry the number of the run   *)
(* that took them in place of their time: runs do not overlap, and within  *)
(* a run the tree comes before the dumps.                                  *)
(***************************************************************************)
EXTENDS Integers, FiniteSets

CONSTANTS
  Ws,          \* workspaces
  Daily,       \* days of which a series keeps the newest snapshot
  Monthly,     \* months of which it does
  MonthDays,   \* bound: days of a month
  MaxRuns,     \* bound: runs begun
  MaxDays,     \* bound: days that pass
  MaxRecovers, \* bound: recoveries begun
  MaxFaults    \* bound: restarts of the daemon and rollbacks that fail

ASSUME BoundsAssumption ==
  /\ Daily \in Nat /\ Monthly \in Nat /\ MonthDays \in Nat \ {0}
  /\ MaxRuns \in Nat /\ MaxDays \in Nat /\ MaxRecovers \in Nat /\ MaxFaults \in Nat

\* "own" is the tree a workspace was built with, the others come of recoveries.
Trees   == {"absent", "own", "restored", "placeholder", "partial"}
HalfWay == {"placeholder", "partial"}
Kinds   == {"files", "dump"}
Phases  == {"idle", "dry", "select", "stop", "files", "placeholder", "restore",
            "restoring", "verify", "site", "apply", "data", "done"}

VARIABLES
  repo,      \* snapshots of the repository
  day, runs, \* the present day, and runs begun
  uneven,    \* workspaces of which a run has left a tree or a dump without the other
  running,   \* the engine is taken, by a run or by a recovery
  run,       \* "idle", "list", "capture" or "retain"
  todo,      \* what the run has left to capture, pairs of workspace and kind
  tree,      \* the tree at the path of each workspace
  aside,     \* trees kept under pre-recover
  mine,      \* the tree the recovery under way put there
  up,        \* workspaces whose database container runs
  rec,       \* the phase of each workspace's recovery
  sel,       \* the snapshots it selected
  ok,        \* no step of it failed
  recovers, faults

past   == <<day, uneven>>
engine == <<running, run, todo, runs>>
disk   == <<tree, aside, mine>>
report == <<sel, ok>>
counts == <<recovers, faults>>
vars   == <<repo, past, engine, disk, up, rec, report, counts>>

Series(w, kind) == {s \in repo : s.ws = w /\ s.kind = kind}
Newest(S)       == {s \in S : \A t \in S : t.run <= s.run}

\* A server some of whose workspaces exist, with an empty repository or with one
\* that holds a run, number 0, over all of them.
Init ==
  /\ repo \in {{}, [ws : Ws, kind : Kinds, run : {0}, day : {0}, torn : {FALSE}]}
  /\ day = 0 /\ runs = 0 /\ uneven = {} /\ running = FALSE
  /\ run = "idle" /\ todo = {}
  /\ tree \in [Ws -> {"absent", "own"}]
  /\ aside = [w \in Ws |-> {}] /\ mine = [w \in Ws |-> "absent"]
  /\ up = {w \in Ws : tree[w] = "own"}
  /\ rec = [w \in Ws |-> "idle"] /\ sel = [w \in Ws |-> {}]
  /\ ok = [w \in Ws |-> TRUE] /\ recovers = 0 /\ faults = 0

-----------------------------------------------------------------------------
(* A run of the engine *)

\* Also the catch-up and a run by hand; while the engine is taken it is refused.
RunBegin ==
  /\ ~running /\ runs < MaxRuns
  /\ running' = TRUE /\ runs' = runs + 1 /\ run' = "list"
  /\ UNCHANGED <<repo, past, todo, disk, up, rec, report, counts>>

RunEnds ==
  /\ run' = "idle" /\ running' = FALSE
  /\ UNCHANGED <<past, runs, todo, disk, up, rec, report, counts>>

\* Backups not runnable, or the target, the key or the list cannot be read.
RunRefused == run = "list" /\ RunEnds /\ UNCHANGED repo

RunList ==
  /\ run = "list" /\ run' = "capture"
  /\ todo' = {w \in Ws : tree[w] # "absent"} \X Kinds
  /\ UNCHANGED <<repo, past, running, runs, disk, up, rec, report, counts>>

\* One workspace after the other, and its files before its dump.
Capture(w, kind) ==
  /\ run = "capture" /\ <<w, kind>> \in todo /\ todo' = todo \ {<<w, kind>>}
  /\ \A v \in Ws \ {w} : <<v, "dump">> \in todo => <<v, "files">> \in todo
  /\ kind = "dump" => <<w, "files">> \notin todo
  /\ UNCHANGED <<day, running, run, runs, disk, up, rec, report, counts>>

Snap(w, kind, torn) ==
  [ws |-> w, kind |-> kind, run |-> runs, day |-> day, torn |-> torn]

\* A step that fails, for whatever reason, leaves no snapshot and the run goes on.
RunFiles(w) ==
  /\ Capture(w, "files") /\ UNCHANGED uneven
  /\ \/ repo' = repo
     \/ tree[w] # "absent" /\ repo' = repo \cup {Snap(w, "files", tree[w] \in HalfWay)}

\* The days of what the present run has saved, of the trees or the dumps of w.
Saved(w, kind, snaps) ==
  {s.day : s \in {t \in snaps : t.ws = w /\ t.kind = kind /\ t.run = runs}}
Lopsided(snaps) == {w \in Ws : Saved(w, "files", snaps) # Saved(w, "dump", snaps)}

\* A database container that is down is a warning, and no snapshot either.
RunDump(w) ==
  /\ Capture(w, "dump")
  /\ \/ repo' = repo
     \/ w \in up /\ repo' = repo \cup {Snap(w, "dump", FALSE)}
  /\ uneven' = uneven \cup ({w} \cap Lopsided(repo'))

\* The server's own state is saved last; no recovery of a workspace reads it.
RunServerState ==
  /\ run = "capture" /\ todo = {} /\ run' = "retain"
  /\ UNCHANGED <<repo, past, running, runs, todo, disk, up, rec, report, counts>>

Month(s) == s.day \div MonthDays
RunsAfter(S, s)   == {t.run : t \in {u \in S : u.run > s.run}}
KeepLast(S, n)    == {s \in S : Cardinality(RunsAfter(S, s)) < n}
NewestPerDay(S)   == {s \in S : \A t \in S : t.day = s.day => t.run <= s.run}
NewestPerMonth(S) == {s \in S : \A t \in S : Month(t) = Month(s) => t.run <= s.run}

\* restic forget, with a group for each tag set.
Retained == UNION {
  KeepLast(NewestPerDay(Series(w, k)), Daily)
    \cup KeepLast(NewestPerMonth(Series(w, k)), Monthly) : w \in Ws, k \in Kinds}

RunRetain == run = "retain" /\ RunEnds /\ repo' \in {repo, Retained}

-----------------------------------------------------------------------------
(* Choosing a recovery point *)

LaterTrees(f) == {g \in Series(f.ws, "files") : g.run > f.run}

BugWindow(f) == {d \in Series(f.ws, "dump") : d.run >= f.run}
BugAnyTag(f) == {d \in repo : /\ d.kind = "dump" /\ d.run >= f.run
                              /\ \A g \in LaterTrees(f) : d.run < g.run}
Window(f) == {d \in Series(f.ws, "dump") :
  d.run >= f.run /\ \A g \in LaterTrees(f) : d.run < g.run}

Older(f) == {d \in Series(f.ws, "dump") : d.run < f.run}

\* The dump of the window, else an older one, with a warning, else none.
PickDump(f) == IF Window(f) # {} THEN Newest(Window(f)) ELSE Newest(Older(f))

-----------------------------------------------------------------------------
(* A recovery *)

At(w, phase) == rec[w] = phase
Go(w, phase) == rec' = [rec EXCEPT ![w] = phase]

\* The operator forced it if the workspace exists.
RecoverBegin(w) ==
  /\ At(w, "idle") /\ ~running /\ recovers < MaxRecovers
  /\ recovers' = recovers + 1 /\ Go(w, "select") /\ running' = TRUE
  /\ ok' = [ok EXCEPT ![w] = TRUE] /\ mine' = [mine EXCEPT ![w] = "absent"]
  /\ UNCHANGED <<repo, past, run, todo, runs, tree, aside, up, sel, faults>>

\* A dry run does not reserve the engine.
DryBegin(w) ==
  /\ At(w, "idle") /\ recovers < MaxRecovers
  /\ recovers' = recovers + 1 /\ Go(w, "dry")
  /\ UNCHANGED <<repo, past, engine, disk, up, report, faults>>

BugDryEnd(w) ==
  /\ At(w, "dry") /\ Go(w, "idle") /\ running' = FALSE
  /\ UNCHANGED <<repo, past, run, todo, runs, disk, up, report, counts>>
DryEnd(w) ==
  /\ At(w, "dry") /\ Go(w, "idle")
  /\ UNCHANGED <<repo, past, engine, disk, up, report, counts>>

\* The handler's deferred calls.
Release(w) ==
  /\ Go(w, "idle") /\ running' = FALSE /\ sel' = [sel EXCEPT ![w] = {}]
  /\ UNCHANGED <<repo, past, run, todo, runs, recovers>>

\* The newest file snapshot, or the one the operator names; --skip-containers
\* leaves nothing but the data to do.
Select(w) ==
  /\ At(w, "select")
  /\ \E f \in Series(w, "files") : sel' = [sel EXCEPT ![w] = {f} \cup PickDump(f)]
  /\ \E phase \in {"stop", "data"} : Go(w, phase)
  /\ UNCHANGED <<repo, past, engine, disk, up, ok, counts>>

SelectFails(w) == At(w, "select") /\ Release(w) /\ UNCHANGED <<disk, up, ok, faults>>

\* A container that cannot be stopped is a failed step, and the recovery goes on;
\* --skip-files leaves the tree.
Stop(w) ==
  /\ At(w, "stop") /\ \E phase \in {"files", "site"} : Go(w, phase)
  /\ \/ up' = up \ {w} /\ ok' = ok
     \/ up' \in {up, up \ {w}} /\ ok' = [ok EXCEPT ![w] = FALSE]
  /\ UNCHANGED <<repo, past, engine, disk, sel, counts>>

\* The tree is renamed away ...
PutAside(w) ==
  /\ At(w, "files")
  /\ IF tree[w] = "absent" THEN Go(w, "restore") /\ UNCHANGED disk
     ELSE /\ Go(w, "placeholder")
          /\ aside' = [aside EXCEPT ![w] = @ \cup {tree[w]}]
          /\ mine' = [mine EXCEPT ![w] = tree[w]]
          /\ tree' = [tree EXCEPT ![w] = "absent"]
  /\ UNCHANGED <<repo, past, engine, up, report, counts>>

AsideFails(w) == At(w, "files") /\ Release(w) /\ UNCHANGED <<disk, up, ok, faults>>

\* The steps that change what is at the workspace's path and go on.
Lays(w, there, phase) ==
  /\ tree' = [tree EXCEPT ![w] = there] /\ Go(w, phase)
  /\ UNCHANGED <<repo, past, engine, aside, mine, up, report, counts>>

\* ... and a directory with the old metadata.yaml takes its place, if it can be made.
PutPlaceholder(w) ==
  /\ At(w, "placeholder")
  /\ \E there \in {"placeholder", "absent"} : Lays(w, there, "restore")

RestoreTree(w) == At(w, "restore") /\ Lays(w, "partial", "restoring")

Torn(w) == \E s \in sel[w] : s.torn

RestoreEnds(w) ==
  /\ At(w, "restoring")
  /\ Lays(w, IF Torn(w) THEN "partial" ELSE "restored", "verify")

BugPutBack(w) ==
  /\ mine[w] # "absent"
       => /\ tree' = [tree EXCEPT ![w] = mine[w]]
          /\ aside' = [aside EXCEPT ![w] = @ \ {mine[w]}]
  /\ mine[w] = "absent" => UNCHANGED <<tree, aside>>
  /\ UNCHANGED <<mine, faults>>
\* rollbackQuarantine: what is at the path goes, what was put aside returns.
PutBack(w) ==
  /\ tree' = [tree EXCEPT ![w] = mine[w]]
  /\ aside' = [aside EXCEPT ![w] = @ \ {mine[w]}]
  /\ UNCHANGED <<mine, faults>>

\* The path cannot be cleared, or is and the tree cannot be renamed back to it.
PutBackFails(w) ==
  /\ faults < MaxFaults /\ faults' = faults + 1
  /\ \E left \in {tree[w], "absent"} : tree' = [tree EXCEPT ![w] = left]
  /\ UNCHANGED <<aside, mine>>

\* The restore fails, or the tree it made lacks what a workspace needs.
GiveUp(w) ==
  /\ rec[w] \in {"restore", "restoring", "verify"} /\ Release(w)
  /\ PutBack(w) \/ PutBackFails(w)
  /\ UNCHANGED <<up, ok>>

Verify(w) ==
  /\ At(w, "verify") /\ Go(w, "site")
  /\ UNCHANGED <<repo, past, engine, disk, up, report, counts>>

\* Compose brings gitops and the driver up and gitops answers.
SiteUp(w) ==
  /\ At(w, "site") /\ Go(w, "apply") /\ tree[w] # "absent"
  /\ UNCHANGED <<repo, past, engine, disk, up, report, counts>>

SiteFails(w) == At(w, "site") /\ Release(w) /\ UNCHANGED <<disk, up, ok, faults>>

\* The sidecars, the sub-traefik and the apply: what fails is noted.
Apply(w) ==
  /\ At(w, "apply") /\ Go(w, "data")
  /\ \/ up' = up \cup {w} /\ ok' = ok
     \/ up' \in {up, up \cup {w}} /\ ok' = [ok EXCEPT ![w] = FALSE]
  /\ UNCHANGED <<repo, past, engine, disk, sel, counts>>

\* The dump is loaded, if there is one and its container runs.
LoadData(w) ==
  /\ At(w, "data") /\ Go(w, "done")
  /\ \/ ok' = [ok EXCEPT ![w] = FALSE]
     \/ ok' = ok /\ (w \in up \/ \A s \in sel[w] : s.kind # "dump")
  /\ UNCHANGED <<repo, past, engine, disk, up, sel, counts>>

BugDiscards(w) == mine[w] # "absent"
\* The tree put aside may be discarded once every step has succeeded.
Discards(w) == ok[w] /\ mine[w] # "absent"

RecoverEnds(w) ==
  /\ At(w, "done") /\ Release(w)
  /\ \/ aside' = aside
     \/ Discards(w) /\ aside' = [aside EXCEPT ![w] = @ \ {mine[w]}]
  /\ UNCHANGED <<tree, mine, up, ok, faults>>

-----------------------------------------------------------------------------
(* The world around *)

NextDay ==
  /\ day < MaxDays /\ day' = day + 1
  /\ UNCHANGED <<repo, uneven, engine, disk, up, rec, report, counts>>

\* Somebody stops or starts the database container of a workspace.
Flip(w) ==
  /\ At(w, "idle") /\ tree[w] \notin {"absent", "placeholder"}
  /\ up' = IF w \in up THEN up \ {w} ELSE up \cup {w}
  /\ UNCHANGED <<repo, past, engine, disk, rec, report, counts>>

\* The daemon restarts and forgets the run, the recoveries and who had the engine.
Restart ==
  /\ faults < MaxFaults /\ faults' = faults + 1
  /\ running' = FALSE /\ run' = "idle" /\ todo' = {}
  /\ rec' = [w \in Ws |-> "idle"] /\ sel' = [w \in Ws |-> {}]
  /\ uneven' = uneven \cup (IF run = "capture" THEN Lopsided(repo) ELSE {})
  /\ UNCHANGED <<repo, day, runs, disk, up, ok, recovers>>

RunStep ==
  \/ RunBegin \/ RunRefused \/ RunList \/ RunServerState \/ RunRetain
  \/ \E w \in Ws : RunFiles(w) \/ RunDump(w)

RecoverStep(w) ==
  \/ RecoverBegin(w) \/ DryBegin(w) \/ DryEnd(w) \/ Select(w) \/ SelectFails(w)
  \/ Stop(w) \/ PutAside(w) \/ AsideFails(w) \/ PutPlaceholder(w) \/ RestoreTree(w)
  \/ RestoreEnds(w) \/ GiveUp(w) \/ Verify(w) \/ SiteUp(w) \/ SiteFails(w)
  \/ Apply(w) \/ LoadData(w) \/ RecoverEnds(w)

Next == RunStep \/ NextDay \/ Restart \/ \E w \in Ws : RecoverStep(w) \/ Flip(w)

Spec == Init /\ [][Next]_vars

-----------------------------------------------------------------------------
(* Properties *)

SnapshotsOf(w) == [ws : {w}, kind : Kinds, run : 0 .. MaxRuns, day : 0 .. MaxDays,
                   torn : BOOLEAN]

\* What the variables hold; a recovery selects snapshots of its own workspace
\* (seriesTag: one tag list that every snapshot of the series must carry).
TypeOK ==
  /\ repo \subseteq UNION {SnapshotsOf(w) : w \in Ws}
  /\ day \in 0 .. MaxDays /\ runs \in 0 .. MaxRuns /\ uneven \subseteq Ws
  /\ running \in BOOLEAN
  /\ run \in {"idle", "list", "capture", "retain"} /\ todo \subseteq Ws \X Kinds
  /\ tree \in [Ws -> Trees] /\ mine \in [Ws -> Trees] /\ aside \in [Ws -> SUBSET Trees]
  /\ up \subseteq Ws /\ rec \in [Ws -> Phases]
  /\ ok \in [Ws -> BOOLEAN]
  /\ recovers \in 0 .. MaxRecovers /\ faults \in 0 .. MaxFaults
  /\ DOMAIN sel = Ws /\ \A w \in Ws : sel[w] \subseteq SnapshotsOf(w)

\* What a recovery selected is there until it ends: no run prunes the repository
\* while a recovery has the engine, whatever dry runs come and go (TryReserve).
SelectedStays == \A w \in Ws : sel[w] \subseteq repo

\* A recovery takes a tree and the dump of one run, however the two series were pruned
\* and whoever else used the engine (SelectSnapshotSet: 'the dump captured by the SAME
\* run').  Excepted are workspaces of which a run has left the one without the other -
\* a step failed, the database was down, the daemon restarted - or has taken them on
\* two days, by which restic prunes them apart: there pickDump takes the dump of a run
\* that saved no tree for that of the tree before, also beside its own, and warns of
\* older dumps only.
SameRun ==
  \A w \in Ws \ uneven : \A s \in sel[w] :
    {<<t.kind, t.run>> : t \in sel[w]} = Kinds \X {s.run}

\* A run captures a tree that a recovery has not finished only if the daemon was
\* restarted within the recovery or its rollback failed: a recovery keeps runs out
\* and leaves no half-restored tree behind (TryReserve, rollbackQuarantine).
TornOnlyByFault == (\E s \in repo : s.torn) => faults > 0

\* The tree a workspace was built with is at its path or under pre-recover, and is
\* given up by nothing but a recovery all of whose steps have succeeded, through
\* failed restores, failed rollbacks, restarts and retries (quarantineWorkspaceTree).
HasOwn(w)   == tree[w] = "own" \/ "own" \in aside[w]
KeepsOwn(w) == HasOwn(w) /\ ~HasOwn(w)' => At(w, "done") /\ ok[w]
OwnTreeKept == [][\A w \in Ws : KeepsOwn(w)]_vars

=============================================================================
