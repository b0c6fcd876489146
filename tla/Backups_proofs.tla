--------------------------- MODULE Backups_proofs ---------------------------
(***************************************************************************)
(* Proofs about backups and recoveries, for any set of workspaces, any     *)
(* retention policy and any number of runs, days, recoveries and faults.   *)
(***************************************************************************)
EXTENDS Backups, TLAPS

(***************************************************************************)
(* The flag of the engine is worth something because each of its users     *)
(* gives back only what it has taken: a dry run, which has taken nothing,  *)
(* gives nothing back, and a restart ends every user along with the flag.  *)
(* So runs and recoveries exclude each other, and the repository does not  *)
(* change between the choice of a recovery point and its use.              *)
(***************************************************************************)
Holds(w) == rec[w] \notin {"idle", "dry"}

Exclusive ==
  /\ run # "idle" => running
  /\ \A w \in Ws : Holds(w) => running /\ run = "idle"
  /\ \A v, w \in Ws : Holds(v) /\ Holds(w) => v = w

Selections ==
  \A w \in Ws : /\ ~Holds(w) => sel[w] = {}
                /\ sel[w] \subseteq repo

\* A tree that is not whole is at its path only while a restore writes it.
Rebuilding == {"restore", "restoring"}
WholeUnlessFault ==
  faults = 0 =>
    /\ \A s \in repo : ~s.torn
    /\ \A w \in Ws : /\ tree[w] \in HalfWay => rec[w] \in Rebuilding
                     /\ Holds(w) => mine[w] \notin HalfWay

\* From the moment it is put aside the tree a workspace had is not at its path.
OwnIsAside ==
  \A w \in Ws : rec[w] \in {"placeholder", "restore", "restoring", "verify"}
                  => tree[w] # "own"

(***************************************************************************)
(* The trees and the dumps of a workspace are two series of the repository *)
(* that know nothing of each other.  They stay alike because a run adds to *)
(* both or to none, unless it leaves the workspace uneven, and because     *)
(* retention looks at nothing but the numbers and the days.  Only within a *)
(* run, between the tree and the dump of a workspace, does one lag behind; *)
(* no recovery can choose then.                                            *)
(***************************************************************************)
Covers(S, T) == \A s \in S : \E t \in T : t.run = s.run /\ t.day = s.day
Alike(S, T)  == Covers(S, T) /\ Covers(T, S)

Between(w) == run = "capture" /\ <<w, "files">> \notin todo /\ <<w, "dump">> \in todo

Earlier(w, kind) == {s \in Series(w, kind) : s.run # runs}

EvenUnlessMissed ==
  \A w \in Ws \ uneven :
    IF Between(w) THEN Alike(Earlier(w, "files"), Earlier(w, "dump"))
    ELSE Alike(Series(w, "files"), Series(w, "dump"))

FilesFirst ==
  run = "capture" => \A w \in Ws : <<w, "files">> \in todo => <<w, "dump">> \in todo

IInv == /\ TypeOK
        /\ Exclusive
        /\ Selections
        /\ WholeUnlessFault
        /\ OwnIsAside
        /\ FilesFirst
        /\ EvenUnlessMissed
        /\ SameRun

-----------------------------------------------------------------------------
(* The operators *)

LEMMA RetainedIsOld == Retained \subseteq repo
<1>. SUFFICES ASSUME NEW s \in Retained PROVE s \in repo
  OBVIOUS
<1>1. PICK w \in Ws, k \in Kinds :
        \/ s \in KeepLast(NewestPerDay(Series(w, k)), Daily)
        \/ s \in KeepLast(NewestPerMonth(Series(w, k)), Monthly)
  <2>. DEFINE Kept(w, k) == KeepLast(NewestPerDay(Series(w, k)), Daily)
                              \cup KeepLast(NewestPerMonth(Series(w, k)), Monthly)
  <2>1. s \in UNION {Kept(w, k) : w \in Ws, k \in Kinds}
    BY DEF Retained
  <2>. HIDE DEF Kept
  <2>2. \E w \in Ws, k \in Kinds : s \in Kept(w, k)
    BY <2>1
  <2>. QED  BY <2>2 DEF Kept
<1>2. s \in Series(w, k)
  BY <1>1, Zenon DEF KeepLast, NewestPerDay, NewestPerMonth
<1>. QED  BY <1>2, Zenon DEF Series

LEMMA PickedIsThere == ASSUME NEW f PROVE PickDump(f) \subseteq Series(f.ws, "dump")
  BY DEF PickDump, Window, Older, Newest

LEMMA SeriesType ==
  ASSUME TypeOK, NEW w \in Ws, NEW k, NEW s \in Series(w, k)
  PROVE  s \in repo /\ s \in SnapshotsOf(w) /\ s.ws = w /\ s.kind = k
<1>1. s \in repo /\ s.ws = w /\ s.kind = k
  BY DEF Series
<1>2. PICK v \in Ws : s \in SnapshotsOf(v)
  BY <1>1 DEF TypeOK
<1>3. s.ws = v
  BY <1>2 DEF SnapshotsOf
<1>. QED  BY <1>1, <1>2, <1>3

\* Where the two series are alike, the dump picked for a tree is of the tree's run.
LEMMA PickedOfSameRun ==
  ASSUME TypeOK, NEW w \in Ws, NEW f \in Series(w, "files"),
         Alike(Series(w, "files"), Series(w, "dump"))
  PROVE  PickDump(f) # {} /\ \A d \in PickDump(f) : d.run = f.run
<1>1. f.ws = w /\ \A k \in Kinds : \A s \in Series(w, k) : s.run \in Int
  BY SeriesType DEF SnapshotsOf
<1>2. \A g \in LaterTrees(f) : g \in Series(w, "files") /\ g.run > f.run
  BY <1>1 DEF LaterTrees
<1>3. PICK d \in Series(w, "dump") : d.run = f.run
  BY DEF Alike, Covers
<1>4. d \in Window(f)
  BY <1>1, <1>2, <1>3 DEF Window, Kinds
<1>5. ASSUME NEW e \in Window(f) PROVE e.run = f.run
  <2>1. e \in Series(w, "dump") /\ e.run >= f.run
    BY <1>1 DEF Window
  <2>2. PICK g \in Series(w, "files") : g.run = e.run
    BY <2>1 DEF Alike, Covers
  <2>3. g \notin LaterTrees(f)
    BY <1>1, <2>1, <2>2 DEF Window, Kinds
  <2>. QED  BY <1>1, <2>1, <2>2, <2>3 DEF LaterTrees, Kinds
<1>6. PickDump(f) = Newest(Window(f))
  BY <1>4 DEF PickDump
<1>7. d \in Newest(Window(f))
  BY <1>1, <1>3, <1>4, <1>5 DEF Newest, Kinds
<1>. QED  BY <1>5, <1>6, <1>7 DEF Newest

-----------------------------------------------------------------------------
(* Retention treats two series alike that are alike *)

LEMMA NewestPerDayAlike ==
  ASSUME NEW S, NEW T, Alike(S, T)
  PROVE  Covers(NewestPerDay(S), NewestPerDay(T))
<1>. SUFFICES ASSUME NEW s \in NewestPerDay(S)
              PROVE  \E t \in NewestPerDay(T) : t.run = s.run /\ t.day = s.day
  BY DEF Covers
<1>1. s \in S /\ \A u \in S : u.day = s.day => u.run <= s.run
  BY DEF NewestPerDay
<1>2. PICK t \in T : t.run = s.run /\ t.day = s.day
  BY <1>1 DEF Alike, Covers
<1>3. ASSUME NEW v \in T, v.day = t.day PROVE v.run <= t.run
  <2>1. PICK u \in S : u.run = v.run /\ u.day = v.day
    BY DEF Alike, Covers
  <2>2. u.run <= s.run
    BY <1>1, <1>2, <1>3, <2>1
  <2>. QED  BY <1>2, <2>1, <2>2
<1>. QED  BY <1>2, <1>3 DEF NewestPerDay

LEMMA NewestPerMonthAlike ==
  ASSUME NEW S, NEW T, Alike(S, T)
  PROVE  Covers(NewestPerMonth(S), NewestPerMonth(T))
<1>. SUFFICES ASSUME NEW s \in NewestPerMonth(S)
              PROVE  \E t \in NewestPerMonth(T) : t.run = s.run /\ t.day = s.day
  BY DEF Covers
<1>1. s \in S /\ \A u \in S : Month(u) = Month(s) => u.run <= s.run
  BY DEF NewestPerMonth
<1>2. PICK t \in T : t.run = s.run /\ t.day = s.day
  BY <1>1 DEF Alike, Covers
<1>3. ASSUME NEW v \in T, Month(v) = Month(t) PROVE v.run <= t.run
  <2>1. PICK u \in S : u.run = v.run /\ u.day = v.day
    BY DEF Alike, Covers
  <2>2. Month(u) = Month(s)
    BY <1>2, <1>3, <2>1 DEF Month
  <2>3. u.run <= s.run
    BY <1>1, <2>2
  <2>. QED  BY <1>2, <2>1, <2>3
<1>. QED  BY <1>2, <1>3 DEF NewestPerMonth

LEMMA KeepLastAlike ==
  ASSUME NEW S, NEW T, Alike(S, T), NEW n
  PROVE  Covers(KeepLast(S, n), KeepLast(T, n))
<1>. SUFFICES ASSUME NEW s \in KeepLast(S, n)
              PROVE  \E t \in KeepLast(T, n) : t.run = s.run /\ t.day = s.day
  BY DEF Covers
<1>1. s \in S /\ Cardinality(RunsAfter(S, s)) < n
  BY DEF KeepLast
<1>2. PICK t \in T : t.run = s.run /\ t.day = s.day
  BY <1>1 DEF Alike, Covers
<1>3. \A r : (\E u \in S : u.run = r) <=> (\E u \in T : u.run = r)
  BY DEF Alike, Covers
<1>4. RunsAfter(T, t) = RunsAfter(S, s)
  <2>1. \A r : r \in RunsAfter(T, t) <=> r > t.run /\ \E u \in T : u.run = r
    BY DEF RunsAfter
  <2>2. \A r : r \in RunsAfter(S, s) <=> r > s.run /\ \E u \in S : u.run = r
    BY DEF RunsAfter
  <2>. QED  BY <1>2, <1>3, <2>1, <2>2
<1>5. t \in KeepLast(T, n)
  BY <1>1, <1>2, <1>4 DEF KeepLast
<1>. QED  BY <1>2, <1>5

Kept(w, k) == KeepLast(NewestPerDay(Series(w, k)), Daily)
                \cup KeepLast(NewestPerMonth(Series(w, k)), Monthly)

LEMMA KeptAlike ==
  ASSUME NEW v, NEW w, NEW j, NEW k, Alike(Series(w, j), Series(v, k))
  PROVE  Covers(Kept(w, j), Kept(v, k))
<1>. DEFINE S == Series(w, j)
            T == Series(v, k)
<1>0. Alike(S, T) /\ Alike(T, S)
  BY DEF Alike
<1>. HIDE DEF S, T
<1>1. Alike(NewestPerDay(S), NewestPerDay(T)) /\ Alike(NewestPerMonth(S), NewestPerMonth(T))
  BY <1>0, NewestPerDayAlike, NewestPerMonthAlike DEF Alike
<1>2. /\ Covers(KeepLast(NewestPerDay(S), Daily), KeepLast(NewestPerDay(T), Daily))
      /\ Covers(KeepLast(NewestPerMonth(S), Monthly), KeepLast(NewestPerMonth(T), Monthly))
  BY <1>1, KeepLastAlike
<1>. QED  BY <1>2 DEF Kept, Covers, S, T

LEMMA SeriesRetained ==
  ASSUME NEW w \in Ws, NEW k \in Kinds, repo' = Retained
  PROVE  Series(w, k)' = Kept(w, k)
<1>1. Retained = UNION {Kept(v, j) : v \in Ws, j \in Kinds}
  BY DEF Retained, Kept
<1>2. \A v \in Ws, j \in Kinds : \A s \in Kept(v, j) : s.ws = v /\ s.kind = j
  BY Zenon DEF Kept, KeepLast, NewestPerDay, NewestPerMonth, Series
<1>. HIDE DEF Kept
<1>3. \A s : s \in Retained <=> \E v \in Ws, j \in Kinds : s \in Kept(v, j)
  BY <1>1
<1>4. \A s : s \in Series(w, k)' <=> s \in Retained /\ s.ws = w /\ s.kind = k
  BY DEF Series
<1>5. \A s : s \in Series(w, k)' <=> s \in Kept(w, k)
  BY <1>2, <1>3, <1>4
<1>. QED  BY <1>5

-----------------------------------------------------------------------------
(* The type invariant *)

LEMMA InitType == Init => TypeOK
<1>. SUFFICES ASSUME Init PROVE TypeOK
  OBVIOUS
<1>. USE BoundsAssumption DEF Init
<1>1. repo \subseteq UNION {SnapshotsOf(w) : w \in Ws}
  <2>. DEFINE First == [ws : Ws, kind : Kinds, run : {0}, day : {0}, torn : {FALSE}]
  <2>1. ASSUME NEW s \in First PROVE s.ws \in Ws /\ s \in SnapshotsOf(s.ws)
    <3>1. s.ws \in Ws /\ s.kind \in Kinds /\ s.run = 0 /\ s.day = 0
      BY DEF First
    <3>2. 0 \in 0 .. MaxRuns /\ 0 \in 0 .. MaxDays
      OBVIOUS
    <3>3. s.torn \in BOOLEAN
      BY DEF First
    <3>4. s = [ws |-> s.ws, kind |-> s.kind, run |-> s.run, day |-> s.day,
               torn |-> s.torn]
      BY DEF First
    <3>. QED  BY <3>1, <3>2, <3>3, <3>4, Zenon DEF SnapshotsOf
  <2>2. repo = {} \/ repo = First
    BY Zenon
  <2>. HIDE DEF First
  <2>. QED  BY <2>1, <2>2
<1>2. /\ tree \in [Ws -> Trees] /\ mine \in [Ws -> Trees] /\ aside \in [Ws -> SUBSET Trees]
      /\ up \subseteq Ws
  BY DEF Trees
<1>3. rec \in [Ws -> Phases] /\ DOMAIN sel = Ws /\ \A w \in Ws : sel[w] \subseteq SnapshotsOf(w)
  BY DEF Phases
<1>4. ok \in [Ws -> BOOLEAN] /\ running \in BOOLEAN
  BY Zenon
<1>5. /\ day \in 0 .. MaxDays /\ runs \in 0 .. MaxRuns /\ recovers \in 0 .. MaxRecovers
      /\ faults \in 0 .. MaxFaults /\ uneven \subseteq Ws
  OBVIOUS
<1>6. run \in {"idle", "list", "capture", "retain"} /\ todo \subseteq Ws \X Kinds
  OBVIOUS
<1>. QED  BY <1>1, <1>2, <1>3, <1>4, <1>5, <1>6, Zenon DEF TypeOK

LEMMA RunType ==
  ASSUME TypeOK, RunStep
  PROVE  TypeOK'
<1>. USE BoundsAssumption DEF TypeOK, past, disk, report, counts
<1>1. CASE RunBegin
  BY <1>1 DEF RunBegin
<1>2. CASE RunRefused
  BY <1>2 DEF RunRefused, RunEnds
<1>3. CASE RunList
  BY <1>3 DEF RunList
<1>4. CASE RunServerState
  BY <1>4 DEF RunServerState
<1>5. CASE RunRetain
  BY <1>5, RetainedIsOld DEF RunRetain, RunEnds
<1>6. ASSUME NEW w \in Ws, RunFiles(w) \/ RunDump(w) PROVE TypeOK'
  <2>1. \A k \in Kinds, b \in BOOLEAN : Snap(w, k, b) \in SnapshotsOf(w)
    BY DEF Snap, SnapshotsOf
  <2>2. /\ UNCHANGED <<day, running, run, runs, disk, up, rec, report, counts>>
        /\ todo' \subseteq todo /\ uneven' \subseteq Ws
    BY <1>6 DEF RunFiles, RunDump, Capture
  <2>3. repo' = repo \/ \E s \in SnapshotsOf(w) : repo' = repo \cup {s}
    <3>1. CASE RunFiles(w)
      <4>1. (tree[w] \in HalfWay) \in BOOLEAN /\ "files" \in Kinds
        BY DEF Kinds
      <4>. QED  BY <2>1, <3>1, <4>1 DEF RunFiles
    <3>2. CASE RunDump(w)
      BY <2>1, <3>2 DEF RunDump, Kinds
    <3>. QED  BY <1>6, <3>1, <3>2
  <2>. QED  BY <2>2, <2>3
<1>. QED  BY <1>1, <1>2, <1>3, <1>4, <1>5, <1>6 DEF RunStep

\* A recovery point is made of snapshots of the workspace that are there.
LEMMA SelectType ==
  ASSUME TypeOK, NEW w \in Ws, Select(w)
  PROVE  \E f \in Series(w, "files") :
           /\ sel' = [sel EXCEPT ![w] = {f} \cup PickDump(f)]
           /\ {f} \cup PickDump(f) \subseteq repo \cap SnapshotsOf(w)
<1>1. PICK f \in Series(w, "files") : sel' = [sel EXCEPT ![w] = {f} \cup PickDump(f)]
  BY DEF Select
<1>2. f.ws = w /\ f \in repo \cap SnapshotsOf(w)
  BY SeriesType
<1>3. PickDump(f) \subseteq Series(w, "dump")
  BY <1>2, PickedIsThere
<1>4. ASSUME NEW d \in PickDump(f) PROVE d \in repo \cap SnapshotsOf(w)
  <2>1. d \in Series(w, "dump")
    BY <1>3, Zenon
  <2>. QED  BY <2>1, SeriesType
<1>5. {f} \cup PickDump(f) \subseteq repo \cap SnapshotsOf(w)
  BY <1>2, <1>4, Zenon
<1>. QED  BY <1>1, <1>5, Zenon

LEMMA RecoverType ==
  ASSUME TypeOK, NEW w \in Ws, RecoverStep(w)
  PROVE  TypeOK'
<1>. USE BoundsAssumption
     DEF TypeOK, past, engine, disk, report, counts, At, Go, Release, Lays, Phases, Trees
<1>1. CASE RecoverBegin(w)
  BY <1>1 DEF RecoverBegin
<1>2. CASE DryBegin(w)
  BY <1>2 DEF DryBegin
<1>3. CASE DryEnd(w)
  BY <1>3 DEF DryEnd
<1>4. CASE Select(w)
  <2>1. PICK point \in SUBSET SnapshotsOf(w) : sel' = [sel EXCEPT ![w] = point]
    BY <1>4, SelectType
  <2>2. DOMAIN sel' = Ws /\ \A v \in Ws : sel'[v] \subseteq SnapshotsOf(v)
    BY <2>1
  <2>3. rec' \in [Ws -> Phases]
    BY <1>4 DEF Select
  <2>. QED  BY <1>4, <2>2, <2>3 DEF Select
<1>5. CASE SelectFails(w)
  BY <1>5 DEF SelectFails
<1>6. CASE Stop(w)
  <2>1. rec' \in [Ws -> Phases]
    BY <1>6 DEF Stop
  <2>2. up' \subseteq Ws
    BY <1>6 DEF Stop
  <2>3. ok' \in [Ws -> BOOLEAN]
    BY <1>6 DEF Stop
  <2>. QED  BY <1>6, <2>1, <2>2, <2>3 DEF Stop
<1>7. CASE PutAside(w)
  BY <1>7 DEF PutAside
<1>8. CASE AsideFails(w)
  BY <1>8 DEF AsideFails
<1>9. CASE PutPlaceholder(w)
  BY <1>9 DEF PutPlaceholder
<1>10. CASE RestoreTree(w)
  BY <1>10 DEF RestoreTree
<1>11. CASE RestoreEnds(w)
  BY <1>11 DEF RestoreEnds
<1>12. CASE GiveUp(w)
  <2>1. rec' \in [Ws -> Phases] /\ running' \in BOOLEAN
    BY <1>12 DEF GiveUp
  <2>2. DOMAIN sel' = Ws /\ \A v \in Ws : sel'[v] \subseteq SnapshotsOf(v)
    BY <1>12 DEF GiveUp
  <2>3. tree' \in [Ws -> Trees] /\ faults' \in 0 .. MaxFaults
    BY <1>12 DEF GiveUp, PutBack, PutBackFails
  <2>4. aside' \in [Ws -> SUBSET Trees] /\ mine' = mine
    BY <1>12 DEF GiveUp, PutBack, PutBackFails
  <2>. QED  BY <1>12, <2>1, <2>2, <2>3, <2>4 DEF GiveUp
<1>13. CASE Verify(w)
  BY <1>13 DEF Verify
<1>14. CASE SiteUp(w)
  BY <1>14 DEF SiteUp
<1>15. CASE SiteFails(w)
  BY <1>15 DEF SiteFails
<1>16. CASE Apply(w)
  BY <1>16 DEF Apply
<1>17. CASE LoadData(w)
  BY <1>17 DEF LoadData
<1>18. CASE RecoverEnds(w)
  <2>1. rec' \in [Ws -> Phases] /\ running' \in BOOLEAN
    BY <1>18 DEF RecoverEnds
  <2>2. DOMAIN sel' = Ws /\ \A v \in Ws : sel'[v] \subseteq SnapshotsOf(v)
    BY <1>18 DEF RecoverEnds
  <2>3. aside' \in [Ws -> SUBSET Trees]
    BY <1>18 DEF RecoverEnds
  <2>. QED  BY <1>18, <2>1, <2>2, <2>3 DEF RecoverEnds
<1>. QED  BY <1>1, <1>2, <1>3, <1>4, <1>5, <1>6, <1>7, <1>8, <1>9, <1>10, <1>11,
             <1>12, <1>13, <1>14, <1>15, <1>16, <1>17, <1>18 DEF RecoverStep

LEMMA NextType == TypeOK /\ [Next]_vars => TypeOK'
<1>. SUFFICES ASSUME TypeOK, [Next]_vars PROVE TypeOK'
  OBVIOUS
<1>. USE BoundsAssumption DEF TypeOK, past, engine, disk, report, counts
<1>1. CASE NextDay
  BY <1>1 DEF NextDay
<1>2. CASE Restart
  <2>1. rec' \in [Ws -> Phases] /\ running' \in BOOLEAN
    BY <1>2 DEF Restart, Phases
  <2>2. DOMAIN sel' = Ws /\ \A v \in Ws : sel'[v] \subseteq SnapshotsOf(v)
    BY <1>2 DEF Restart
  <2>3. uneven' \subseteq Ws
    BY <1>2 DEF Restart, Lopsided
  <2>. QED  BY <1>2, <2>1, <2>2, <2>3 DEF Restart
<1>3. ASSUME NEW w \in Ws, Flip(w) PROVE TypeOK'
  BY <1>3 DEF Flip
<1>4. CASE UNCHANGED vars
  BY <1>4 DEF vars
<1>. QED  BY <1>1, <1>2, <1>3, <1>4, RunType, RecoverType DEF Next

-----------------------------------------------------------------------------
(* The engine *)

\* What most steps of a recovery have in common, and its ends.
Moves(w)  == /\ Holds(w) /\ \E phase \in Phases \ {"idle", "dry"} : Go(w, phase)
             /\ UNCHANGED <<past, engine, repo>>
Leaves(w) == Holds(w) /\ Release(w)

LEMMA RecoverShape ==
  ASSUME NEW w \in Ws, RecoverStep(w)
  PROVE  \/ RecoverBegin(w) \/ DryBegin(w) \/ DryEnd(w)
         \/ Leaves(w)
         \/ Moves(w) /\ (sel' = sel \/ Select(w))
<1>. USE DEF Moves, Leaves, Holds, At, Phases, report, Lays
<1>1. CASE Select(w)
  BY <1>1 DEF Select
<1>2. CASE SelectFails(w) \/ AsideFails(w) \/ SiteFails(w)
  BY <1>2 DEF SelectFails, AsideFails, SiteFails
<1>3. CASE GiveUp(w) \/ RecoverEnds(w)
  BY <1>3 DEF GiveUp, RecoverEnds
<1>4. CASE Stop(w)
  BY <1>4 DEF Stop
<1>5. CASE PutAside(w)
  BY <1>5 DEF PutAside
<1>6. CASE PutPlaceholder(w) \/ RestoreTree(w) \/ RestoreEnds(w)
  BY <1>6 DEF PutPlaceholder, RestoreTree, RestoreEnds
<1>7. CASE Verify(w) \/ SiteUp(w)
  BY <1>7 DEF Verify, SiteUp
<1>8. CASE Apply(w) \/ LoadData(w)
  BY <1>8 DEF Apply, LoadData
<1>. QED  BY <1>1, <1>2, <1>3, <1>4, <1>5, <1>6, <1>7, <1>8 DEF RecoverStep

LEMMA RunExclusive == TypeOK /\ Exclusive /\ RunStep => Exclusive'
<1>. SUFFICES ASSUME TypeOK, Exclusive, RunStep PROVE Exclusive'
  OBVIOUS
<1>1. rec' = rec
  BY DEF RunStep, RunBegin, RunRefused, RunEnds, RunList, RunServerState, RunRetain,
         RunFiles, RunDump, Capture
<1>2. CASE RunBegin
  BY <1>1, <1>2 DEF RunBegin, Exclusive, Holds
<1>3. CASE RunRefused \/ RunRetain
  BY <1>1, <1>3 DEF RunRefused, RunRetain, RunEnds, Exclusive, Holds
<1>4. ASSUME run # "idle", running' = running PROVE Exclusive'
  BY <1>1, <1>4 DEF Exclusive, Holds
<1>5. CASE RunList \/ RunServerState
  BY <1>4, <1>5 DEF RunList, RunServerState
<1>6. ASSUME NEW w \in Ws, RunFiles(w) \/ RunDump(w) PROVE Exclusive'
  BY <1>4, <1>6 DEF RunFiles, RunDump, Capture
<1>. QED  BY <1>2, <1>3, <1>5, <1>6 DEF RunStep

LEMMA RecoverExclusive ==
  ASSUME TypeOK, Exclusive, NEW w \in Ws, RecoverStep(w)
  PROVE  Exclusive'
<1>. USE DEF Exclusive, Holds, engine, Go, TypeOK
<1>1. CASE RecoverBegin(w)
  BY <1>1 DEF RecoverBegin
<1>2. CASE DryBegin(w)
  BY <1>2 DEF DryBegin, At
<1>3. CASE DryEnd(w)
  BY <1>3 DEF DryEnd, At
<1>4. CASE Moves(w)
  BY <1>4 DEF Moves
<1>5. CASE Leaves(w)
  BY <1>5 DEF Leaves, Release
<1>. QED  BY <1>1, <1>2, <1>3, <1>4, <1>5, RecoverShape

LEMMA NextExclusive == TypeOK /\ Exclusive /\ [Next]_vars => Exclusive'
<1>. SUFFICES ASSUME TypeOK, Exclusive, [Next]_vars PROVE Exclusive'
  OBVIOUS
<1>. USE DEF Exclusive, Holds, engine
<1>1. CASE NextDay
  BY <1>1 DEF NextDay
<1>2. CASE Restart
  BY <1>2 DEF Restart
<1>3. ASSUME NEW w \in Ws, Flip(w) PROVE Exclusive'
  BY <1>3 DEF Flip
<1>4. CASE UNCHANGED vars
  BY <1>4 DEF vars
<1>. QED  BY <1>1, <1>2, <1>3, <1>4, RunExclusive, RecoverExclusive DEF Next

-----------------------------------------------------------------------------
(* What a recovery selected *)

\* The repository changes only in a run, when nothing is selected.
LEMMA RunSelections ==
  ASSUME TypeOK, Exclusive, Selections, RunStep
  PROVE  Selections' /\ SameRun'
<1>1. rec' = rec /\ sel' = sel
  BY DEF RunStep, RunBegin, RunRefused, RunEnds, RunList, RunServerState, RunRetain,
         RunFiles, RunDump, Capture, report
<1>2. repo' = repo \/ run # "idle"
  BY DEF RunStep, RunBegin, RunRefused, RunList, RunServerState, RunRetain, RunFiles,
         RunDump, Capture
<1>3. \A w \in Ws : ~Holds(w)
  <2>1. CASE run = "idle"
    <3>1. RunBegin
      BY <2>1 DEF RunStep, RunRefused, RunList, RunServerState, RunRetain, RunFiles,
                  RunDump, Capture
    <3>. QED  BY <3>1 DEF RunBegin, Exclusive
  <2>2. CASE run # "idle"
    BY <2>2 DEF Exclusive
  <2>. QED  BY <2>1, <2>2
<1>4. \A w \in Ws : sel'[w] = {} /\ ~Holds(w)'
  BY <1>1, <1>3 DEF Selections, Holds
<1>. QED  BY <1>4 DEF Selections, SameRun

\* Where nothing new is selected and the repository is the same, nothing changes.
LEMMA SelectionsStay ==
  ASSUME TypeOK, Selections, SameRun, repo' = repo, uneven \subseteq uneven',
         \A v \in Ws : sel'[v] = {} \/ (sel'[v] = sel[v] /\ (Holds(v) => Holds(v)'))
  PROVE  Selections' /\ SameRun'
<1>1. Selections'
  BY DEF Selections
<1>2. SameRun'
  BY DEF SameRun
<1>. QED  BY <1>1, <1>2

LEMMA RecoverSelections ==
  ASSUME TypeOK, Exclusive, Selections, EvenUnlessMissed, SameRun, NEW w \in Ws,
         RecoverStep(w)
  PROVE  Selections' /\ SameRun'
<1>1. CASE RecoverBegin(w) \/ DryBegin(w) \/ DryEnd(w)
  <2>1. repo' = repo /\ uneven' = uneven /\ sel' = sel /\ ~Holds(w)
    BY <1>1 DEF RecoverBegin, DryBegin, DryEnd, Holds, At, past, report
  <2>2. \A v \in Ws \ {w} : rec'[v] = rec[v]
    BY <1>1 DEF RecoverBegin, DryBegin, DryEnd, Go, TypeOK
  <2>. QED  BY <2>1, <2>2, SelectionsStay DEF Holds
<1>2. CASE Moves(w) /\ sel' = sel
  <2>1. repo' = repo /\ uneven' = uneven /\ \A v \in Ws : Holds(v) => Holds(v)'
    BY <1>2 DEF Moves, Go, TypeOK, Holds, past
  <2>. QED  BY <1>2, <2>1, SelectionsStay
<1>3. CASE Moves(w) /\ Select(w)
  <2>1. PICK f \in Series(w, "files") :
          /\ sel' = [sel EXCEPT ![w] = {f} \cup PickDump(f)]
          /\ {f} \cup PickDump(f) \subseteq repo \cap SnapshotsOf(w)
    BY <1>3, SelectType
  <2>2. repo' = repo /\ uneven' = uneven /\ \A v \in Ws : Holds(v) => Holds(v)'
    BY <1>3 DEF Moves, Go, TypeOK, Holds, past
  <2>3. Holds(w)'
    BY <1>3 DEF Select, Go, TypeOK, Holds
  <2>4. Selections'
    BY <2>1, <2>2, <2>3 DEF Selections, TypeOK
  <2>5. SameRun'
    <3>1. \A v \in Ws \ {w} : sel'[v] = sel[v]
      BY <2>1 DEF TypeOK
    <3>2. sel'[w] = {f} \cup PickDump(f)
      BY <2>1 DEF TypeOK
    <3>3. ASSUME w \notin uneven, NEW s \in sel'[w]
          PROVE  {<<t.kind, t.run>> : t \in sel'[w]} = Kinds \X {s.run}
      <4>1. ~Between(w)
        BY <1>3 DEF Moves, Exclusive, Between
      <4>2. Alike(Series(w, "files"), Series(w, "dump"))
        BY <3>3, <4>1 DEF EvenUnlessMissed
      <4>3. PickDump(f) # {} /\ \A d \in PickDump(f) : d.run = f.run
        BY <4>2, PickedOfSameRun
      <4>4. f.ws = w /\ f.kind = "files"
        BY SeriesType
      <4>5. \A d \in PickDump(f) : d.kind = "dump"
        <5>1. PickDump(f) \subseteq Series(w, "dump")
          BY <4>4, PickedIsThere
        <5>. QED  BY <5>1 DEF Series
      <4>6. s.run = f.run
        BY <3>2, <3>3, <4>3
      <4>7. ASSUME NEW t \in sel'[w] PROVE <<t.kind, t.run>> \in Kinds \X {f.run}
        BY <3>2, <4>3, <4>4, <4>5, <4>7 DEF Kinds
      <4>8. /\ <<"files", f.run>> \in {<<t.kind, t.run>> : t \in sel'[w]}
            /\ <<"dump", f.run>> \in {<<t.kind, t.run>> : t \in sel'[w]}
        <5>1. PICK d \in PickDump(f) : d.kind = "dump" /\ d.run = f.run
          BY <4>3, <4>5
        <5>2. f \in sel'[w] /\ d \in sel'[w]
          BY <3>2
        <5>. QED  BY <4>4, <5>1, <5>2
      <4>. QED  BY <4>6, <4>7, <4>8 DEF Kinds
    <3>. QED  BY <2>2, <3>1, <3>3 DEF SameRun
  <2>. QED  BY <2>4, <2>5
<1>4. CASE Leaves(w)
  <2>1. repo' = repo /\ uneven' = uneven /\ sel' = [sel EXCEPT ![w] = {}]
    BY <1>4 DEF Leaves, Release, past
  <2>2. \A v \in Ws \ {w} : rec'[v] = rec[v]
    BY <1>4 DEF Leaves, Release, Go, TypeOK
  <2>3. \A v \in Ws : sel'[v] = {} \/ (sel'[v] = sel[v] /\ (Holds(v) => Holds(v)'))
    <3>1. sel'[w] = {} /\ \A v \in Ws \ {w} : sel'[v] = sel[v]
      BY <2>1 DEF TypeOK
    <3>2. ASSUME NEW v \in Ws
          PROVE  sel'[v] = {} \/ (sel'[v] = sel[v] /\ (Holds(v) => Holds(v)'))
      <4>1. CASE v = w
        BY <3>1, <4>1
      <4>2. CASE v # w
        BY <2>2, <3>1, <4>2 DEF Holds
      <4>. QED  BY <4>1, <4>2
    <3>. QED  BY <3>2
  <2>. QED  BY <2>1, <2>3, SelectionsStay
<1>. QED  BY <1>1, <1>2, <1>3, <1>4, RecoverShape

LEMMA NextSelections ==
  ASSUME TypeOK, Exclusive, Selections, EvenUnlessMissed, SameRun, [Next]_vars
  PROVE  Selections' /\ SameRun'
<1>1. CASE NextDay
  BY <1>1, SelectionsStay DEF NextDay, report, Holds
<1>2. CASE Restart
  <2>1. repo' = repo /\ \A v \in Ws : sel'[v] = {}
    BY <1>2 DEF Restart
  <2>. QED  BY <2>1 DEF Selections, SameRun
<1>3. ASSUME NEW w \in Ws, Flip(w) PROVE Selections' /\ SameRun'
  BY <1>3, SelectionsStay DEF Flip, past, report, Holds
<1>4. CASE UNCHANGED vars
  BY <1>4, SelectionsStay DEF vars, past, report, Holds
<1>. QED  BY <1>1, <1>2, <1>3, <1>4, RunSelections, RecoverSelections DEF Next

-----------------------------------------------------------------------------
(* The two series of a workspace *)

\* Where a run has saved both halves or neither, the series are alike again.
Days(S) == {s.day : s \in S}

LEMMA Completed ==
  ASSUME NEW S, NEW T, NEW r, Days({s \in S : s.run = r}) = Days({t \in T : t.run = r}),
         Alike({s \in S : s.run # r}, {t \in T : t.run # r})
  PROVE  Alike(S, T)
<1>1. ASSUME NEW s \in S  PROVE \E t \in T : t.run = s.run /\ t.day = s.day
  <2>1. CASE s.run # r
    BY <2>1 DEF Alike, Covers
  <2>2. CASE s.run = r
    <3>1. s.day \in Days({t \in T : t.run = r})
      BY <2>2 DEF Days
    <3>. QED  BY <2>2, <3>1 DEF Days
  <2>. QED  BY <2>1, <2>2
<1>2. ASSUME NEW t \in T  PROVE \E s \in S : s.run = t.run /\ s.day = t.day
  <2>1. CASE t.run # r
    BY <2>1 DEF Alike, Covers
  <2>2. CASE t.run = r
    <3>1. t.day \in Days({s \in S : s.run = r})
      BY <2>2 DEF Days
    <3>. QED  BY <2>2, <3>1 DEF Days
  <2>. QED  BY <2>1, <2>2
<1>. QED  BY <1>1, <1>2 DEF Alike, Covers

LEMMA SavedDays ==
  ASSUME NEW w \in Ws, w \notin Lopsided(repo)
  PROVE  Days({s \in Series(w, "files") : s.run = runs})
           = Days({s \in Series(w, "dump") : s.run = runs})
<1>1. \A k : Saved(w, k, repo) = Days({s \in Series(w, k) : s.run = runs})
  BY DEF Saved, Days, Series
<1>. QED  BY <1>1 DEF Lopsided

LEMMA EarlierAlike ==
  ASSUME NEW w, Alike(Series(w, "files"), Series(w, "dump"))
  PROVE  Alike(Earlier(w, "files"), Earlier(w, "dump"))
BY DEF Alike, Covers, Earlier

LEMMA RunEven ==
  ASSUME TypeOK, Exclusive, FilesFirst, EvenUnlessMissed, RunStep
  PROVE  FilesFirst' /\ EvenUnlessMissed'
<1>1. ASSUME repo' = repo, uneven' = uneven, run # "capture", run' # "capture"
      PROVE  FilesFirst' /\ EvenUnlessMissed'
  BY <1>1 DEF FilesFirst, EvenUnlessMissed, Between, Series
<1>2. CASE RunBegin
  BY <1>1, <1>2 DEF RunBegin, Exclusive, past
<1>3. CASE RunRefused
  BY <1>1, <1>3 DEF RunRefused, RunEnds, past
<1>4. CASE RunList
  <2>1. \A w \in Ws : ~Between(w) /\ ~Between(w)' /\ FilesFirst'
    BY <1>4 DEF RunList, Between, FilesFirst, Kinds
  <2>2. repo' = repo /\ uneven' = uneven
    BY <1>4 DEF RunList, past
  <2>. QED  BY <2>1, <2>2 DEF EvenUnlessMissed, Series, FilesFirst
<1>5. CASE RunServerState
  <2>1. \A w \in Ws : ~Between(w) /\ ~Between(w)'
    BY <1>5 DEF RunServerState, Between
  <2>2. repo' = repo /\ uneven' = uneven /\ run' = "retain"
    BY <1>5 DEF RunServerState, past
  <2>. QED  BY <2>1, <2>2 DEF EvenUnlessMissed, Series, FilesFirst
<1>6. CASE RunRetain
  <2>1. /\ run = "retain" /\ run' = "idle" /\ uneven' = uneven
        /\ repo' = repo \/ repo' = Retained
    BY <1>6 DEF RunRetain, RunEnds, past
  <2>2. CASE repo' = Retained
    <3>. SUFFICES ASSUME NEW w \in Ws \ uneven
                  PROVE  Alike(Series(w, "files")', Series(w, "dump")')
      BY <2>1 DEF FilesFirst, EvenUnlessMissed, Between, Alike, Covers
    <3>1. Alike(Series(w, "files"), Series(w, "dump"))
      BY <2>1 DEF EvenUnlessMissed, Between
    <3>2. Alike(Series(w, "dump"), Series(w, "files"))
      BY <3>1 DEF Alike
    <3>3. Alike(Kept(w, "files"), Kept(w, "dump"))
      BY <3>1, <3>2, KeptAlike DEF Alike
    <3>4. Series(w, "files")' = Kept(w, "files") /\ Series(w, "dump")' = Kept(w, "dump")
      BY <2>2, SeriesRetained DEF Kinds
    <3>. QED  BY <3>3, <3>4
  <2>. QED  BY <1>1, <2>1, <2>2
<1>7. ASSUME NEW w \in Ws, RunFiles(w) PROVE FilesFirst' /\ EvenUnlessMissed'
  <2>1. /\ run = "capture" /\ <<w, "files">> \in todo /\ todo' = todo \ {<<w, "files">>}
        /\ UNCHANGED <<run, runs, uneven>>
    BY <1>7 DEF RunFiles, Capture
  <2>2. /\ repo \subseteq repo'
        /\ \A s \in repo' : s \in repo \/ (s.ws = w /\ s.run = runs)
    <3>1. Snap(w, "files", tree[w] \in HalfWay).ws = w
          /\ Snap(w, "files", tree[w] \in HalfWay).run = runs
      BY DEF Snap
    <3>2. CASE repo' = repo
      BY <3>2
    <3>3. CASE repo' = repo \cup {Snap(w, "files", tree[w] \in HalfWay)}
      BY <3>1, <3>3
    <3>. QED  BY <1>7, <3>2, <3>3 DEF RunFiles
  <2>3. FilesFirst'
    BY <2>1 DEF FilesFirst
  <2>4. ASSUME NEW v \in Ws \ uneven, v # w
        PROVE  IF Between(v)' THEN Alike(Earlier(v, "files")', Earlier(v, "dump")')
               ELSE Alike(Series(v, "files")', Series(v, "dump")')
    <3>1. \A k : Series(v, k)' = Series(v, k) /\ Earlier(v, k)' = Earlier(v, k)
      BY <2>1, <2>2, <2>4 DEF Series, Earlier
    <3>2. Between(v)' <=> Between(v)
      BY <2>1, <2>4 DEF Between
    <3>. QED  BY <3>1, <3>2 DEF EvenUnlessMissed
  <2>5. ASSUME w \notin uneven
        PROVE  Between(w)' /\ Alike(Earlier(w, "files")', Earlier(w, "dump")')
    <3>1. Between(w)' /\ ~Between(w)
      BY <2>1 DEF Between, FilesFirst
    <3>2. \A k : Earlier(w, k)' = Earlier(w, k)
      BY <2>1, <2>2 DEF Series, Earlier
    <3>. QED  BY <2>5, <3>1, <3>2, EarlierAlike DEF EvenUnlessMissed
  <2>. QED  BY <2>1, <2>3, <2>4, <2>5 DEF EvenUnlessMissed, Alike, Covers
<1>8. ASSUME NEW w \in Ws, RunDump(w) PROVE FilesFirst' /\ EvenUnlessMissed'
  <2>1. /\ run = "capture" /\ <<w, "files">> \notin todo /\ <<w, "dump">> \in todo
        /\ todo' = todo \ {<<w, "dump">>} /\ UNCHANGED <<run, runs>>
        /\ uneven' = uneven \cup ({w} \cap Lopsided(repo'))
    BY <1>8 DEF RunDump, Capture
  <2>2. /\ repo \subseteq repo'
        /\ \A s \in repo' : s \in repo \/ (s.ws = w /\ s.run = runs)
    <3>1. Snap(w, "dump", FALSE).ws = w /\ Snap(w, "dump", FALSE).run = runs
      BY DEF Snap
    <3>2. CASE repo' = repo
      BY <3>2
    <3>3. CASE repo' = repo \cup {Snap(w, "dump", FALSE)}
      BY <3>1, <3>3
    <3>. QED  BY <1>8, <3>2, <3>3 DEF RunDump
  <2>3. FilesFirst'
    BY <2>1 DEF FilesFirst
  <2>4. ASSUME NEW v \in Ws \ uneven', v # w
        PROVE  IF Between(v)' THEN Alike(Earlier(v, "files")', Earlier(v, "dump")')
               ELSE Alike(Series(v, "files")', Series(v, "dump")')
    <3>1. \A k : Series(v, k)' = Series(v, k) /\ Earlier(v, k)' = Earlier(v, k)
      BY <2>1, <2>2, <2>4 DEF Series, Earlier
    <3>2. Between(v)' <=> Between(v)
      BY <2>1, <2>4 DEF Between
    <3>3. v \notin uneven
      BY <2>1
    <3>. QED  BY <3>1, <3>2, <3>3 DEF EvenUnlessMissed
  <2>5. ASSUME w \notin uneven'
        PROVE  ~Between(w)' /\ Alike(Series(w, "files")', Series(w, "dump")')
    <3>1. Between(w) /\ ~Between(w)' /\ w \notin uneven
      BY <2>1, <2>5 DEF Between
    <3>2. \A k : Earlier(w, k)' = Earlier(w, k)
      BY <2>1, <2>2 DEF Series, Earlier
    <3>3. Alike(Earlier(w, "files")', Earlier(w, "dump")')
      BY <3>1, <3>2 DEF EvenUnlessMissed
    <3>4. Days({s \in Series(w, "files")' : s.run = runs'})
            = Days({s \in Series(w, "dump")' : s.run = runs'})
      <4>1. w \notin Lopsided(repo')
        BY <2>1, <2>5
      <4>2. \A k : Saved(w, k, repo') = Days({s \in Series(w, k)' : s.run = runs'})
        BY <2>1 DEF Saved, Days, Series
      <4>. QED  BY <4>1, <4>2 DEF Lopsided
    <3>5. Alike({s \in Series(w, "files")' : s.run # runs'},
                {s \in Series(w, "dump")' : s.run # runs'})
      BY <3>3 DEF Earlier
    <3>. QED  BY <3>1, <3>4, <3>5, Completed
  <2>. QED  BY <2>3, <2>4, <2>5 DEF EvenUnlessMissed, Alike, Covers
<1>. QED  BY <1>2, <1>3, <1>4, <1>5, <1>6, <1>7, <1>8 DEF RunStep

LEMMA NextEven ==
  ASSUME TypeOK, Exclusive, FilesFirst, EvenUnlessMissed, [Next]_vars
  PROVE  FilesFirst' /\ EvenUnlessMissed'
<1>1. ASSUME UNCHANGED <<repo, runs, run, todo, uneven>>
      PROVE  FilesFirst' /\ EvenUnlessMissed'
  BY <1>1 DEF FilesFirst, EvenUnlessMissed, Between, Earlier, Series
<1>2. CASE NextDay
  BY <1>1, <1>2 DEF NextDay, engine
<1>3. ASSUME NEW w \in Ws, Flip(w) PROVE FilesFirst' /\ EvenUnlessMissed'
  BY <1>1, <1>3 DEF Flip, past, engine
<1>4. CASE UNCHANGED vars
  BY <1>1, <1>4 DEF vars, past, engine
<1>5. ASSUME NEW w \in Ws, RecoverStep(w) PROVE FilesFirst' /\ EvenUnlessMissed'
  <2>1. UNCHANGED <<repo, runs, run, todo, uneven>>
    BY <1>5, RecoverShape
       DEF RecoverBegin, DryBegin, DryEnd, Moves, Leaves, Release, past, engine
  <2>. QED  BY <1>1, <2>1
<1>6. CASE Restart
  <2>1. /\ UNCHANGED <<repo, runs>> /\ run' = "idle"
        /\ uneven' = uneven \cup (IF run = "capture" THEN Lopsided(repo) ELSE {})
    BY <1>6 DEF Restart
  <2>. SUFFICES ASSUME NEW w \in Ws \ uneven'
                PROVE  Alike(Series(w, "files"), Series(w, "dump"))
    BY <2>1 DEF FilesFirst, EvenUnlessMissed, Between, Series, Alike, Covers
  <2>2. CASE Between(w)
    <3>1. w \notin Lopsided(repo) /\ Alike(Earlier(w, "files"), Earlier(w, "dump"))
      BY <2>1, <2>2 DEF Between, EvenUnlessMissed
    <3>2. Days({s \in Series(w, "files") : s.run = runs})
            = Days({s \in Series(w, "dump") : s.run = runs})
      BY <3>1, SavedDays
    <3>. QED  BY <3>1, <3>2, Completed DEF Earlier
  <2>3. CASE ~Between(w)
    BY <2>1, <2>3 DEF EvenUnlessMissed
  <2>. QED  BY <2>2, <2>3
<1>. QED  BY <1>2, <1>3, <1>4, <1>5, <1>6, RunEven DEF Next

-----------------------------------------------------------------------------
(* Trees *)

LEMMA RunWhole ==
  ASSUME TypeOK, Exclusive, WholeUnlessFault, OwnIsAside, RunStep
  PROVE  WholeUnlessFault' /\ OwnIsAside'
<1>1. UNCHANGED <<rec, tree, mine, faults>>
  BY DEF RunStep, RunBegin, RunRefused, RunEnds, RunList, RunServerState, RunRetain,
         RunFiles, RunDump, Capture, disk, counts
<1>2. OwnIsAside'
  BY <1>1 DEF OwnIsAside
<1>3. ASSUME faults = 0, NEW s \in repo', s \notin repo PROVE ~s.torn
  <2>1. PICK w \in Ws : RunFiles(w) \/ RunDump(w)
    BY <1>3, RetainedIsOld
       DEF RunStep, RunBegin, RunRefused, RunList, RunServerState, RunRetain
  <2>2. tree[w] \notin HalfWay
    BY <1>3, <2>1 DEF RunFiles, RunDump, Capture, WholeUnlessFault, Exclusive, Holds,
                      Rebuilding
  <2>3. s = Snap(w, "files", tree[w] \in HalfWay) \/ s = Snap(w, "dump", FALSE)
    BY <1>3, <2>1, Zenon DEF RunFiles, RunDump
  <2>4. CASE s = Snap(w, "files", tree[w] \in HalfWay)
    <3>1. s.torn = (tree[w] \in HalfWay)
      BY <2>4 DEF Snap
    <3>. QED  BY <2>2, <3>1
  <2>5. CASE s = Snap(w, "dump", FALSE)
    BY <2>5 DEF Snap
  <2>. QED  BY <2>3, <2>4, <2>5
<1>4. WholeUnlessFault'
  BY <1>1, <1>3 DEF WholeUnlessFault, Holds
<1>. QED  BY <1>2, <1>4

\* Where the trees of no other workspace change, w's alone decide.
LEMMA OneWhole ==
  ASSUME TypeOK, WholeUnlessFault, OwnIsAside, repo' = repo, faults' = faults,
         NEW w \in Ws, \A v \in Ws \ {w} : /\ rec'[v] = rec[v] /\ tree'[v] = tree[v]
                                           /\ mine'[v] = mine[v],
         rec'[w] \in {"placeholder", "restore", "restoring", "verify"} => tree'[w] # "own",
         faults = 0 => /\ tree'[w] \in HalfWay => rec'[w] \in Rebuilding
                       /\ Holds(w)' => mine'[w] \notin HalfWay
  PROVE  WholeUnlessFault' /\ OwnIsAside'
<1>1. WholeUnlessFault'
  BY DEF WholeUnlessFault, Holds
<1>2. OwnIsAside'
  BY DEF OwnIsAside
<1>. QED  BY <1>1, <1>2

LEMMA RecoverWhole ==
  ASSUME TypeOK, Exclusive, Selections, WholeUnlessFault, OwnIsAside,
         NEW w \in Ws, RecoverStep(w), faults' = faults
  PROVE  WholeUnlessFault' /\ OwnIsAside'
<1>. USE DEF At, Go, Release, Lays, Holds, disk, report, counts, HalfWay
<1>1. repo' = repo
  BY RecoverShape DEF RecoverBegin, DryBegin, DryEnd, Moves, Leaves
<1>2. \A v \in Ws \ {w} : rec'[v] = rec[v]
  <2>1. \E phase : rec' = [rec EXCEPT ![w] = phase]
    BY RecoverShape DEF RecoverBegin, DryBegin, DryEnd, Moves, Leaves
  <2>. QED  BY <2>1 DEF TypeOK
<1>3. \A v \in Ws \ {w} : tree'[v] = tree[v] /\ mine'[v] = mine[v]
  <2>1. tree' = tree \/ \E there : tree' = [tree EXCEPT ![w] = there]
    BY DEF RecoverStep, RecoverBegin, DryBegin, DryEnd, Select, SelectFails, Stop,
           PutAside, AsideFails, PutPlaceholder, RestoreTree, RestoreEnds, GiveUp,
           PutBack, PutBackFails, Verify, SiteUp, SiteFails, Apply, LoadData, RecoverEnds
  <2>2. mine' = mine \/ \E there : mine' = [mine EXCEPT ![w] = there]
    BY DEF RecoverStep, RecoverBegin, DryBegin, DryEnd, Select, SelectFails, Stop,
           PutAside, AsideFails, PutPlaceholder, RestoreTree, RestoreEnds, GiveUp,
           PutBack, PutBackFails, Verify, SiteUp, SiteFails, Apply, LoadData, RecoverEnds
  <2>. QED  BY <2>1, <2>2 DEF TypeOK
<1>4. rec'[w] \in {"placeholder", "restore", "restoring", "verify"} => tree'[w] # "own"
  BY DEF OwnIsAside, TypeOK, RecoverStep, RecoverBegin, DryBegin, DryEnd, Select,
         SelectFails, Stop, PutAside, AsideFails, PutPlaceholder, RestoreTree,
         RestoreEnds, GiveUp, Verify, SiteUp, SiteFails, Apply, LoadData, RecoverEnds
<1>5. ASSUME faults = 0 PROVE /\ tree'[w] \in HalfWay => rec'[w] \in Rebuilding
                              /\ Holds(w)' => mine'[w] \notin HalfWay
  <2>. USE <1>5 DEF WholeUnlessFault, Rebuilding, TypeOK
  <2>1. CASE RecoverBegin(w) \/ DryBegin(w) \/ DryEnd(w)
    BY <2>1 DEF RecoverBegin, DryBegin, DryEnd
  <2>2. CASE Select(w) \/ SelectFails(w) \/ Stop(w) \/ AsideFails(w)
    BY <2>2 DEF Select, SelectFails, Stop, AsideFails
  <2>3. CASE PutAside(w) \/ PutPlaceholder(w) \/ RestoreTree(w)
    BY <2>3 DEF PutAside, PutPlaceholder, RestoreTree
  <2>4. CASE RestoreEnds(w)
    <3>1. ~Torn(w)
      BY DEF Torn, Selections
    <3>. QED  BY <2>4, <3>1 DEF RestoreEnds
  <2>5. CASE GiveUp(w)
    <3>1. PutBack(w)
      BY <2>5 DEF GiveUp, PutBackFails
    <3>. QED  BY <2>5, <3>1 DEF GiveUp, PutBack
  <2>6. CASE Verify(w) \/ SiteUp(w) \/ SiteFails(w)
    BY <2>6 DEF Verify, SiteUp, SiteFails
  <2>7. CASE Apply(w) \/ LoadData(w) \/ RecoverEnds(w)
    BY <2>7 DEF Apply, LoadData, RecoverEnds
  <2>. QED  BY <2>1, <2>2, <2>3, <2>4, <2>5, <2>6, <2>7 DEF RecoverStep
<1>. QED  BY <1>1, <1>2, <1>3, <1>4, <1>5, OneWhole

LEMMA NextWhole ==
  ASSUME TypeOK, Exclusive, Selections, WholeUnlessFault, OwnIsAside, [Next]_vars
  PROVE  WholeUnlessFault' /\ OwnIsAside'
<1>. USE DEF WholeUnlessFault, OwnIsAside, Holds, disk, report, counts
<1>1. CASE NextDay
  BY <1>1 DEF NextDay
<1>2. CASE Restart
  BY <1>2 DEF Restart, TypeOK
<1>3. ASSUME NEW w \in Ws, Flip(w) PROVE WholeUnlessFault' /\ OwnIsAside'
  BY <1>3 DEF Flip
<1>4. CASE UNCHANGED vars
  BY <1>4 DEF vars
<1>5. ASSUME NEW w \in Ws, RecoverStep(w) PROVE WholeUnlessFault' /\ OwnIsAside'
  <2>1. CASE faults' = faults
    BY <1>5, <2>1, RecoverWhole
  <2>2. CASE faults' # faults
    <3>1. GiveUp(w) /\ PutBackFails(w)
      BY <1>5, <2>2
         DEF RecoverStep, RecoverBegin, DryBegin, DryEnd, Select, SelectFails, Stop,
             PutAside, AsideFails, PutPlaceholder, RestoreTree, RestoreEnds, GiveUp,
             PutBack, Verify, SiteUp, SiteFails, Apply, LoadData, RecoverEnds, Lays
    <3>2. faults' # 0
      BY <3>1 DEF PutBackFails, TypeOK
    <3>3. \A v \in Ws : tree'[v] = "own" => tree[v] = "own"
      BY <3>1 DEF PutBackFails, TypeOK
    <3>4. \A v \in Ws : rec'[v] = "idle" \/ rec'[v] = rec[v]
      BY <3>1 DEF GiveUp, Release, Go, TypeOK
    <3>. QED  BY <3>2, <3>3, <3>4
  <2>. QED  BY <2>1, <2>2
<1>. QED  BY <1>1, <1>2, <1>3, <1>4, <1>5, RunWhole DEF Next

-----------------------------------------------------------------------------
(* The theorems *)

LEMMA InitInv == Init => IInv
<1>. SUFFICES ASSUME Init PROVE IInv
  OBVIOUS
<1>1. TypeOK
  BY InitType
<1>2. Exclusive /\ Selections /\ OwnIsAside /\ SameRun /\ FilesFirst
  BY DEF Init, Exclusive, Selections, OwnIsAside, SameRun, FilesFirst, Holds
<1>3. \A s \in repo : ~s.torn
  <2>. DEFINE First == [ws : Ws, kind : Kinds, run : {0}, day : {0}, torn : {FALSE}]
  <2>1. \A s \in First : s.torn = FALSE
    BY DEF First
  <2>2. repo = {} \/ repo = First
    BY Zenon DEF Init
  <2>. HIDE DEF First
  <2>. QED  BY <2>1, <2>2
<1>4. WholeUnlessFault
  BY <1>3 DEF Init, WholeUnlessFault, HalfWay, Holds
<1>5. EvenUnlessMissed
  <2>. DEFINE First == [ws : Ws, kind : Kinds, run : {0}, day : {0}, torn : {FALSE}]
  <2>1. repo = {} \/ repo = First
    BY Zenon DEF Init
  <2>2. ASSUME NEW w \in Ws, NEW j \in Kinds, NEW k \in Kinds
        PROVE  Covers(Series(w, j), Series(w, k))
    <3>1. CASE repo = {}
      BY <3>1 DEF Covers, Series
    <3>2. CASE repo = First
      <4>. DEFINE t == [ws |-> w, kind |-> k, run |-> 0, day |-> 0, torn |-> FALSE]
      <4>1. t \in First /\ t.ws = w /\ t.kind = k /\ t.run = 0 /\ t.day = 0
        OBVIOUS
      <4>2. \A s \in First : s.run = 0 /\ s.day = 0
        OBVIOUS
      <4>. HIDE DEF First, t
      <4>. QED  BY <3>2, <4>1, <4>2 DEF Covers, Series
    <3>. QED  BY <2>1, <3>1, <3>2
  <2>. QED  BY <2>2 DEF Init, EvenUnlessMissed, Between, Alike, Kinds
<1>. QED  BY <1>1, <1>2, <1>4, <1>5 DEF IInv

LEMMA NextKeeps == IInv /\ [Next]_vars => IInv'
  BY NextType, NextExclusive, NextSelections, NextWhole, NextEven DEF IInv

\* The inductive invariant: one user of the engine at a time, selections that
\* stay, whole trees, an own tree that is aside while another is laid, and trees and
\* dumps that come in pairs but for the uneven workspaces.
THEOREM Inductive == Spec => []IInv
  BY InitInv, NextKeeps, PTL DEF Spec

\* The variables hold what they are declared to hold, and a recovery selects
\* snapshots of its own workspace only (seriesTag).
THEOREM TypeCorrect == Spec => []TypeOK
<1>1. IInv => TypeOK
  BY DEF IInv
<1>. QED  BY <1>1, Inductive, PTL

\* A recovery point stays in the repository until its recovery ends (TryReserve).
THEOREM PointStays == Spec => []SelectedStays
<1>1. IInv => SelectedStays
  BY DEF IInv, Selections, SelectedStays
<1>. QED  BY <1>1, Inductive, PTL

\* A recovery takes the tree and the dump of one run, of every workspace of which no
\* run has left the one without the other or taken them on two days: retention prunes
\* both series alike (applyRetention), and nothing is chosen within a run (TryReserve).
THEOREM DumpMatchesTree == Spec => []SameRun
<1>1. IInv => SameRun
  BY DEF IInv
<1>. QED  BY <1>1, Inductive, PTL

\* Without a restart or a failed rollback no run captures a half-restored tree.
THEOREM SnapshotsWhole == Spec => []TornOnlyByFault
<1>1. IInv => TornOnlyByFault
  BY DEF IInv, TypeOK, WholeUnlessFault, TornOnlyByFault
<1>. QED  BY <1>1, Inductive, PTL

LEMMA StepKeepsOwn == IInv /\ [Next]_vars => \A v \in Ws : KeepsOwn(v)
<1>. SUFFICES ASSUME IInv, [Next]_vars, NEW v \in Ws, HasOwn(v)
              PROVE  HasOwn(v)' \/ (At(v, "done") /\ ok[v])
  BY DEF KeepsOwn
<1>. USE DEF IInv, TypeOK, HasOwn
<1>1. CASE UNCHANGED <<tree, aside>>
  BY <1>1
<1>2. CASE RunStep
  BY <1>1, <1>2 DEF RunStep, RunBegin, RunRefused, RunEnds, RunList, RunServerState,
                    RunRetain, RunFiles, RunDump, Capture, disk
<1>3. CASE NextDay \/ Restart \/ (\E w \in Ws : Flip(w)) \/ UNCHANGED vars
  BY <1>1, <1>3 DEF NextDay, Restart, Flip, vars, disk
<1>4. ASSUME NEW w \in Ws, RecoverStep(w)
      PROVE  HasOwn(v)' \/ (At(v, "done") /\ ok[v])
  <2>. USE DEF disk, At
  <2>1. CASE PutAside(w)
    BY <1>1, <2>1 DEF PutAside
  <2>2. ASSUME NEW there, aside' = aside, tree' = [tree EXCEPT ![w] = there],
               rec[w] \in {"placeholder", "restore", "restoring", "verify"}
        PROVE  HasOwn(v)'
    BY <2>2 DEF OwnIsAside
  <2>3. CASE PutPlaceholder(w) \/ RestoreTree(w) \/ RestoreEnds(w)
    BY <2>2, <2>3 DEF PutPlaceholder, RestoreTree, RestoreEnds, Lays
  <2>4. CASE GiveUp(w) /\ PutBack(w)
    BY <2>4 DEF GiveUp, PutBack, OwnIsAside
  <2>5. CASE GiveUp(w) /\ PutBackFails(w)
    BY <2>2, <2>5 DEF GiveUp, PutBackFails
  <2>6. CASE RecoverEnds(w)
    BY <2>6 DEF RecoverEnds, Discards
  <2>7. CASE RecoverBegin(w) \/ DryBegin(w) \/ DryEnd(w) \/ Select(w) \/ SelectFails(w)
    BY <1>1, <2>7 DEF RecoverBegin, DryBegin, DryEnd, Select, SelectFails
  <2>8. CASE Stop(w) \/ AsideFails(w) \/ Verify(w) \/ SiteUp(w) \/ SiteFails(w)
    BY <1>1, <2>8 DEF Stop, AsideFails, Verify, SiteUp, SiteFails
  <2>9. CASE Apply(w) \/ LoadData(w)
    BY <1>1, <2>9 DEF Apply, LoadData
  <2>. QED  BY <1>4, <2>1, <2>3, <2>4, <2>5, <2>6, <2>7, <2>8, <2>9
            DEF RecoverStep, GiveUp
<1>. QED  BY <1>2, <1>3, <1>4 DEF Next

\* The tree a workspace was built with is at its path or put aside, until a
\* recovery of it succeeds in every step (quarantineWorkspaceTree).
THEOREM OwnTreeSurvives == Spec => OwnTreeKept
<1>1. IInv /\ [Next]_vars => [\A w \in Ws : KeepsOwn(w)]_vars
  BY StepKeepsOwn
<1>. QED  BY <1>1, Inductive, PTL DEF Spec, OwnTreeKept

=============================================================================
