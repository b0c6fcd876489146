---------------------------- MODULE ServerUpdate ----------------------------
(***************************************************************************)
(* The binary of the automation server and the ways it is replaced: the    *)
(* update and the rollback of the server console, which hold               *)
(* serverUpdateMu and keep the last Depth binaries in a ledger, and        *)
(* `bitswan self-update [--rollback]` on the host, which holds no lock and *)
(* knows only the file beside the binary (.bak).  Every replacement ends   *)
(* with a restart of the daemon, which kills what the daemon was doing.    *)
(*                                                                         *)
(* A binary is a version, Bad (it does not run) or None (no file).  A row  *)
(* of the ledger is the number of the file that holds its binary: rows and *)
(* files are created under the lock, so both are numbered in one order.    *)
(***************************************************************************)
EXTENDS Integers, FiniteSets

CONSTANTS
  Admins,      \* the sessions of the console that can update the server
  Clis,        \* the shells on the host
  Versions,    \* the binaries that run
  Depth,       \* updateRollbackDepth
  MaxFiles,    \* bound: binaries ever saved in the ledger's directory
  MaxFaults    \* bound: crashes of the daemon and failing calls

ASSUME DepthAssumption == Depth \in Nat \ {0}
ASSUME BoundsAssumption == MaxFiles \in Nat /\ MaxFaults \in Nat

Bad  == "bad"
None == "none"
ASSUME VersionsAssumption == Bad \notin Versions /\ None \notin Versions
ASSUME ActorsAssumption == Admins \cap Clis = {} /\ None \notin Admins \cup Clis

Binaries == Versions \cup {Bad, None}
Actors   == Admins \cup Clis
FileIds  == 1 .. MaxFiles

VARIABLES
  live,      \* the file at hostBinaryPath
  bak,       \* the file beside it, .bak
  running,   \* the binary the daemon runs; None while it cannot start
  rows,      \* update_history, by the number of the saved file
  files,     \* the saved binaries
  nfiles,    \* how many were ever created
  lock,      \* serverUpdateMu: who holds it, or None
  armed,     \* a goroutine that is going to restart the daemon sleeps
  pc,        \* where each actor is
  job,       \* what it does: "update" or "rollback"
  tmp,       \* its temporary file
  prev,      \* the binary it read (the console) or has moved aside (the CLI)
  doomed,    \* the files of the rows it has pruned
  faults     \* crashes and failures so far

vars == <<live, bak, running, rows, files, nfiles, lock, armed, pc, job, tmp,
          prev, doomed, faults>>
disk   == <<live, bak>>
ledger == <<rows, files, nfiles>>
local  == <<job, tmp, prev, doomed>>

Init ==
  /\ live \in Versions /\ bak \in {live, None} /\ running = live
  /\ rows = {} /\ files = [f \in FileIds |-> None] /\ nfiles = 0
  /\ lock = None /\ armed = FALSE
  /\ pc = [a \in Actors |-> "idle"] /\ job = [a \in Actors |-> "update"]
  /\ tmp = [a \in Actors |-> None] /\ prev = [a \in Actors |-> None]
  /\ doomed = [a \in Actors |-> {}] /\ faults = 0

Go(a, label) == pc' = [pc EXCEPT ![a] = label]
At(a, label) == pc[a] = label

\* The handler returns: it unlocks, and what it held in memory is gone.
Return(a) ==
  /\ Go(a, "idle") /\ lock' = None
  /\ tmp' = [tmp EXCEPT ![a] = None] /\ prev' = [prev EXCEPT ![a] = None]

\* A call that fails: the handler answers with an error and unlocks.
GiveUp(a) ==
  /\ faults < MaxFaults /\ faults' = faults + 1 /\ Return(a)
  /\ UNCHANGED <<disk, running, ledger, armed, job, doomed>>

-----------------------------------------------------------------------------
(* The console's update: download, check, keep the old binary, swap, record. *)

\* The lock is not asked for.
BugNoTryLock(a) ==
  /\ At(a, "idle") /\ nfiles < MaxFiles
  /\ lock' = a /\ Go(a, "download") /\ job' = [job EXCEPT ![a] = "update"]
  /\ UNCHANGED <<disk, running, ledger, armed, tmp, prev, doomed, faults>>

\* TryLock; a second update is refused, not queued.
BeginUpdate(a) ==
  /\ At(a, "idle") /\ lock = None /\ nfiles < MaxFiles
  /\ lock' = a /\ Go(a, "download") /\ job' = [job EXCEPT ![a] = "update"]
  /\ UNCHANGED <<disk, running, ledger, armed, tmp, prev, doomed, faults>>

\* What arrives is any release, or a file that does not run.
Download(a) ==
  /\ At(a, "download")
  /\ \E b \in Versions \cup {Bad} : tmp' = [tmp EXCEPT ![a] = b]
  /\ Go(a, "verify")
  /\ UNCHANGED <<disk, running, ledger, lock, armed, job, prev, doomed, faults>>

DownloadFails(a) == At(a, "download") /\ GiveUp(a)

\* The temporary file is asked for its version before anything is replaced.
Verify(a) ==
  /\ At(a, "verify") /\ tmp[a] # Bad
  /\ prev' = [prev EXCEPT ![a] = live]
  /\ Go(a, IF live = None THEN "swap" ELSE "keep")
  /\ UNCHANGED <<disk, running, ledger, lock, armed, job, tmp, doomed, faults>>

VerifyFails(a) ==
  /\ At(a, "verify") /\ tmp[a] = Bad /\ Return(a)
  /\ UNCHANGED <<disk, running, ledger, armed, job, doomed, faults>>

\* os.WriteFile truncates, then writes: a restart in between leaves a stump.
OpenBak(a) ==
  /\ At(a, "keep") /\ bak' = Bad /\ Go(a, "fill")
  /\ UNCHANGED <<live, running, ledger, lock, armed, local, faults>>

FillBak(a) ==
  /\ At(a, "fill") /\ bak' = prev[a] /\ Go(a, "swap")
  /\ UNCHANGED <<live, running, ledger, lock, armed, local, faults>>

\* What follows the swap: the update records, the rollback has done so.
AfterSwap(a) ==
  IF job[a] = "update" /\ prev[a] # None THEN "save" ELSE "arm"

\* The rename is atomic.  A rollback does not run its binary first: what its row
\* holds is installed as it is.
Swap(a) ==
  /\ At(a, "swap") /\ live' = tmp[a] /\ Go(a, AfterSwap(a))
  /\ UNCHANGED <<bak, running, ledger, lock, armed, local, faults>>

SwapFails(a) == At(a, "swap") /\ GiveUp(a)

-----------------------------------------------------------------------------
(* recordServerUpdate: the file, the row, the pruned rows, their files. *)

\* Where the recording leads: the update is done, the rollback goes on.
Recorded(a) == IF job[a] = "update" THEN "arm" ELSE "keep"

SaveFile(a) ==
  /\ At(a, "save") /\ nfiles < MaxFiles
  /\ nfiles' = nfiles + 1 /\ files' = [files EXCEPT ![nfiles + 1] = prev[a]]
  /\ Go(a, "insert")
  /\ UNCHANGED <<disk, running, rows, lock, armed, local, faults>>

\* The directory or the file cannot be written; the operation goes on.
SaveFails(a) ==
  /\ At(a, "save") /\ faults < MaxFaults /\ faults' = faults + 1
  /\ Go(a, Recorded(a))
  /\ UNCHANGED <<disk, running, ledger, lock, armed, local>>

InsertRow(a) ==
  /\ At(a, "insert") /\ rows' = rows \cup {nfiles} /\ Go(a, "prune")
  /\ UNCHANGED <<disk, running, files, nfiles, lock, armed, local, faults>>

InsertFails(a) ==
  /\ At(a, "insert") /\ faults < MaxFaults /\ faults' = faults + 1
  /\ files' = [files EXCEPT ![nfiles] = None] /\ Go(a, Recorded(a))
  /\ UNCHANGED <<disk, running, rows, nfiles, lock, armed, local>>

\* ORDER BY id ASC.
BugKeepsOldest(rs) == {r \in rs : Cardinality({x \in rs : x < r}) < Depth}

\* The rows a rollback may name: the newest Depth of them.
Window(rs) == {r \in rs : Cardinality({x \in rs : x > r}) < Depth}

\* The files are removed while their rows are still there.
BugFilesFirst(a) ==
  /\ At(a, "prune")
  /\ files' = [f \in FileIds |-> IF f \in rows \ Window(rows) THEN None
                                ELSE files[f]]
  /\ Go(a, "sweep")
  /\ UNCHANGED <<disk, running, rows, nfiles, lock, armed, local, faults>>

PruneRows(a) ==
  /\ At(a, "prune")
  /\ doomed' = [doomed EXCEPT ![a] = rows \ Window(rows)]
  /\ rows' = Window(rows) /\ Go(a, "sweep")
  /\ UNCHANGED <<disk, running, files, nfiles, lock, armed, job, tmp, prev, faults>>

\* A DELETE fails after some of them: no file is removed.
PruneFails(a) ==
  /\ At(a, "prune") /\ faults < MaxFaults /\ faults' = faults + 1
  /\ \E gone \in SUBSET (rows \ Window(rows)) : rows' = rows \ gone
  /\ Go(a, Recorded(a))
  /\ UNCHANGED <<disk, running, files, nfiles, lock, armed, local>>

SweepFiles(a) ==
  /\ At(a, "sweep")
  /\ files' = [f \in FileIds |-> IF f \in doomed[a] THEN None ELSE files[f]]
  /\ doomed' = [doomed EXCEPT ![a] = {}] /\ Go(a, Recorded(a))
  /\ UNCHANGED <<disk, running, rows, nfiles, lock, armed, job, tmp, prev, faults>>

\* Only an update restarts the daemon.
BugRollbackNoRestart(a) ==
  /\ At(a, "arm") /\ armed' = (armed \/ job[a] = "update") /\ Return(a)
  /\ UNCHANGED <<disk, running, ledger, job, doomed, faults>>

\* The last event is sent, the restart is left to a goroutine, the lock is
\* released on return.
Arm(a) ==
  /\ At(a, "arm") /\ armed' = TRUE /\ Return(a)
  /\ UNCHANGED <<disk, running, ledger, job, doomed, faults>>

-----------------------------------------------------------------------------
(* The console's rollback: to a row of the window, read before the          *)
(* recording may prune it, and recorded before the swap.                    *)

BeginRollback(a) ==
  /\ At(a, "idle") /\ lock = None /\ nfiles < MaxFiles
  /\ \E r \in Window(rows) :
       /\ files[r] # None
       /\ tmp' = [tmp EXCEPT ![a] = files[r]]
  /\ lock' = a /\ job' = [job EXCEPT ![a] = "rollback"] /\ Go(a, "current")
  /\ UNCHANGED <<disk, running, ledger, armed, prev, doomed, faults>>

ReadCurrent(a) ==
  /\ At(a, "current") /\ prev' = [prev EXCEPT ![a] = live]
  /\ Go(a, IF live = None THEN "swap" ELSE "save")
  /\ UNCHANGED <<disk, running, ledger, lock, armed, job, tmp, doomed, faults>>

-----------------------------------------------------------------------------
(* bitswan self-update on the host. *)

CliReturn(c) == Go(c, "idle") /\ tmp' = [tmp EXCEPT ![c] = None]

\* Download and check; what fails the check is not installed.
CliFetch(c) ==
  /\ At(c, "idle")
  /\ \E v \in Versions : tmp' = [tmp EXCEPT ![c] = v]
  /\ Go(c, "aside")
  /\ UNCHANGED <<disk, running, ledger, lock, armed, job, prev, doomed, faults>>

\* rename(binary, .bak); without a binary it fails and nothing has happened.
CliAside(c) ==
  /\ At(c, "aside")
  /\ IF live = None THEN CliReturn(c) /\ UNCHANGED disk
     ELSE Go(c, "install") /\ bak' = live /\ live' = None /\ UNCHANGED tmp
  /\ UNCHANGED <<running, ledger, lock, armed, job, prev, doomed, faults>>

CliInstall(c) ==
  /\ At(c, "install") /\ live' = tmp[c] /\ Go(c, "recreate")
  /\ UNCHANGED <<bak, running, ledger, lock, armed, local, faults>>

\* The second rename fails: the first is taken back.
CliUndo(c) ==
  /\ At(c, "install") /\ faults < MaxFaults /\ faults' = faults + 1
  /\ IF bak = None THEN UNCHANGED disk ELSE live' = bak /\ bak' = None
  /\ CliReturn(c)
  /\ UNCHANGED <<running, ledger, lock, armed, job, prev, doomed>>

\* self-update --rollback: the binary and .bak change places.
CliSwapOut(c) ==
  /\ At(c, "idle") /\ bak # None /\ live # None
  /\ tmp' = [tmp EXCEPT ![c] = live] /\ live' = None
  /\ Go(c, "swap_in")
  /\ UNCHANGED <<bak, running, ledger, lock, armed, job, prev, doomed, faults>>

CliSwapIn(c) ==
  /\ At(c, "swap_in")
  /\ IF bak = None THEN live' = tmp[c] /\ CliReturn(c) /\ UNCHANGED bak
     ELSE live' = bak /\ bak' = None /\ Go(c, "keep_old") /\ UNCHANGED tmp
  /\ UNCHANGED <<running, ledger, lock, armed, job, prev, doomed, faults>>

CliKeepOld(c) ==
  /\ At(c, "keep_old") /\ bak' = tmp[c] /\ Go(c, "recreate")
  /\ UNCHANGED <<live, running, ledger, lock, armed, local, faults>>

-----------------------------------------------------------------------------
(* The daemon comes up on what is installed; what it was doing is gone. *)

Boot(cpc) ==
  /\ running' = IF live \in Versions THEN live ELSE None
  /\ pc' = [a \in Actors |-> IF a \in Admins THEN "idle" ELSE cpc[a]]
  /\ lock' = None /\ armed' = FALSE
  /\ tmp' = [a \in Actors |-> IF pc'[a] = "idle" THEN None ELSE tmp[a]]
  /\ prev' = [a \in Actors |-> None] /\ doomed' = [a \in Actors |-> {}]
  /\ UNCHANGED <<disk, ledger, job>>

Restart == armed /\ Boot(pc) /\ UNCHANGED faults

Crash == faults < MaxFaults /\ faults' = faults + 1 /\ Boot(pc)

CliRecreate(c) ==
  /\ At(c, "recreate") /\ Boot([pc EXCEPT ![c] = "idle"]) /\ UNCHANGED faults

-----------------------------------------------------------------------------
\* A console serves its requests only while the daemon runs.
ConsoleStep(a) ==
  \/ BeginUpdate(a) \/ Download(a) \/ DownloadFails(a) \/ Verify(a)
  \/ VerifyFails(a) \/ OpenBak(a) \/ FillBak(a) \/ Swap(a) \/ SwapFails(a)
  \/ SaveFile(a) \/ SaveFails(a) \/ InsertRow(a) \/ InsertFails(a)
  \/ PruneRows(a) \/ PruneFails(a) \/ SweepFiles(a) \/ Arm(a)
  \/ BeginRollback(a) \/ ReadCurrent(a)

Console(a) == running # None /\ ConsoleStep(a)

Cli(c) ==
  \/ CliFetch(c) \/ CliAside(c) \/ CliInstall(c) \/ CliUndo(c) \/ CliSwapOut(c)
  \/ CliSwapIn(c) \/ CliKeepOld(c) \/ CliRecreate(c)

Next ==
  \/ \E a \in Admins : Console(a)
  \/ \E c \in Clis : Cli(c)
  \/ Restart \/ Crash

Spec == Init /\ [][Next]_vars

\* Nothing is left half done but by a crash: every step of an operation that
\* has begun, and the restart it has armed, eventually happen.
FairSpec ==
  /\ Spec
  /\ WF_vars(Restart)
  /\ \A a \in Admins : WF_vars(Console(a) /\ ~ At(a, "idle"))
  /\ \A c \in Clis : WF_vars(Cli(c) /\ ~ At(c, "idle"))

-----------------------------------------------------------------------------
ConsolePcs == {"idle", "download", "verify", "keep", "fill", "swap", "save",
               "insert", "prune", "sweep", "arm", "current"}
CliPcs == {"idle", "aside", "install", "recreate", "swap_in", "keep_old"}

\* Every variable keeps its shape, and the lock is held by the one session of
\* the console that is at work, by none when all are idle.
TypeOK ==
  /\ live \in Binaries /\ bak \in Binaries /\ running \in Versions \cup {None}
  /\ rows \subseteq 1 .. nfiles /\ nfiles \in 0 .. MaxFiles
  /\ files \in [FileIds -> Binaries]
  /\ lock \in Admins \cup {None} /\ armed \in BOOLEAN
  /\ pc \in [Actors -> ConsolePcs \cup CliPcs]
  /\ \A a \in Admins : At(a, "idle") <=> lock # a
  /\ job \in [Actors -> {"update", "rollback"}]
  /\ tmp \in [Actors -> Binaries] /\ prev \in [Actors -> Binaries]
  /\ doomed \in [Actors -> SUBSET FileIds] /\ faults \in 0 .. MaxFaults

\* A row of the ledger has its binary on the disk, whenever the daemon is killed:
\* the file is written before the row and removed after it.
RowsHaveFiles == \A r \in rows : files[r] # None

\* Whatever the console did can be undone: when it is through, the newest row
\* holds the binary it replaced, unless a call has failed.
Reversible ==
  faults = 0 =>
    \A a \in Admins : At(a, "arm") /\ prev[a] # None =>
      nfiles \in rows /\ files[nfiles] = prev[a]

\* Once the console has installed a binary the daemon comes to run what is
\* installed, unless the host has moved it aside or put back a broken one.
DaemonCatchesUp ==
  \A a \in Admins : At(a, "arm") ~> (running = live \/ live \notin Versions)
=============================================================================
