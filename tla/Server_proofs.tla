---------------------------- MODULE Server_proofs ----------------------------
(***************************************************************************)
(* Proofs about the automation server itself: the recovery of a lost one   *)
(* (ServerRecovery, whose specification has names of its own for the       *)
(* purpose) and the replacement of its binary (ServerUpdate).  The two do  *)
(* not interact, and no fact about one is used for the other.              *)
(***************************************************************************)
EXTENDS ServerRecovery, ServerUpdate, FiniteSetTheorems, TLAPS

-----------------------------------------------------------------------------
(* The recovery, for any set of workspaces and any number of attempts and of *)
(* backups.                                                                  *)

(***************************************************************************)
(* The inductive invariant follows the command from phase to phase.  What  *)
(* the preflight has found out stays true until it is used, because only   *)
(* the command itself issues a token; what a phase has put on the volume   *)
(* stays there, because nothing removes it; and the workspaces named by    *)
(* the manifest are all there were, unless a backup has said otherwise.    *)
(***************************************************************************)
Keyed      == {"manifest", "exchange"} \cup Late
PastDaemon == {"credentials", "list", "workspaces"}
PastKey    == {"daemon"} \cup PastDaemon
PastBase   == {"key"} \cup PastKey

Preflight ==
  /\ phase \in {"probe", "manifest", "exchange"} => accepted <= attempts
  /\ phase \in {"probe", "manifest"} /\ resumed => token = accepted
  /\ phase \in {"probe", "manifest"} => left = {}
  /\ phase = "exchange" => ~resumed
  /\ phase \in Keyed => keyGood
  /\ HoldsLiveToken

Laid ==
  /\ phase \in PastBase => "database" \in volume
  /\ phase \in PastKey => "key" \in volume
  /\ phase \in PastDaemon => daemon
  /\ busy => stored # NoToken

Named ==
  /\ ~half => saved.ws = Ws
  /\ phase \in {"exchange"} \cup Late => (~half => names = Ws)
  /\ phase = "workspaces" => names \ left \subseteq back
  /\ phase = "workspaces" /\ left # names => stored = accepted

RecoveryInv == RecoveryTypeOK /\ Preflight /\ Laid /\ Named

-----------------------------------------------------------------------------

LEMMA InitRecoveryInv == RecoveryInit => RecoveryInv
<1>. SUFFICES ASSUME RecoveryInit PROVE RecoveryInv
  OBVIOUS
<1>. USE DEF RecoveryInit
<1>1. saved \in [token : 1 .. accepted, ws : SUBSET Ws] /\ saved.ws = Ws
  OBVIOUS
<1>2. RecoveryTypeOK
  <2>1. /\ {keyGood, resumed, daemon, half} \subseteq BOOLEAN
        /\ phase \in Early
    BY Zenon DEF Early
  <2>2. /\ accepted \in 1 .. attempts + 1 /\ {token, stored, taken} \subseteq NoToken .. accepted
        /\ attempts \in 0 .. MaxAttempts /\ backups \in 0 .. MaxBackups
    BY RecoveryBounds DEF NoToken
  <2>3. /\ names \subseteq Ws /\ left \subseteq names /\ back \subseteq Ws
        /\ volume \subseteq {"copy", "database", "key"}
    OBVIOUS
  <2>. QED  BY <1>1, <2>1, <2>2, <2>3, Zenon DEF RecoveryTypeOK
<1>3. Preflight /\ Laid /\ Named
  BY <1>1 DEF Preflight, HoldsLiveToken, Laid, Named, Keyed, PastBase, PastKey,
         PastDaemon, Late, busy
<1>. QED  BY <1>2, <1>3 DEF RecoveryInv

\* The steps of the preflight, which change nothing but what the command knows,
\* up to the one that replaces the token.
LEMMA PreflightKeeps ==
  ASSUME RecoveryInv, Start \/ Probe \/ ReadManifest \/ Exchange
  PROVE  RecoveryInv'
<1>. USE RecoveryBounds
     DEF RecoveryInv, RecoveryTypeOK, Preflight, HoldsLiveToken, Laid, Named, Keyed,
         PastBase, PastKey, PastDaemon, Early, Late, NoToken, busy, Doing, To, machine, boot, cloud
<1>1. CASE Start
  <2>1. /\ phase = "idle" /\ phase' = "probe"
        /\ names' = {} /\ left' = {} /\ keyGood' \in BOOLEAN
        /\ UNCHANGED <<machine, boot, cloud>>
    BY <1>1 DEF Start, Attempt
  <2>2. /\ attempts' \in 0 .. MaxAttempts /\ accepted <= attempts'
        /\ accepted \in 1 .. attempts' + 1
    BY <1>1 DEF Start, Attempt
  <2>3. resumed' \in BOOLEAN /\ (resumed' => stored = accepted)
    BY <1>1, Zenon DEF Start, Attempt
  <2>4. token' \in {stored, NoToken} /\ (resumed' => token' = accepted)
    BY <1>1, Zenon DEF Start, Attempt
  <2>5. RecoveryTypeOK'
    <3>1. /\ accepted' = accepted /\ stored' = stored /\ taken' = taken
          /\ {token', stored', taken'} \subseteq NoToken .. accepted'
      BY <2>1, <2>4
    <3>2. phase' \in Early \cup Late /\ left' \subseteq names' /\ names' \subseteq Ws
      BY <2>1
    <3>3. /\ back' \subseteq Ws /\ volume' \subseteq {"copy", "database", "key"}
          /\ {daemon', half'} \subseteq BOOLEAN /\ backups' \in 0 .. MaxBackups
          /\ saved' \in [token : 1 .. accepted', ws : SUBSET Ws]
      BY <2>1
    <3>. QED  BY <2>1, <2>2, <2>3, <3>1, <3>2, <3>3, Zenon DEF RecoveryTypeOK
  <2>6. Preflight' /\ Laid' /\ Named'
    BY <2>1, <2>2, <2>4
  <2>. QED  BY <2>5, <2>6
<1>2. CASE Probe
  BY <1>2 DEF Probe
<1>3. CASE ReadManifest
  BY <1>3 DEF ReadManifest
<1>4. CASE Exchange
  BY <1>4 DEF Exchange, Redeem
<1>. QED  BY <1>1, <1>2, <1>3, <1>4

\* The steps that rebuild the state of the server.
LEMMA StateKeeps ==
  ASSUME RecoveryInv, \/ RestoreState \/ PromoteDatabase \/ InstallKey \/ DeployDaemon
                      \/ StoreCredentials
  PROVE  RecoveryInv'
<1>. USE RecoveryBounds
     DEF RecoveryInv, RecoveryTypeOK, Preflight, HoldsLiveToken, Laid, Named, Keyed,
         PastBase, PastKey, PastDaemon, Early, Late, NoToken, busy, Doing, To, machine, boot, cloud
<1>1. CASE RestoreState
  BY <1>1 DEF RestoreState
<1>2. CASE PromoteDatabase
  BY <1>2 DEF PromoteDatabase
<1>3. CASE InstallKey
  BY <1>3 DEF InstallKey
<1>4. CASE DeployDaemon
  BY <1>4 DEF DeployDaemon
<1>5. CASE StoreCredentials
  BY <1>5 DEF StoreCredentials
<1>. QED  BY <1>1, <1>2, <1>3, <1>4, <1>5

\* The workspaces, and the end of the command.
LEMMA WorkspacesKeep ==
  ASSUME RecoveryInv, \/ ListWorkspaces \/ \E w \in Ws : RecoverWorkspace(w)
                      \/ Finish \/ Fail
  PROVE  RecoveryInv'
<1>. USE RecoveryBounds
     DEF RecoveryInv, RecoveryTypeOK, Preflight, HoldsLiveToken, Laid, Named, Keyed,
         PastBase, PastKey, PastDaemon, Early, Late, NoToken, busy, Doing, To, machine, boot, cloud
<1>1. CASE ListWorkspaces
  BY <1>1 DEF ListWorkspaces
<1>2. ASSUME NEW w \in Ws, RecoverWorkspace(w) PROVE RecoveryInv'
  BY <1>2 DEF RecoverWorkspace
<1>3. CASE Finish \/ Fail
  BY <1>3 DEF Finish, Fail, Ends
<1>. QED  BY <1>1, <1>2, <1>3

\* The new daemon: a backup it saves while a workspace is missing is remembered.
LEMMA DaemonKeeps ==
  ASSUME RecoveryInv, BackupBegin \/ BackupEnd \/ DaemonRestart
  PROVE  RecoveryInv'
<1>. USE RecoveryBounds
     DEF RecoveryInv, RecoveryTypeOK, Preflight, HoldsLiveToken, Laid, Named, Keyed,
         PastBase, PastKey, PastDaemon, Early, Late, NoToken, busy, cli, machine, boot, cloud
<1>1. CASE BackupBegin
  BY <1>1 DEF BackupBegin
<1>2. CASE BackupEnd /\ UNCHANGED <<saved, half>>
  BY <1>2 DEF BackupEnd
<1>4. CASE BackupEnd /\ taken = accepted /\ saved' = [token |-> stored, ws |-> back]
           /\ half' = (half \/ back # Ws)
  <2>1. UNCHANGED <<daemon, cli, machine, accepted, backups>> /\ taken' = NoToken
    BY <1>4 DEF BackupEnd
  <2>2. half' \in BOOLEAN /\ (~half' => ~half /\ back = Ws)
    BY <1>4, Zenon
  <2>3. saved' \in [token : 1 .. accepted, ws : SUBSET Ws] /\ saved'.ws = back
    BY <1>4
  <2>4. RecoveryTypeOK'
    BY <2>1, <2>2, <2>3
  <2>5. Preflight' /\ Laid' /\ Named'
    BY <2>1, <2>2, <2>3
  <2>. QED  BY <2>4, <2>5
<1>3. CASE DaemonRestart
  BY <1>3 DEF DaemonRestart
<1>. QED  BY <1>1, <1>2, <1>3, <1>4 DEF BackupEnd

LEMMA NextKeeps == RecoveryInv /\ [RecoveryNext]_recoveryVars => RecoveryInv'
<1>1. RecoveryInv /\ UNCHANGED recoveryVars => RecoveryInv'
  BY DEF recoveryVars, cli, machine, boot, cloud, RecoveryInv, RecoveryTypeOK,
         Preflight, HoldsLiveToken, Laid, Named, busy
<1>. QED
  BY <1>1, PreflightKeeps, StateKeeps, WorkspacesKeep, DaemonKeeps DEF RecoveryNext

-----------------------------------------------------------------------------
(* Theorems *)

\* What every phase of a recovery may rely on.
THEOREM RecoveryInductive == RecoverySpec => []RecoveryInv
<1>. QED  BY InitRecoveryInv, NextKeeps, PTL DEF RecoverySpec

\* The state of the command, the volume and the repository stays well formed, and
\* there are never more tokens than attempts.
THEOREM RecoveryTyped == RecoverySpec => []RecoveryTypeOK
<1>1. RecoveryInv => RecoveryTypeOK
  BY DEF RecoveryInv
<1>. QED  BY <1>1, RecoveryInductive, PTL

\* Past the preflight the command holds the one token the AOC accepts, however
\* often it was interrupted before (existingWorkingToken).
THEOREM TokenLives == RecoverySpec => []HoldsLiveToken
<1>1. RecoveryInv => HoldsLiveToken
  BY DEF RecoveryInv, Preflight
<1>. QED  BY <1>1, RecoveryInductive, PTL

\* No password is redeemed by a command whose key does not open the repository.
THEOREM KeyComesFirst == RecoverySpec => NothingSpentInVain
<1>1. RecoveryInv /\ [RecoveryNext]_recoveryVars =>
        [accepted' # accepted => keyGood]_recoveryVars
  <2>. SUFFICES ASSUME RecoveryInv, RecoveryNext, accepted' # accepted PROVE keyGood
    OBVIOUS
  <2>1. Exchange
    BY DEF RecoveryNext, Start, Attempt, Probe, ReadManifest, RestoreState, PromoteDatabase,
           InstallKey, DeployDaemon, StoreCredentials, ListWorkspaces, RecoverWorkspace,
           Finish, Fail, Ends, BackupBegin, BackupEnd, DaemonRestart, cloud
  <2>. QED  BY <2>1 DEF RecoveryInv, Preflight, Keyed, Exchange, Redeem, Doing
<1>. QED  BY <1>1, RecoveryInductive, PTL DEF RecoverySpec, NothingSpentInVain

\* A recovery that reports success has rebuilt the whole server, whatever failed
\* on the way, unless a backup of the half-restored server became the newest.
THEOREM SuccessIsWhole == RecoverySpec => DoneMeansWhole
<1>1. RecoveryInv /\ [RecoveryNext]_recoveryVars => [Finish => Whole]_recoveryVars
  <2>. SUFFICES ASSUME RecoveryInv, Finish PROVE Whole
    OBVIOUS
  <2>1. phase = "workspaces" /\ left = {}
    BY DEF Finish, Doing
  <2>2. {"database", "key"} \subseteq volume /\ daemon
    BY <2>1 DEF RecoveryInv, Laid, PastBase, PastKey, PastDaemon
  <2>3. names # {} => stored = accepted
    BY <2>1 DEF RecoveryInv, Named
  <2>4. half \/ back = Ws
    BY <2>1 DEF RecoveryInv, Named, RecoveryTypeOK, Late
  <2>. QED  BY <2>2, <2>3, <2>4 DEF Whole
<1>. QED  BY <1>1, RecoveryInductive, PTL DEF RecoverySpec, DoneMeansWhole

-----------------------------------------------------------------------------
(* The update and the rollback of the binary: types, the lock, the ledger's *)
(* files, and that what the console did can be undone.                      *)

\* What a session of the console at work knows: what it saves exists, the file it
\* has saved is still without a row, and what it has pruned is out of the ledger.
AtWork(a) ==
  /\ At(a, "save") => prev[a] # None
  /\ At(a, "insert") => /\ nfiles \in FileIds /\ nfiles \notin rows
                        /\ files[nfiles] # None
  /\ doomed[a] \cap rows = {}
  /\ doomed[a] # {} => At(a, "sweep")

Ledger == RowsHaveFiles /\ \A a \in Admins : AtWork(a)

IInv == TypeOK /\ Ledger

LEMMA WindowInRows == Window(rows) \subseteq rows
BY DEF Window

LEMMA RowsAreFiles ==
  ASSUME rows \subseteq 1 .. nfiles, nfiles \in 0 .. MaxFiles PROVE rows \subseteq FileIds
BY BoundsAssumption DEF FileIds

USE VersionsAssumption, ActorsAssumption, BoundsAssumption
    DEF Actors, Binaries, FileIds, At, Go, disk, ledger, local, ConsolePcs, CliPcs

LEMMA InitIInv == Init => IInv
<1> SUFFICES ASSUME Init PROVE IInv
  OBVIOUS
<1>1. TypeOK
  <2>1. /\ pc \in [Actors -> ConsolePcs \cup CliPcs]
        /\ job \in [Actors -> {"update", "rollback"}]
        /\ tmp \in [Actors -> Binaries] /\ prev \in [Actors -> Binaries]
        /\ doomed \in [Actors -> SUBSET FileIds]
    BY DEF Init
  <2>2. nfiles \in 0 .. MaxFiles /\ faults \in 0 .. MaxFaults /\ rows \subseteq 1 .. nfiles
    BY DEF Init
  <2>3. files \in [FileIds -> Binaries] /\ live \in Binaries /\ bak \in Binaries
    BY DEF Init
  <2>4. \A a \in Admins : At(a, "idle") /\ lock # a
    BY DEF Init
  <2>5. running \in Versions \cup {None} /\ lock \in Admins \cup {None} /\ armed \in BOOLEAN
    BY DEF Init
  <2>6. QED BY <2>1, <2>2, <2>3, <2>4, <2>5 DEF TypeOK
<1>2. Ledger
  BY DEF Init, Ledger, RowsHaveFiles, AtWork
<1>3. QED BY <1>1, <1>2 DEF IInv

LEMMA ConsoleTypes ==
  ASSUME TypeOK, NEW a \in Admins, AtWork(a), ConsoleStep(a)
  PROVE TypeOK'
<1> USE DEF TypeOK
<1>1. CASE BeginUpdate(a) BY <1>1 DEF BeginUpdate
<1>2. CASE Download(a) BY <1>2 DEF Download
<1>3. CASE DownloadFails(a) BY <1>3 DEF DownloadFails, GiveUp, Return
<1>4. CASE Verify(a) BY <1>4 DEF Verify
<1>5. CASE VerifyFails(a) BY <1>5 DEF VerifyFails, Return
<1>6. CASE OpenBak(a) BY <1>6 DEF OpenBak
<1>7. CASE FillBak(a) BY <1>7 DEF FillBak
<1>8. CASE Swap(a) BY <1>8 DEF Swap, AfterSwap
<1>9. CASE SwapFails(a) BY <1>9 DEF SwapFails, GiveUp, Return
<1>10. CASE SaveFile(a) BY <1>10 DEF SaveFile
<1>11. CASE SaveFails(a) BY <1>11 DEF SaveFails, Recorded
<1>12. CASE InsertRow(a)
  <2>1. nfiles \in 1 .. nfiles
    BY <1>12 DEF InsertRow, AtWork
  <2>2. QED BY <1>12, <2>1 DEF InsertRow
<1>13. CASE InsertFails(a)
  <2>1. files' \in [FileIds -> Binaries]
    BY <1>13 DEF InsertFails
  <2>2. Recorded(a) \in ConsolePcs \ {"idle"}
    BY DEF Recorded
  <2>3. faults' \in 0 .. MaxFaults
    BY <1>13 DEF InsertFails
  <2>4. QED BY <1>13, <2>1, <2>2, <2>3 DEF InsertFails
<1>14. CASE PruneRows(a)
  <2>1. rows' \subseteq 1 .. nfiles
    BY <1>14, WindowInRows DEF PruneRows
  <2>2. doomed' \in [Actors -> SUBSET FileIds]
    BY <1>14, RowsAreFiles DEF PruneRows
  <2>3. QED BY <1>14, <2>1, <2>2 DEF PruneRows
<1>15. CASE PruneFails(a) BY <1>15 DEF PruneFails, Recorded
<1>16. CASE SweepFiles(a) BY <1>16 DEF SweepFiles, Recorded
<1>17. CASE Arm(a) BY <1>17 DEF Arm, Return
<1>18. CASE BeginRollback(a)
  <2>1. PICK r \in Window(rows) : tmp' = [tmp EXCEPT ![a] = files[r]]
    BY <1>18 DEF BeginRollback
  <2>2. r \in FileIds
    BY WindowInRows, RowsAreFiles
  <2>3. QED BY <1>18, <2>1, <2>2 DEF BeginRollback
<1>19. CASE ReadCurrent(a) BY <1>19 DEF ReadCurrent
<1>20. QED
  BY <1>1, <1>2, <1>3, <1>4, <1>5, <1>6, <1>7, <1>8, <1>9, <1>10, <1>11, <1>12,
     <1>13, <1>14, <1>15, <1>16, <1>17, <1>18, <1>19 DEF ConsoleStep

\* The files and rows of the ledger under each step of the console.
LEMMA ConsoleLedger ==
  ASSUME IInv, NEW a \in Admins, ConsoleStep(a)
  PROVE Ledger'
<1> USE DEF IInv, Ledger, TypeOK, RowsHaveFiles, AtWork
<1>0. \A b \in Admins \ {a} : pc[a] # "idle" => pc[b] = "idle"
  OBVIOUS
<1>1. CASE BeginUpdate(a) BY <1>1 DEF BeginUpdate
<1>2. CASE Download(a) BY <1>2 DEF Download
<1>3. CASE DownloadFails(a) BY <1>3 DEF DownloadFails, GiveUp, Return
<1>4. CASE Verify(a) BY <1>4 DEF Verify
<1>5. CASE VerifyFails(a) BY <1>5 DEF VerifyFails, Return
<1>6. CASE OpenBak(a) BY <1>6 DEF OpenBak
<1>7. CASE FillBak(a) BY <1>7 DEF FillBak
<1>8. CASE Swap(a) BY <1>8 DEF Swap, AfterSwap
<1>9. CASE SwapFails(a) BY <1>9 DEF SwapFails, GiveUp, Return
<1>10. CASE SaveFile(a) BY <1>0, <1>10 DEF SaveFile
<1>11. CASE SaveFails(a) BY <1>11 DEF SaveFails, Recorded
<1>12. CASE InsertRow(a)
  <2>1. \A b \in Admins : doomed[b] = {}
    BY <1>0, <1>12 DEF InsertRow
  <2>2. QED BY <1>0, <1>12, <2>1 DEF InsertRow
<1>13. CASE InsertFails(a) BY <1>0, <1>13 DEF InsertFails, Recorded
<1>14. CASE PruneRows(a)
  <2>1. \A b \in Admins \ {a} : doomed[b] = {}
    BY <1>0, <1>14 DEF PruneRows
  <2>2. QED BY <1>0, <1>14, <2>1, WindowInRows DEF PruneRows
<1>15. CASE PruneFails(a) BY <1>0, <1>15 DEF PruneFails, Recorded
<1>16. CASE SweepFiles(a) BY <1>0, <1>16 DEF SweepFiles, Recorded
<1>17. CASE Arm(a) BY <1>17 DEF Arm, Return
<1>18. CASE BeginRollback(a) BY <1>18 DEF BeginRollback
<1>19. CASE ReadCurrent(a) BY <1>19 DEF ReadCurrent
<1>20. QED
  BY <1>1, <1>2, <1>3, <1>4, <1>5, <1>6, <1>7, <1>8, <1>9, <1>10, <1>11, <1>12,
     <1>13, <1>14, <1>15, <1>16, <1>17, <1>18, <1>19 DEF ConsoleStep

\* The daemon comes up with no session of the console at work.
LEMMA BootIInv ==
  ASSUME IInv, NEW cpc \in [Actors -> ConsolePcs \cup CliPcs], Boot(cpc),
         faults' \in 0 .. MaxFaults
  PROVE IInv'
<1> USE DEF IInv, TypeOK, Ledger, RowsHaveFiles, AtWork, Boot
<1>1. pc' \in [Actors -> ConsolePcs \cup CliPcs]
  OBVIOUS
<1>2. tmp' \in [Actors -> Binaries] /\ prev' \in [Actors -> Binaries]
  OBVIOUS
<1>3. doomed' \in [Actors -> SUBSET FileIds]
  OBVIOUS
<1>4. \A a \in Admins : At(a, "idle")' /\ lock' # a
  OBVIOUS
<1>5. TypeOK'
  BY <1>1, <1>2, <1>3, <1>4
<1>6. Ledger'
  BY <1>4
<1>7. QED BY <1>5, <1>6

\* A shell on the host touches neither the lock nor the ledger.
LEMMA CliIInv ==
  ASSUME IInv, NEW c \in Clis, Cli(c)
  PROVE IInv'
<1> USE DEF IInv, TypeOK, Ledger, RowsHaveFiles, AtWork
<1>1. CASE CliFetch(c) BY <1>1 DEF CliFetch
<1>2. CASE CliAside(c) BY <1>2 DEF CliAside, CliReturn
<1>3. CASE CliInstall(c) BY <1>3 DEF CliInstall
<1>4. CASE CliUndo(c) BY <1>4 DEF CliUndo, CliReturn
<1>5. CASE CliSwapOut(c) BY <1>5 DEF CliSwapOut
<1>6. CASE CliSwapIn(c) BY <1>6 DEF CliSwapIn, CliReturn
<1>7. CASE CliKeepOld(c) BY <1>7 DEF CliKeepOld
<1>8. CASE CliRecreate(c)
  <2>1. [pc EXCEPT ![c] = "idle"] \in [Actors -> ConsolePcs \cup CliPcs]
    OBVIOUS
  <2>2. Boot([pc EXCEPT ![c] = "idle"]) /\ faults' \in 0 .. MaxFaults
    BY <1>8 DEF CliRecreate
  <2> DEFINE after == [pc EXCEPT ![c] = "idle"]
  <2>3. after \in [Actors -> ConsolePcs \cup CliPcs] /\ Boot(after)
    BY <2>1, <2>2
  <2> HIDE DEF after
  <2>4. IInv
    OBVIOUS
  <2>5. QED BY <2>2, <2>3, <2>4, BootIInv
<1>9. QED
  BY <1>1, <1>2, <1>3, <1>4, <1>5, <1>6, <1>7, <1>8 DEF Cli

LEMMA StepIInv == IInv /\ [Next]_vars => IInv'
<1> SUFFICES ASSUME IInv, [Next]_vars PROVE IInv'
  OBVIOUS
<1>1. CASE UNCHANGED vars
  BY <1>1 DEF vars, IInv, TypeOK, Ledger, RowsHaveFiles, AtWork
<1>2. ASSUME NEW a \in Admins, Console(a) PROVE IInv'
  <2>1. ConsoleStep(a) /\ AtWork(a) /\ TypeOK
    BY <1>2 DEF Console, IInv, Ledger
  <2>2. QED BY <2>1, ConsoleTypes, ConsoleLedger DEF IInv
<1>3. ASSUME NEW c \in Clis, Cli(c) PROVE IInv'
  BY <1>3, CliIInv
<1>4. CASE Restart BY <1>4, BootIInv DEF Restart, IInv, TypeOK
<1>5. CASE Crash
  <2>1. faults' \in 0 .. MaxFaults
    BY <1>5 DEF Crash, IInv, TypeOK
  <2>2. pc \in [Actors -> ConsolePcs \cup CliPcs] /\ Boot(pc)
    BY <1>5 DEF Crash, IInv, TypeOK
  <2>3. QED BY <2>1, <2>2, BootIInv
<1>6. QED BY <1>1, <1>2, <1>3, <1>4, <1>5 DEF Next

\* serverUpdateMu lets one session of the console work at a time, for any number
\* of them, and every variable keeps its shape.
THEOREM TypeCorrect == Spec => []TypeOK
<1>1. IInv => TypeOK BY DEF IInv
<1>2. QED BY InitIInv, StepIInv, <1>1, PTL DEF Spec

\* Wherever the daemon is killed while it records or prunes, every row of
\* update_history has the binary it promises.
THEOREM LedgerSound == Spec => []RowsHaveFiles
<1>1. IInv => RowsHaveFiles BY DEF IInv, Ledger
<1>2. QED BY InitIInv, StepIInv, <1>1, PTL DEF Spec

-----------------------------------------------------------------------------
(* What the console did can be undone.  While no call has failed, what the    *)
(* recording has written is followed from the file to its row and past the    *)
(* prune: the row it made is the newest, which no window leaves out.          *)

Kept(a) == nfiles \in rows /\ files[nfiles] = prev[a]

\* The update has recorded when it arms the restart, the rollback long before.
Recording(a) ==
  /\ At(a, "download") \/ At(a, "verify") => job[a] = "update"
  /\ At(a, "insert") => files[nfiles] = prev[a]
  /\ At(a, "prune") => Kept(a)
  /\ At(a, "sweep") => Kept(a) /\ nfiles \notin doomed[a]
  /\ At(a, "arm") /\ job[a] = "update" /\ prev[a] # None => Kept(a)
  /\ pc[a] \in {"keep", "fill", "swap", "arm"} /\ job[a] = "rollback"
       /\ prev[a] # None => Kept(a)

Undoable == faults = 0 => \A a \in Admins : Recording(a)

\* A newest row is in the window, however few rows the window holds.
LEMMA NewestInWindow ==
  ASSUME TypeOK, nfiles \in rows PROVE nfiles \in Window(rows)
<1>1. {x \in rows : x > nfiles} = {}
  <2>1. nfiles \in Nat
    BY DEF TypeOK
  <2>2. rows \subseteq 1 .. nfiles
    BY DEF TypeOK
  <2>3. \A x \in rows : ~ (x > nfiles)
    BY <2>1, <2>2
  <2>. QED  BY <2>3, Zenon
<1>2. Cardinality({x \in rows : x > nfiles}) < Depth
  BY <1>1, FS_EmptySet, DepthAssumption
<1>. QED  BY <1>2 DEF Window

\* The session at work takes its binary from the file to the row and beyond.
LEMMA ConsoleRecords ==
  ASSUME IInv, NEW a \in Admins, Recording(a), ConsoleStep(a), faults' = faults
  PROVE  Recording(a)'
<1>. USE DEF IInv, TypeOK, Recording, Kept
<1>1. CASE BeginUpdate(a) BY <1>1 DEF BeginUpdate
<1>2. CASE Download(a) BY <1>2 DEF Download
<1>3. CASE Verify(a) BY <1>3 DEF Verify
<1>4. CASE VerifyFails(a) BY <1>4 DEF VerifyFails, Return
<1>5. CASE OpenBak(a) BY <1>5 DEF OpenBak
<1>6. CASE FillBak(a) BY <1>6 DEF FillBak
<1>7. CASE Swap(a) BY <1>7 DEF Swap, AfterSwap
<1>8. CASE SaveFile(a) BY <1>8 DEF SaveFile
<1>9. CASE InsertRow(a) BY <1>9 DEF InsertRow
<1>10. CASE PruneRows(a)
  <2>1. nfiles \in rows' /\ nfiles \notin doomed'[a]
    BY <1>10, NewestInWindow DEF PruneRows
  <2>. QED  BY <1>10, <2>1 DEF PruneRows
<1>11. CASE SweepFiles(a) BY <1>11 DEF SweepFiles, Recorded
<1>12. CASE Arm(a) BY <1>12 DEF Arm, Return
<1>13. CASE BeginRollback(a) BY <1>13 DEF BeginRollback
<1>14. CASE ReadCurrent(a) BY <1>14 DEF ReadCurrent
<1>15. CASE \/ DownloadFails(a) \/ SwapFails(a) \/ SaveFails(a) \/ InsertFails(a)
            \/ PruneFails(a)
  BY <1>15 DEF DownloadFails, SwapFails, GiveUp, SaveFails, InsertFails, PruneFails
<1>. QED
  BY <1>1, <1>2, <1>3, <1>4, <1>5, <1>6, <1>7, <1>8, <1>9, <1>10, <1>11, <1>12,
     <1>13, <1>14, <1>15 DEF ConsoleStep

\* No step takes a failure back, so that a state without one has had none.
LEMMA FaultsGrow ==
  ASSUME IInv, [Next]_vars PROVE faults' \in Nat /\ (faults' = faults \/ faults' > 0)
<1>. USE DEF IInv, TypeOK
<1>1. faults \in Nat
  OBVIOUS
<1>2. ASSUME NEW a \in Admins, ConsoleStep(a)
      PROVE  faults' = faults \/ faults' = faults + 1
  BY <1>2 DEF ConsoleStep, BeginUpdate, Download, DownloadFails, Verify, VerifyFails,
       OpenBak, FillBak, Swap, SwapFails, SaveFile, SaveFails, InsertRow, InsertFails,
       PruneRows, PruneFails, SweepFiles, Arm, BeginRollback, ReadCurrent, GiveUp
<1>3. ASSUME NEW c \in Clis, Cli(c) PROVE faults' = faults \/ faults' = faults + 1
  BY <1>3 DEF Cli, CliFetch, CliAside, CliInstall, CliUndo, CliSwapOut, CliSwapIn,
       CliKeepOld, CliRecreate
<1>4. Restart \/ Crash \/ UNCHANGED vars => faults' = faults \/ faults' = faults + 1
  BY DEF Restart, Crash, vars
<1>. QED  BY <1>1, <1>2, <1>3, <1>4 DEF Next, Console

LEMMA StepUndoable == IInv /\ Undoable /\ [Next]_vars => Undoable'
<1>. SUFFICES ASSUME IInv, Undoable, [Next]_vars, faults' = 0, NEW b \in Admins
              PROVE  Recording(b)'
  BY DEF Undoable
<1>0. faults = faults' /\ Recording(b)
  BY FaultsGrow DEF Undoable
<1>1. CASE UNCHANGED vars
  BY <1>0, <1>1 DEF vars, Recording, Kept
<1>2. ASSUME NEW a \in Admins, ConsoleStep(a) PROVE Recording(b)'
  <2>1. CASE a = b
    BY <1>0, <1>2, <2>1, ConsoleRecords
  <2>2. CASE a # b
    <3>1. lock' \in {a, None}
      BY <1>2 DEF ConsoleStep, BeginUpdate, Download, DownloadFails, Verify, VerifyFails,
           OpenBak, FillBak, Swap, SwapFails, SaveFile, SaveFails, InsertRow, InsertFails,
           PruneRows, PruneFails, SweepFiles, Arm, BeginRollback, ReadCurrent, GiveUp,
           Return, IInv, TypeOK
    <3>2. pc'[b] = "idle"
      BY <3>1, <2>2, StepIInv DEF IInv, TypeOK
    <3>. QED  BY <3>2 DEF Recording
  <2>. QED  BY <2>1, <2>2
<1>3. ASSUME NEW c \in Clis, Cli(c) PROVE Recording(b)'
  <2>. c # b /\ pc \in [Actors -> ConsolePcs \cup CliPcs]
    BY DEF IInv, TypeOK
  <2>1. CASE CliRecreate(c)
    <3>1. pc'[b] = "idle"
      BY <2>1 DEF CliRecreate, Boot
    <3>. QED  BY <3>1 DEF Recording
  <2>2. CASE ~CliRecreate(c)
    <3>1. /\ pc'[b] = pc[b]
          /\ UNCHANGED <<rows, files, nfiles, job, prev, doomed>>
      BY <1>3, <2>2 DEF Cli, CliFetch, CliAside, CliInstall, CliUndo, CliSwapOut, CliSwapIn,
           CliKeepOld, CliReturn
    <3>. QED  BY <1>0, <3>1 DEF Recording, Kept
  <2>. QED  BY <2>1, <2>2
<1>4. CASE Restart \/ Crash
  <2>1. pc'[b] = "idle"
    BY <1>4 DEF Restart, Crash, Boot
  <2>. QED  BY <2>1 DEF Recording
<1>. QED  BY <1>1, <1>2, <1>3, <1>4 DEF Next, Console

\* Whatever the console did can be undone: unless a call has failed, when it is
\* through with an update or a rollback the newest row of update_history is there
\* and its file holds the binary that was replaced (recordServerUpdate).
THEOREM AlwaysReversible == Spec => []Reversible
<1>1. Init => Undoable
  BY DEF Init, Undoable, Recording
<1>2. IInv /\ Undoable => Reversible
  <2>. SUFFICES ASSUME Undoable, TypeOK, faults = 0, NEW a \in Admins,
                       At(a, "arm"), prev[a] # None
                PROVE  Kept(a)
    BY DEF IInv, Reversible, Kept
  <2>1. job[a] \in {"update", "rollback"}
    BY DEF TypeOK
  <2>. QED  BY <2>1 DEF Undoable, Recording
<1>. QED  BY InitIInv, StepIInv, <1>1, StepUndoable, <1>2, PTL DEF Spec
=============================================================================
