--------------------------- MODULE ServerRecovery ---------------------------
(***************************************************************************)
(* `bitswan recover server`: a command that rebuilds a lost automation     *)
(* server on a machine from the newest backup of its state, and then has   *)
(* the new daemon recover each workspace.  It may fail or be killed after  *)
(* any step and is run again.  The one-time password it redeems replaces   *)
(* the token by which the AOC knows the server.  Meanwhile the daemon it   *)
(* has brought up may restart, and takes backups of its own.               *)
(*                                                                         *)
(* Tokens are numbered in the order the AOC issues them; it accepts the    *)
(* last.  How a workspace is recovered is modelled in Backups.             *)
(***************************************************************************)
EXTENDS Integers, FiniteSets

CONSTANTS
  Ws,          \* the workspaces of the lost server
  MaxAttempts, \* bound: runs of the command
  MaxBackups   \* bound: backups the new daemon begins

ASSUME RecoveryBounds == MaxAttempts \in Nat /\ MaxBackups \in Nat

NoToken == 0
Early   == {"idle", "probe", "manifest", "exchange"}
Late    == {"state", "database", "key", "daemon", "credentials", "list", "workspaces"}

VARIABLES
  phase,     \* where the command is
  keyGood,   \* the operator's key opens the repository
  resumed,   \* the stored token still works, and no password is redeemed
  token,     \* the token the command holds
  names,     \* the workspaces its manifest records
  left,      \* those it has not recovered yet
  stored,    \* the token in the configuration on the volume
  volume,    \* what else is on it: "copy" and "database" of bailey.db, "key"
  daemon,    \* the daemon runs
  taken,     \* the token of the backup run that has its engine, if one has
  accepted,  \* the token the AOC accepts
  saved,     \* the newest backup of the server: its token and its workspaces
  back,      \* workspaces that are whole on this machine
  half,      \* a backup was saved before every workspace was back
  attempts, backups

cli   == <<phase, keyGood, resumed, token, names, left, attempts>>
machine  == <<stored, volume, back>>
boot  == <<daemon, taken>>
cloud == <<accepted, saved, half, backups>>
recoveryVars  == <<cli, machine, boot, cloud>>

\* A fresh machine, and the backup the lost server made last.
RecoveryInit ==
  /\ phase = "idle" /\ keyGood = FALSE /\ resumed = FALSE /\ token = NoToken
  /\ names = {} /\ left = {} /\ attempts = 0
  /\ stored = NoToken /\ volume = {} /\ back = {}
  /\ daemon = FALSE /\ taken = NoToken
  /\ accepted = 1 /\ saved = [token |-> 1, ws |-> Ws] /\ half = FALSE /\ backups = 0

-----------------------------------------------------------------------------
(* The preflight *)

Doing(p) == phase = p
To(p) == phase' = p /\ UNCHANGED <<keyGood, resumed, token, names, left, attempts>>

\* Docker is there and the volume is not another server's; the operator gives a key.
Attempt(resumes) ==
  /\ Doing("idle") /\ attempts < MaxAttempts /\ attempts' = attempts + 1
  /\ phase' = "probe" /\ keyGood' \in BOOLEAN
  /\ resumed' = resumes /\ token' = (IF resumes THEN stored ELSE NoToken)
  /\ names' = {} /\ left' = {}
  /\ UNCHANGED <<machine, boot, cloud>>

\* A stored token that still works makes it a resumption; else it takes a password.
Start == Attempt(stored = accepted)

BugProbe ==
  /\ Doing("probe") /\ To("manifest") /\ UNCHANGED <<machine, boot, cloud>>
\* The key must open the repository before anything is changed.
Probe ==
  /\ Doing("probe") /\ keyGood /\ To("manifest") /\ UNCHANGED <<machine, boot, cloud>>

ReadManifest ==
  /\ Doing("manifest") /\ phase' = IF resumed THEN "state" ELSE "exchange"
  /\ names' = saved.ws
  /\ UNCHANGED <<keyGood, resumed, token, left, attempts, machine, boot, cloud>>

Redeem(then) ==
  /\ Doing("exchange") /\ phase' = then
  /\ accepted' = accepted + 1 /\ token' = accepted'
  /\ UNCHANGED <<keyGood, resumed, names, left, attempts, machine, boot, saved, half,
                 backups>>

BugExchange == Redeem("exchange") \/ Redeem("state")
\* Redeeming the password replaces the server's token.
Exchange == Redeem("state")

-----------------------------------------------------------------------------
(* The state of the server *)

\* The configuration returns as it was saved, its token included, and a copy of
\* the database beside the place where it belongs.
RestoreState ==
  /\ Doing("state") /\ To("database")
  /\ stored' = saved.token /\ volume' = volume \cup {"copy"}
  /\ UNCHANGED <<back, boot, cloud>>

PromoteDatabase ==
  /\ Doing("database") /\ To("key") /\ volume \cap {"copy", "database"} # {}
  /\ volume' = (volume \ {"copy"}) \cup {"database"}
  /\ UNCHANGED <<stored, back, boot, cloud>>

InstallKey ==
  /\ Doing("key") /\ To("daemon") /\ volume' = volume \cup {"key"}
  /\ UNCHANGED <<stored, back, boot, cloud>>

\* A daemon that runs already is left running.
DeployDaemon ==
  /\ Doing("daemon") /\ To("credentials") /\ daemon' = TRUE
  /\ UNCHANGED <<taken, machine, cloud>>

\* The new token replaces the restored one; a resumed command leaves what is there.
\* The ingress, the proxy and the DNS follow; what fails of these is reported.
StoreCredentials ==
  /\ Doing("credentials") /\ daemon /\ To("list")
  /\ stored' = IF resumed THEN stored ELSE token
  /\ UNCHANGED <<volume, back, boot, cloud>>

-----------------------------------------------------------------------------
(* The workspaces *)

ListWorkspaces ==
  /\ Doing("list") /\ phase' = "workspaces" /\ left' = names
  /\ UNCHANGED <<keyGood, resumed, token, names, attempts, machine, boot, cloud>>

busy == taken # NoToken

\* The daemon reads the repository by the stored token, and not during a backup.
RecoverWorkspace(w) ==
  /\ Doing("workspaces") /\ w \in left /\ daemon /\ ~busy
  /\ stored = accepted /\ "key" \in volume
  /\ back' = back \cup {w} /\ left' = left \ {w}
  /\ UNCHANGED <<phase, keyGood, resumed, token, names, attempts, stored, volume, boot,
                 cloud>>

Ends == To("idle") /\ UNCHANGED <<machine, boot, cloud>>

BugFinish == Doing("workspaces") /\ Ends
Finish == Doing("workspaces") /\ left = {} /\ Ends

\* Any step may fail and ends the command; so does a workspace that fails.
Fail == ~Doing("idle") /\ Ends

-----------------------------------------------------------------------------
(* The daemon and its backups *)

\* The nightly run starts whether or not a recovery of the server is going on.
BackupBegin ==
  /\ daemon /\ ~busy /\ backups < MaxBackups
  /\ stored = accepted /\ "key" \in volume
  /\ taken' = stored /\ backups' = backups + 1
  /\ UNCHANGED <<daemon, cli, machine, accepted, saved, half>>

\* The run records the server's state, the token that is in the configuration by then
\* and the workspaces there; the one it took when it began must still be accepted.
BackupEnd ==
  /\ busy /\ taken' = NoToken
  /\ \/ UNCHANGED <<saved, half>>
     \/ /\ taken = accepted /\ saved' = [token |-> stored, ws |-> back]
        /\ half' = (half \/ back # Ws)
  /\ UNCHANGED <<daemon, cli, machine, accepted, backups>>

\* The daemon or the machine restarts, and a run of it is over.
DaemonRestart ==
  /\ busy /\ taken' = NoToken
  /\ UNCHANGED <<daemon, cli, machine, cloud>>

RecoveryNext ==
  \/ Start \/ Probe \/ ReadManifest \/ Exchange \/ RestoreState
  \/ PromoteDatabase \/ InstallKey \/ DeployDaemon \/ StoreCredentials
  \/ ListWorkspaces \/ (\E w \in Ws : RecoverWorkspace(w)) \/ Finish \/ Fail
  \/ BackupBegin \/ BackupEnd \/ DaemonRestart

RecoverySpec == RecoveryInit /\ [][RecoveryNext]_recoveryVars

-----------------------------------------------------------------------------
(* Properties *)

\* What the variables hold; each run of the command redeems one password at most.
RecoveryTypeOK ==
  /\ phase \in Early \cup Late /\ keyGood \in BOOLEAN /\ resumed \in BOOLEAN
  /\ accepted \in 1 .. attempts + 1
  /\ {token, stored, taken} \subseteq NoToken .. accepted
  /\ names \subseteq Ws /\ left \subseteq names /\ back \subseteq Ws
  /\ volume \subseteq {"copy", "database", "key"}
  /\ daemon \in BOOLEAN /\ half \in BOOLEAN
  /\ saved \in [token : 1 .. accepted, ws : SUBSET Ws]
  /\ attempts \in 0 .. MaxAttempts /\ backups \in 0 .. MaxBackups

\* Past the preflight the command holds a token the AOC accepts, whether it was
\* resumed or redeemed a password (existingWorkingToken).
HoldsLiveToken == phase \in Late => token = accepted

\* The server's token is replaced only by a command whose key has opened the
\* repository: a wrong key costs nothing (recoverServerPreflight).
NothingSpentInVain == [][accepted' # accepted => keyGood]_recoveryVars

\* A recovery that reports success leaves a server with its database, its key and
\* a working token, and with every workspace the lost one had, unless a backup
\* taken before all were back has made the manifest forget some.
Whole ==
  /\ {"database", "key"} \subseteq volume /\ daemon
  /\ names # {} => stored = accepted
  /\ half \/ back = Ws
DoneMeansWhole == [][Finish => Whole]_recoveryVars
=============================================================================
