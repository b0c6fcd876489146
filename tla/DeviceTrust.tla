---------------------------- MODULE DeviceTrust ----------------------------
(***************************************************************************)
(* How a browser becomes a trusted device of a server: the one-time claim, *)
(* a pairing code somebody approves, an invite link, the account's         *)
(* authenticator or one of its backup codes, and how devices, links and    *)
(* roles are taken away or changed (mfa_claim.go, mfa_pair.go,             *)
(* mfa_devices.go, bailey_gate_api.go, bailey_people_invites.go,           *)
(* bailey_people.go, bailey_sso.go and the bailey_store_*.go files).       *)
(*                                                                         *)
(* The state is in SQLite behind one connection: a statement is atomic,    *)
(* a handler is several of them, and handlers run concurrently. A step is  *)
(* a statement, or several that only read.                                 *)
(***************************************************************************)
EXTENDS Naturals, FiniteSets

CONSTANTS
    Users,        \* accounts the identity provider has signed in
    Requests,     \* HTTP requests being handled at a time
    Enrolled,     \* accounts with an authenticator (totp_records)
    BackupCodes,  \* the codes of an account's set
    MaxDevices,   \* bound: device rows ever inserted
    MaxCodes,     \* bound: pairing codes ever minted
    MaxTokens,    \* bound: invite tokens ever minted
    MaxArrivals,  \* bound: requests ever handled that take several steps
    None

ASSUME DeviceTrustAssumption ==
    /\ Enrolled \subseteq Users /\ None \notin Users
    /\ MaxDevices \in Nat /\ MaxCodes \in Nat /\ MaxTokens \in Nat
    /\ MaxArrivals \in Nat

Roles   == {"admin", "other"}   \* other: auditor, member or user
Devices == 1 .. MaxDevices
Codes   == 1 .. MaxCodes
Tokens  == 1 .. MaxTokens

Pairs   == [code : Codes, approved : BOOLEAN]
Invites == [token : Tokens, role : Roles, consumed : BOOLEAN, expired : BOOLEAN]

\* What a device is bought with: a link, a pairing code, a backup code, or a proof
\* that is not used up (the claim, the authenticator).
Purchases == [how : {"link", "pair", "backup", "claim", "totp"}, who : Users \cup {None},
              what : Codes \cup Tokens \cup BackupCodes \cup {None}]
Buys(how, who, what) == [how |-> how, who |-> who, what |-> what]
Link(t)      == Buys("link", None, t)
Pair(c)      == Buys("pair", None, c)
Backup(u, b) == Buys("backup", u, b)
ByClaim == Buys("claim", None, None)
ByTotp  == Buys("totp", None, None)

ASSUME NoneAssumption == None \notin Roles \cup Pairs \cup Invites \cup Purchases

VARIABLES
    root,      \* server_settings.root_admin_email
    role,      \* user_roles: the role somebody has set, by account
    owner,     \* devices: the account a row belongs to
    pending,   \* pending_pairs: the code of an account and whether it is approved
    life,      \* how much of its five minutes a code has left
    invite,    \* invites: the link of an account
    backup,    \* backup_codes that are not used up
    req,       \* what each request has read and does next
    arrivals,  \* how many requests there were
    devices,   \* how many rows were ever inserted
    tokens,    \* how many links were ever minted
    bought,    \* what each inserted row was bought with
    approvals, \* <<account, code>> somebody entitled to it has approved
    dead,      \* links that were replaced or revoked before they were used
    excused    \* the root admin was overwritten, or is to lose its role: see below

vars == <<root, role, owner, pending, life, invite, backup, req,
          arrivals, devices, tokens, bought, approvals, dead, excused>>
history == <<bought, approvals, dead, excused>>  \* nothing reads them

Pcs     == {"idle", "recheck", "record", "add", "clear", "role", "setrole",
            "consume", "issue", "mint", "approve", "unpend"}
Request == [pc : Pcs, user : Users \cup {None}, with : Purchases \cup {None},
            role : Roles \cup {None}]
Idle    == [pc |-> "idle", user |-> None, with |-> None, role |-> None]

TypeOK ==
    /\ root \in Users \cup {None}
    /\ role \in [Users -> Roles \cup {None}]
    /\ owner \in [Devices -> Users \cup {None}]
    /\ pending \in [Users -> Pairs \cup {None}]
    /\ life \in [Codes -> {"unused", "fresh", "ending", "expired"}]
    /\ invite \in [Users -> Invites \cup {None}]
    /\ backup \in [Users -> SUBSET BackupCodes]
    /\ req \in [Requests -> Request]
    /\ arrivals \in 0 .. MaxArrivals
    /\ devices \in 0 .. MaxDevices /\ tokens \in 0 .. MaxTokens
    /\ bought \in [Devices -> Purchases \cup {None}]
    /\ approvals \subseteq Users \X Codes
    /\ dead \subseteq Tokens
    /\ excused \in BOOLEAN

Init ==
    /\ root = None
    /\ role = [u \in Users |-> None]
    /\ owner = [d \in Devices |-> None]
    /\ pending = [u \in Users |-> None]
    /\ life = [c \in Codes |-> "unused"]
    /\ invite = [u \in Users |-> None]
    /\ backup = [u \in Users |-> BackupCodes]
    /\ req = [r \in Requests |-> Idle]
    /\ arrivals = 0 /\ devices = 0 /\ tokens = 0
    /\ bought = [d \in Devices |-> None]
    /\ approvals = {} /\ dead = {} /\ excused = FALSE

-----------------------------------------------------------------------------
HasDevice(u) == \E d \in Devices : owner[d] = u

serverClaimed == root # None \/ \E d \in Devices : owner[d] # None

\* effectiveRole: the role somebody has set, else the root admin is an admin.
IsAdmin(u) == role[u] = "admin" \/ (role[u] = None /\ u = root)

\* What a read whose error is dropped may give: the value, or as if there were no row
\* (serverRootAdmin, dbAnyDevicesExist, dbGetUserRole, the loads of pending_pairs).
Reads(v) == {v, None}

\* So the caller of an admin's route may be the root admin with a role not read.
AnAdminCalls == \E a \in Users : role[a] = "admin" \/ a = root

\* Would leave the server without the admin it always has.
Demotes(u, ro) == u = root /\ ro # "admin"

At(r, pc) == req[r].pc = pc
Starts(r, pc, u, with, ro) ==
    /\ At(r, "idle") /\ arrivals < MaxArrivals
    /\ arrivals' = arrivals + 1
    /\ req' = [req EXCEPT ![r] = [pc |-> pc, user |-> u, with |-> with, role |-> ro]]
Goes(r, pc) == req' = [req EXCEPT ![r].pc = pc] /\ UNCHANGED arrivals
Ends(r)     == req' = [req EXCEPT ![r] = Idle] /\ UNCHANGED arrivals

\* A statement whose error is returned may fail (a locked database) and the daemon
\* may restart: the request is over, and what it has written stays.
Fails(r) ==
    /\ ~At(r, "idle")
    /\ Ends(r)
    /\ UNCHANGED <<root, role, owner, pending, life, invite, backup, devices, tokens,
                   history>>

-----------------------------------------------------------------------------
(* The tail every way to trust shares: the row, then the pending request.  *)

AddDevice(r) ==
    /\ At(r, "add") /\ devices < MaxDevices
    /\ devices' = devices + 1
    /\ owner' = [owner EXCEPT ![devices + 1] = req[r].user]
    /\ bought' = [bought EXCEPT ![devices + 1] = req[r].with]
    /\ Goes(r, "clear")
    /\ UNCHANGED <<root, role, pending, life, invite, backup, tokens, approvals, dead,
                   excused>>

\* The account's row is deleted, or is not: the error is dropped.
Clears(u) == pending' \in {pending, [pending EXCEPT ![u] = None]}

ClearPending(r) ==
    /\ At(r, "clear")
    /\ Clears(req[r].user)
    /\ IF req[r].role # None THEN Goes(r, "role") ELSE Ends(r)
    /\ UNCHANGED <<root, role, owner, life, invite, backup, devices, tokens, history>>

-----------------------------------------------------------------------------
(* The claim (claimHandler, handleGateClaim).                              *)

\* serverClaimed must be false, or read as false because its reads have failed.
Claim(r, u) ==
    /\ \E claimed \in {serverClaimed, FALSE} : ~claimed
    /\ Starts(r, "recheck", u, ByClaim, None)
    /\ UNCHANGED <<root, role, owner, pending, life, invite, backup, devices, tokens,
                   history>>

\* The root admin is asked for again before it is recorded.
Recheck(r) ==
    /\ At(r, "recheck")
    /\ \E seen \in Reads(root) : Goes(r, IF seen = None THEN "record" ELSE "add")
    /\ UNCHANGED <<root, role, owner, pending, life, invite, backup, devices, tokens,
                   history>>

RecordClaim(r) ==
    /\ At(r, "record")
    /\ root' = req[r].user
    /\ excused' = (excused \/ root \notin {None, req[r].user})
    /\ Goes(r, "add")
    /\ UNCHANGED <<role, owner, pending, life, invite, backup, devices, tokens, bought,
                   approvals, dead>>

-----------------------------------------------------------------------------
(* Pairing codes.                                                          *)

\* The page asks for a code: expired rows are purged, and the account's code is
\* shown again if it is read, not approved and good for 90 s more.
AskCode(r, u) ==
    LET live == [v \in Users |-> IF pending[v] = None THEN None
                                 ELSE IF life[pending[v].code] = "expired" THEN None
                                 ELSE pending[v]]
        same == live[u] # None /\ ~live[u].approved /\ life[live[u].code] = "fresh"
    IN /\ pending' = live
       /\ \/ same /\ At(r, "idle") /\ UNCHANGED <<req, arrivals>>
          \/ Starts(r, "mint", u, None, None)
       /\ UNCHANGED <<root, role, owner, life, invite, backup, devices, tokens, history>>

\* The upsert overwrites approved_by; of an old row only the user agent is kept.
BugUpsertPair(old, c) ==
    [code |-> c, approved |-> old # None /\ old.approved]
UpsertPair(old, c) == [code |-> c, approved |-> FALSE]

MintCode(r) ==
    /\ At(r, "mint")
    /\ \E c \in Codes :
         /\ life[c] = "unused"
         /\ life' = [life EXCEPT ![c] = "fresh"]
         /\ pending' = [pending EXCEPT ![req[r].user] = UpsertPair(@, c)]
    /\ Ends(r)
    /\ UNCHANGED <<root, role, owner, invite, backup, devices, tokens, history>>

CodeAges(c) ==
    /\ life[c] \in {"fresh", "ending"}
    /\ life' = [life EXCEPT ![c] = IF @ = "fresh" THEN "ending" ELSE "expired"]
    /\ UNCHANGED <<root, role, owner, pending, invite, backup, req, arrivals, devices,
                   tokens, history>>

\* The code is looked up and its row kept in memory until it is written back. A
\* trusted browser may approve, of the account or of an admin, and so may whoever
\* holds the admin token on the host's socket, at any time: hence no more guard.
Approve(r, u) ==
    /\ pending[u] # None /\ life[pending[u].code] # "expired"
    /\ Starts(r, "approve", u, Pair(pending[u].code), None)
    /\ approvals' = approvals \cup {<<u, pending[u].code>>}
    /\ UNCHANGED <<root, role, owner, pending, life, invite, backup, devices, tokens,
                   bought, dead, excused>>

WriteApproval(r) ==
    /\ At(r, "approve")
    /\ pending' = [pending EXCEPT ![req[r].user] =
                     [code |-> req[r].with.what, approved |-> TRUE]]
    /\ Ends(r)
    /\ UNCHANGED <<root, role, owner, life, invite, backup, devices, tokens, history>>

\* The account or an admin dismisses a request. An approval that has read its row
\* writes it back.
Deny(u) ==
    /\ pending[u] # None
    /\ pending' = [pending EXCEPT ![u] = None]
    /\ UNCHANGED <<root, role, owner, life, invite, backup, req, arrivals, devices,
                   tokens, history>>

\* The waiting browser polls, and takes an approved code.
Poll(r, u) ==
    /\ pending[u] # None
    /\ pending[u].approved /\ life[pending[u].code] # "expired"
    /\ Starts(r, "unpend", u, Pair(pending[u].code), None)
    /\ UNCHANGED <<root, role, owner, pending, life, invite, backup, devices, tokens,
                   history>>

Unpend(r) ==
    /\ At(r, "unpend")
    /\ Clears(req[r].user)
    /\ Goes(r, "add")
    /\ UNCHANGED <<root, role, owner, life, invite, backup, devices, tokens, history>>

-----------------------------------------------------------------------------
(* The authenticator and the backup codes (self-trust and recovery).       *)

SelfTrust(r, u) ==
    /\ u \in Enrolled
    /\ Starts(r, "add", u, ByTotp, None)
    /\ UNCHANGED <<root, role, owner, pending, life, invite, backup, devices, tokens,
                   history>>

\* dbConsumeBackupCode deletes the code and asks how many rows that were.
UseBackupCode(r, u, b) ==
    /\ b \in backup[u]
    /\ Starts(r, "add", u, Backup(u, b), None)
    /\ backup' = [backup EXCEPT ![u] = @ \ {b}]
    /\ UNCHANGED <<root, role, owner, pending, life, invite, devices, tokens, history>>

-----------------------------------------------------------------------------
(* Invites.                                                                *)

Live(i) == ~i.consumed /\ ~i.expired

\* An admin invites an account without devices; the AOC is asked in between.
Invite(r, u, ro) ==
    /\ AnAdminCalls
    /\ ~HasDevice(u)
    /\ Starts(r, "issue", u, None, ro)
    /\ UNCHANGED <<root, role, owner, pending, life, invite, backup, devices, tokens,
                   history>>

\* A fresh link for an invite that is not used: the row read is written back.
BugResend(r, u) ==
    /\ AnAdminCalls
    /\ invite[u] # None
    /\ ~invite[u].consumed /\ ~HasDevice(u)
    /\ Starts(r, "issue", u, None, None)
    /\ UNCHANGED <<root, role, owner, pending, life, invite, backup, devices, tokens,
                   history>>
Resend(r, u) ==
    /\ AnAdminCalls
    /\ invite[u] # None
    /\ ~invite[u].consumed /\ ~HasDevice(u)
    /\ Starts(r, "issue", u, None, invite[u].role)
    /\ UNCHANGED <<root, role, owner, pending, life, invite, backup, devices, tokens,
                   history>>

\* The link an account has now, if it can still buy a device.
LiveLinks(u) == {t \in Tokens : invite[u] # None /\ invite[u].token = t
                                  /\ ~invite[u].consumed}

Issue(r) ==
    /\ At(r, "issue") /\ tokens < MaxTokens
    /\ tokens' = tokens + 1
    /\ dead' = dead \cup LiveLinks(req[r].user)
    /\ invite' = [invite EXCEPT ![req[r].user] =
                    [token |-> tokens + 1, role |-> req[r].role,
                     consumed |-> FALSE, expired |-> FALSE]]
    /\ Ends(r)
    /\ UNCHANGED <<root, role, owner, pending, life, backup, devices, bought, approvals,
                   excused>>

Revoke(u) ==
    /\ AnAdminCalls
    /\ invite[u] # None
    /\ dead' = dead \cup LiveLinks(u)
    /\ invite' = [invite EXCEPT ![u] = None]
    /\ UNCHANGED <<root, role, owner, pending, life, backup, req, arrivals, devices,
                   tokens, bought, approvals, excused>>

InviteExpires(u) ==
    /\ invite[u] # None
    /\ ~invite[u].expired
    /\ invite' = [invite EXCEPT ![u].expired = TRUE]
    /\ UNCHANGED <<root, role, owner, pending, life, backup, req, arrivals, devices,
                   tokens, history>>

\* Everything that can refuse the invitee is read before the link is burnt.
Redeem(r, u) ==
    /\ serverClaimed
    /\ invite[u] # None
    /\ Live(invite[u]) /\ ~HasDevice(u)
    /\ Starts(r, "consume", u, Link(invite[u].token), invite[u].role)
    /\ UNCHANGED <<root, role, owner, pending, life, invite, backup, devices, tokens,
                   history>>

\* The one UPDATE that burns the link: its row must be there, unused, in time.
BugBurns(r) == invite[req[r].user] # None /\ Live(invite[req[r].user])
Burns(r) ==
    /\ invite[req[r].user] # None
    /\ Live(invite[req[r].user])
    /\ Link(invite[req[r].user].token) = req[r].with

Consume(r) ==
    /\ At(r, "consume")
    /\ \/ /\ Burns(r)
          /\ invite' = [invite EXCEPT ![req[r].user].consumed = TRUE]
          /\ Goes(r, "add")
       \/ ~Burns(r) /\ Ends(r) /\ UNCHANGED invite
    /\ UNCHANGED <<root, role, owner, pending, life, backup, devices, tokens, history>>

\* The invited role is for those nobody has given one, and not for the root admin.
TakeRole(r) ==
    /\ At(r, "role")
    /\ \E has \in Reads(role[req[r].user]), seen \in Reads(root) :
         \/ /\ has = None /\ req[r].user # seen
            /\ Goes(r, "setrole")
            /\ excused' = (excused \/ (seen # root /\ Demotes(req[r].user, req[r].role)))
         \/ /\ has # None \/ req[r].user = seen
            /\ Ends(r)
            /\ UNCHANGED excused
    /\ UNCHANGED <<root, role, owner, pending, life, invite, backup, devices, tokens,
                   bought, approvals, dead>>

-----------------------------------------------------------------------------
(* Roles and removals.                                                     *)

BugMayBecome(u, ro, seen) == TRUE
MayBecome(u, ro, seen) == u = seen => ro = "admin"

\* handleSetUserRole: an admin sets a role, not of the root admin.
SetRole(r, u, ro) ==
    /\ AnAdminCalls
    /\ \E seen \in Reads(root) :
         /\ MayBecome(u, ro, seen)
         /\ excused' = (excused \/ (seen # root /\ Demotes(u, ro)))
    /\ Starts(r, "setrole", u, None, ro)
    /\ UNCHANGED <<root, role, owner, pending, life, invite, backup, devices, tokens,
                   bought, approvals, dead>>

WriteRole(r) ==
    /\ At(r, "setrole")
    /\ role' = [role EXCEPT ![req[r].user] = req[r].role]
    /\ Ends(r)
    /\ UNCHANGED <<root, owner, pending, life, invite, backup, devices, tokens, history>>

\* applySSORoleMapping: whoever nobody has given a role gets the one mapped to
\* their groups, the root admin too. SSO is set up by an admin.
MapRole(r, u, ro) ==
    /\ root # None
    /\ None \in Reads(role[u])
    /\ Starts(r, "setrole", u, None, ro)
    /\ excused' = (excused \/ Demotes(u, ro))
    /\ UNCHANGED <<root, role, owner, pending, life, invite, backup, devices, tokens,
                   bought, approvals, dead>>

RemoveDevice(d) ==
    /\ owner[d] # None
    /\ owner' = [owner EXCEPT ![d] = None]
    /\ UNCHANGED <<root, role, pending, life, invite, backup, req, arrivals, devices,
                   tokens, history>>

-----------------------------------------------------------------------------
Arrives(r, u) ==
    \/ Claim(r, u) \/ AskCode(r, u) \/ Approve(r, u) \/ Poll(r, u)
    \/ SelfTrust(r, u) \/ \E b \in BackupCodes : UseBackupCode(r, u, b)
    \/ Resend(r, u) \/ Redeem(r, u)
    \/ \E ro \in Roles : Invite(r, u, ro) \/ SetRole(r, u, ro) \/ MapRole(r, u, ro)

Proceeds(r) ==
    \/ Recheck(r) \/ RecordClaim(r) \/ AddDevice(r) \/ ClearPending(r)
    \/ MintCode(r) \/ WriteApproval(r) \/ Unpend(r)
    \/ Issue(r) \/ Consume(r) \/ TakeRole(r) \/ WriteRole(r)
    \/ Fails(r)

Next ==
    \/ \E r \in Requests : Proceeds(r) \/ \E u \in Users : Arrives(r, u)
    \/ \E u \in Users : Revoke(u) \/ InviteExpires(u) \/ Deny(u)
    \/ \E c \in Codes : CodeAges(c)
    \/ \E d \in Devices : RemoveDevice(d)

Spec == Init /\ [][Next]_vars

-----------------------------------------------------------------------------
\* A browser that waited with a code is trusted only if somebody has approved
\* that code for that account, whatever rows were minted, approved and deleted
\* under each other meanwhile (generatePendingPairUA, approvePendingPair,
\* claimPendingPair).
ApprovedOnly ==
    \A d \in Devices, c \in Codes :
      owner[d] # None /\ bought[d] = Pair(c) => <<owner[d], c>> \in approvals

\* An invite link and a backup code buy one device each, however many requests
\* present them at once, and a link that was revoked or replaced before it was
\* used buys none, not even in a request that read it before
\* (dbConsumeInviteAtomic, dbConsumeBackupCode, handleGateInviteRedeem).
OneEach ==
    /\ \A d, e \in Devices :
         /\ d # e /\ bought[d] # None /\ bought[d] = bought[e]
         => bought[d].how \notin {"link", "backup"}
    /\ \A d \in Devices, t \in dead : bought[d] # Link(t)

\* Trusted by an authenticator, a backup code or an approved code before anybody has
\* claimed the server: nobody can claim it any more while such a device is left.
Early ==
    root = None /\ \E d \in Devices :
                     owner[d] # None /\ bought[d].how \in {"totp", "backup", "pair"}

\* A claimed server (serverClaimed: a root admin or any device) always has an admin,
\* with roles set, invites redeemed and the root admin's own devices gone; neither a
\* claim nor an invite closes the claim without one. What the code does not guard
\* against is excepted: devices trusted before any claim (Early); a claim recorded
\* over another one, an SSO mapping that gives the root admin a lesser role, and a
\* role set while the root admin could not be read (excused)
\* (handleGateClaim, handleSetUserRole, handleGateInviteRedeem).
NoLockout == serverClaimed /\ ~excused /\ ~Early => \E u \in Users : IsAdmin(u)
=============================================================================
