------------------------ MODULE DeviceTrust_proofs ------------------------
(* Theorems about DeviceTrust, for any number of accounts, requests,       *)
(* devices, codes and links.                                               *)
EXTENDS DeviceTrust, TLAPS

\* What a request carries at each of its steps.
Carries(q) ==
  /\ q.pc # "idle" => q.user \in Users
  /\ q.pc \in {"recheck", "record"} => q.with = ByClaim
  /\ q.pc \in {"approve", "unpend"} => q.with \in {Pair(c) : c \in Codes}
  /\ q.pc = "consume" => q.with \in {Link(t) : t \in Tokens}
  /\ q.pc = "add" => q.with \in Purchases
  /\ q.pc \in {"issue", "consume", "setrole", "role"} => q.role \in Roles

Requested == /\ req \in [Requests -> Request] /\ arrivals \in 0 .. MaxArrivals
             /\ \A r \in Requests : Carries(req[r])
TInv == TypeOK /\ Requested

\* A row is approved, or about to be, or taken as approved, only with an approval.
Approved ==
  \A u \in Users : pending[u] # None /\ pending[u].approved
                     => <<u, pending[u].code>> \in approvals
Entitled ==
  \A r \in Requests, c \in Codes :
    req[r].pc \in {"approve", "unpend", "add"} /\ req[r].with = Pair(c)
      => <<req[r].user, c>> \in approvals
PInv == Approved /\ Entitled /\ ApprovedOnly

\* A proof that can be used up is held by a device that it bought or by a request
\* that is about to insert one, by one of them only, and is then used up.
Single(p) == p # None /\ p.how \in {"link", "backup"}
Holds(r)  == req[r].pc = "add" /\ Single(req[r].with)
OneHolder ==
  /\ \A d, e \in Devices : Single(bought[d]) /\ bought[d] = bought[e] => d = e
  /\ \A d \in Devices, r \in Requests : Holds(r) => bought[d] # req[r].with
  /\ \A r, s \in Requests : Holds(r) /\ Holds(s) /\ req[r].with = req[s].with => r = s
Unheld(p) ==
  /\ \A d \in Devices : bought[d] # p
  /\ \A r \in Requests : req[r].pc = "add" => req[r].with # p
FreshRows   == \A d \in Devices : d > devices => bought[d] = None
FreshTokens ==
  \A t \in Tokens : t > tokens =>
    /\ Unheld(Link(t)) /\ t \notin dead
    /\ \A r \in Requests : req[r].pc = "consume" => req[r].with # Link(t)
    /\ \A u \in Users : invite[u] # None => invite[u].token # t
LiveInvites ==
  \A u \in Users : invite[u] # None /\ ~invite[u].consumed
                     => Unheld(Link(invite[u].token)) /\ invite[u].token \notin dead
OwnTokens ==
  \A u, v \in Users : /\ invite[u] # None /\ invite[v] # None
                      /\ invite[u].token = invite[v].token
                      => u = v
DeadLinks   == \A t \in dead : Unheld(Link(t))
UnusedCodes == \A u \in Users : \A b \in backup[u] : Unheld(Backup(u, b))
SInv == /\ OneHolder /\ FreshRows /\ FreshTokens /\ LiveInvites /\ OwnTokens
        /\ DeadLinks /\ UnusedCodes

\* Nobody hands out roles before the claim, and a device is trusted by what its
\* account has proved itself; afterwards nobody takes the root admin's role.
Unasked == {"totp", "backup", "pair"}
NoRolesYet ==
  root = None => /\ \A u \in Users : role[u] = None /\ invite[u] = None
                 /\ \A r \in Requests : req[r].role = None
EarlyOnly ==
  root = None => /\ \A d \in Devices : owner[d] # None => bought[d].how \in Unasked
                 /\ \A r \in Requests : At(r, "add") => req[r].with.how \in Unasked
RootKeeps ==
  root # None /\ ~excused =>
    /\ role[root] \in {None, "admin"}
    /\ \A r \in Requests : At(r, "setrole") /\ req[r].user = root
                             => req[r].role = "admin"
RInv == NoRolesYet /\ EarlyOnly /\ RootKeeps
-----------------------------------------------------------------------------
(* The steps, and what each of them does to the requests.                  *)

LEMMA NextCases ==
  ASSUME Next
  PROVE  \/ \E r \in Requests : \/ Recheck(r) \/ RecordClaim(r) \/ AddDevice(r)
                                \/ ClearPending(r) \/ MintCode(r) \/ WriteApproval(r)
                                \/ Unpend(r) \/ Issue(r) \/ Consume(r) \/ TakeRole(r)
                                \/ WriteRole(r) \/ Fails(r)
         \/ \E r \in Requests, u \in Users :
              \/ Claim(r, u) \/ AskCode(r, u) \/ Approve(r, u) \/ Poll(r, u)
              \/ SelfTrust(r, u) \/ Resend(r, u) \/ Redeem(r, u)
              \/ \E b \in BackupCodes : UseBackupCode(r, u, b)
              \/ \E ro \in Roles : Invite(r, u, ro) \/ SetRole(r, u, ro)
                                     \/ MapRole(r, u, ro)
         \/ \E u \in Users : Revoke(u) \/ InviteExpires(u) \/ Deny(u)
         \/ \E c \in Codes : CodeAges(c)
         \/ \E d \in Devices : RemoveDevice(d)
BY DEF Next, Proceeds, Arrives

LEMMA PurchaseTypes ==
  /\ ByClaim \in Purchases /\ ByTotp \in Purchases
  /\ \A t \in Tokens : Link(t) \in Purchases
  /\ \A c \in Codes : Pair(c) \in Purchases
  /\ \A u \in Users, b \in BackupCodes : Backup(u, b) \in Purchases
BY DEF ByClaim, ByTotp, Link, Pair, Backup, Buys, Purchases

LEMMA GoesOn ==
  ASSUME Requested, NEW r \in Requests, NEW pc \in Pcs, Goes(r, pc),
         Carries([pc |-> pc, user |-> req[r].user, with |-> req[r].with,
                  role |-> req[r].role])
  PROVE  Requested'
<1>1. /\ req' \in [Requests -> Request] /\ arrivals' = arrivals
      /\ \A s \in Requests \ {r} : req'[s] = req[s]
      /\ req'[r] = [pc |-> pc, user |-> req[r].user, with |-> req[r].with,
                    role |-> req[r].role]
  BY DEF Requested, Goes, Request
<1> QED
  BY <1>1 DEF Requested

LEMMA EndsHere ==
  ASSUME Requested, NEW r \in Requests, Ends(r)
  PROVE  Requested'
<1>1. /\ req' \in [Requests -> Request] /\ arrivals' = arrivals
      /\ \A s \in Requests \ {r} : req'[s] = req[s]
      /\ req'[r] = Idle
  BY DEF Requested, Ends, Request, Idle, Pcs
<1>2. Carries(Idle)
  BY DEF Carries, Idle
<1> QED
  BY <1>1, <1>2 DEF Requested

LEMMA StartsNow ==
  ASSUME Requested, NEW r \in Requests, NEW pc \in Pcs, NEW u \in Users,
         NEW with \in Purchases \cup {None}, NEW ro \in Roles \cup {None},
         Starts(r, pc, u, with, ro),
         Carries([pc |-> pc, user |-> u, with |-> with, role |-> ro])
  PROVE  Requested'
<1>1. /\ req' \in [Requests -> Request] /\ arrivals' \in 0 .. MaxArrivals
      /\ \A s \in Requests \ {r} : req'[s] = req[s]
      /\ req'[r] = [pc |-> pc, user |-> u, with |-> with, role |-> ro]
  BY DeviceTrustAssumption DEF Requested, Starts, Request
<1> QED
  BY <1>1 DEF Requested

LEMMA Untouched ==
  ASSUME Requested, UNCHANGED <<req, arrivals>>
  PROVE  Requested'
BY DEF Requested



-----------------------------------------------------------------------------
(* Type correctness, and what requests carry.                              *)

LEMMA TInvStep ==
  ASSUME TInv, [Next]_vars
  PROVE  TInv'
<1> USE DEF TInv
<1>1. ASSUME UNCHANGED vars PROVE TInv'
  BY <1>1, Untouched DEF vars, TypeOK
<1>2. ASSUME NEW r \in Requests, Recheck(r) PROVE TInv'
  <2>1. req[r] \in Request /\ Carries(req[r]) /\ req[r].pc = "recheck"
    BY <1>2 DEF Recheck, At, Requested
  <2>2. ASSUME Goes(r, "record") PROVE Requested'
    <3>1. Carries([pc |-> "record", user |-> req[r].user, with |-> req[r].with,
                   role |-> req[r].role])
      BY <2>1, PurchaseTypes DEF Carries, Request
    <3> QED
      BY <2>2, <3>1, GoesOn DEF Pcs
  <2>3. ASSUME Goes(r, "add") PROVE Requested'
    <3>1. Carries([pc |-> "add", user |-> req[r].user, with |-> req[r].with,
                   role |-> req[r].role])
      BY <2>1, PurchaseTypes DEF Carries, Request
    <3> QED
      BY <2>3, <3>1, GoesOn DEF Pcs
  <2>4. Requested'
    BY <1>2, <2>2, <2>3 DEF Recheck
  <2> QED
    BY <1>2, <2>4 DEF Recheck, TypeOK, Requested, history
<1>3. ASSUME NEW r \in Requests, RecordClaim(r) PROVE TInv'
  <2>1. req[r] \in Request /\ Carries(req[r]) /\ req[r].pc = "record"
    BY <1>3 DEF RecordClaim, At, Requested
  <2>2. Goes(r, "add")
    BY <1>3 DEF RecordClaim
  <2>3. Carries([pc |-> "add", user |-> req[r].user, with |-> req[r].with,
                 role |-> req[r].role])
    BY <2>1, PurchaseTypes DEF Carries
  <2>4. Requested'
    BY <2>2, <2>3, GoesOn DEF Pcs
  <2> QED
    BY <1>3, <2>1, <2>4 DEF RecordClaim, Carries, Request, TypeOK, Requested, history
<1>4. ASSUME NEW r \in Requests, AddDevice(r) PROVE TInv'
  <2>1. req[r] \in Request /\ Carries(req[r]) /\ req[r].pc = "add"
    BY <1>4 DEF AddDevice, At, Requested
  <2>2. Goes(r, "clear")
    BY <1>4 DEF AddDevice
  <2>3. Carries([pc |-> "clear", user |-> req[r].user, with |-> req[r].with,
                 role |-> req[r].role])
    BY <2>1 DEF Carries
  <2>4. Requested'
    BY <2>2, <2>3, GoesOn DEF Pcs
  <2> QED
    BY <1>4, <2>1, <2>4, DeviceTrustAssumption
       DEF AddDevice, Carries, Devices, TypeOK, Requested, history
<1>5. ASSUME NEW r \in Requests, ClearPending(r) PROVE TInv'
  <2>1. req[r] \in Request /\ Carries(req[r]) /\ req[r].pc = "clear"
    BY <1>5 DEF ClearPending, At, Requested
  <2>2. ASSUME req[r].role # None PROVE Requested'
    <3>1. Goes(r, "role")
      BY <1>5, <2>2 DEF ClearPending
    <3>2. Carries([pc |-> "role", user |-> req[r].user, with |-> req[r].with,
                   role |-> req[r].role])
      BY <2>1, <2>2 DEF Carries, Request
    <3> QED
      BY <3>1, <3>2, GoesOn DEF Pcs
  <2>3. ASSUME ~(req[r].role # None) PROVE Requested'
    <3>1. Ends(r)
      BY <1>5, <2>3 DEF ClearPending
    <3> QED
      BY <3>1, EndsHere
  <2>4. Requested'
    BY <2>2, <2>3
  <2> QED
    BY <1>5, <2>4 DEF ClearPending, Clears, TypeOK, Requested, history
<1>6. ASSUME NEW r \in Requests, MintCode(r) PROVE TInv'
  <2>1. Requested'
    BY <1>6, EndsHere DEF MintCode
  <2>2. req[r] \in Request /\ Carries(req[r]) /\ req[r].pc = "mint"
    BY <1>6 DEF MintCode, At, Requested
  <2> QED
    BY <1>6, <2>1, <2>2 DEF MintCode, UpsertPair, Pairs, Carries, Request, TypeOK,
        Requested, history
<1>7. ASSUME NEW r \in Requests, WriteApproval(r) PROVE TInv'
  <2>1. Requested'
    BY <1>7, EndsHere DEF WriteApproval
  <2>2. req[r] \in Request /\ Carries(req[r]) /\ req[r].pc = "approve"
    BY <1>7 DEF WriteApproval, At, Requested
  <2>3. req[r].with.what \in Codes
    BY <2>2 DEF Carries, Pair, Buys
  <2> QED
    BY <1>7, <2>1, <2>2, <2>3 DEF WriteApproval, Pairs, TypeOK, Requested, history
<1>8. ASSUME NEW r \in Requests, Unpend(r) PROVE TInv'
  <2>1. req[r] \in Request /\ Carries(req[r]) /\ req[r].pc = "unpend"
    BY <1>8 DEF Unpend, At, Requested
  <2>2. Goes(r, "add")
    BY <1>8 DEF Unpend
  <2>3. Carries([pc |-> "add", user |-> req[r].user, with |-> req[r].with,
                 role |-> req[r].role])
    BY <2>1, PurchaseTypes DEF Carries
  <2>4. Requested'
    BY <2>2, <2>3, GoesOn DEF Pcs
  <2> QED
    BY <1>8, <2>4 DEF Unpend, Clears, TypeOK, Requested, history
<1>9. ASSUME NEW r \in Requests, Issue(r) PROVE TInv'
  <2>1. Requested'
    BY <1>9, EndsHere DEF Issue
  <2>2. req[r] \in Request /\ Carries(req[r]) /\ req[r].pc = "issue"
    BY <1>9 DEF Issue, At, Requested
  <2>3. /\ tokens + 1 \in Tokens /\ tokens' = tokens + 1
        /\ req[r].user \in Users /\ req[r].role \in Roles
    BY <1>9, <2>2, DeviceTrustAssumption DEF Issue, Carries, Tokens, TypeOK
  <2>4. invite' \in [Users -> Invites \cup {None}]
    <3>1. [token |-> tokens + 1, role |-> req[r].role, consumed |-> FALSE,
           expired |-> FALSE] \in Invites
      BY <2>3 DEF Invites
    <3> QED
      BY <1>9, <3>1 DEF Issue, TypeOK
  <2>5. dead' \subseteq Tokens
    BY <1>9 DEF Issue, LiveLinks, TypeOK
  <2> QED
    BY <1>9, <2>1, <2>2, <2>3, <2>4, <2>5, DeviceTrustAssumption
       DEF Issue, Tokens, TypeOK, Requested, history
<1>10. ASSUME NEW r \in Requests, Consume(r) PROVE TInv'
  <2>1. req[r] \in Request /\ Carries(req[r]) /\ req[r].pc = "consume"
    BY <1>10 DEF Consume, At, Requested
  <2>2. ASSUME Burns(r) PROVE Requested'
    <3>1. Goes(r, "add")
      BY <1>10, <2>2 DEF Consume
    <3>2. Carries([pc |-> "add", user |-> req[r].user, with |-> req[r].with,
                   role |-> req[r].role])
      BY <2>1, <2>2, PurchaseTypes DEF Carries, Request
    <3> QED
      BY <3>1, <3>2, GoesOn DEF Pcs
  <2>3. ASSUME ~(Burns(r)) PROVE Requested'
    <3>1. Ends(r)
      BY <1>10, <2>3 DEF Consume
    <3> QED
      BY <3>1, EndsHere
  <2>4. Requested'
    BY <2>2, <2>3
  <2>5. invite' \in [Users -> Invites \cup {None}]
    <3>1. CASE ~Burns(r)
      BY <1>10, <3>1 DEF Consume, TypeOK
    <3>2. CASE Burns(r)
      <4>1. /\ req[r].user \in Users /\ invite[req[r].user] \in Invites
            /\ invite' = [invite EXCEPT ![req[r].user].consumed = TRUE]
        BY <1>10, <2>1, <3>2 DEF Consume, Burns, Carries, TypeOK
      <4>2. [invite[req[r].user] EXCEPT !.consumed = TRUE] \in Invites
        BY <4>1 DEF Invites
      <4> QED
        BY <4>1, <4>2 DEF TypeOK
    <3> QED
      BY <3>1, <3>2
  <2> QED
    BY <1>10, <2>4, <2>5 DEF Consume, TypeOK, Requested, history
<1>11. ASSUME NEW r \in Requests, TakeRole(r) PROVE TInv'
  <2>1. req[r] \in Request /\ Carries(req[r]) /\ req[r].pc = "role"
    BY <1>11 DEF TakeRole, At, Requested
  <2>2. ASSUME Goes(r, "setrole") PROVE Requested'
    <3>1. Carries([pc |-> "setrole", user |-> req[r].user, with |-> req[r].with,
                   role |-> req[r].role])
      BY <2>1 DEF Carries, Request
    <3> QED
      BY <2>2, <3>1, GoesOn DEF Pcs
  <2>3. ASSUME Ends(r) PROVE Requested'
    BY <2>3, EndsHere
  <2>4. Requested' /\ excused' \in BOOLEAN
    BY <1>11, <2>2, <2>3 DEF TakeRole, TypeOK
  <2> QED
    BY <1>11, <2>4 DEF TakeRole, TypeOK, Requested, history
<1>12. ASSUME NEW r \in Requests, WriteRole(r) PROVE TInv'
  <2>1. Requested'
    BY <1>12, EndsHere DEF WriteRole
  <2>2. req[r] \in Request /\ Carries(req[r]) /\ req[r].pc = "setrole"
    BY <1>12 DEF WriteRole, At, Requested
  <2> QED
    BY <1>12, <2>1, <2>2 DEF WriteRole, Carries, Request, TypeOK, Requested, history
<1>13. ASSUME NEW r \in Requests, Fails(r) PROVE TInv'
  <2>1. Requested'
    BY <1>13, EndsHere DEF Fails
  <2> QED
    BY <1>13, <2>1 DEF Fails, TypeOK, Requested, history
<1>14. ASSUME NEW r \in Requests, NEW u \in Users, Claim(r, u) PROVE TInv'
  <2>1. Starts(r, "recheck", u, ByClaim, None)
    BY <1>14 DEF Claim
  <2>2. Carries([pc |-> "recheck", user |-> u, with |-> ByClaim, role |-> None])
    BY PurchaseTypes DEF Carries
  <2>3. Requested'
    BY <2>1, <2>2, StartsNow, PurchaseTypes DEF Pcs
  <2> QED
    BY <1>14, <2>3 DEF Claim, TypeOK, Requested, history
<1>15. ASSUME NEW r \in Requests, NEW u \in Users, Approve(r, u) PROVE TInv'
  <2>1. pending[u].code \in Codes
    BY <1>15, PurchaseTypes DEF Approve, TypeOK, Pairs
  <2>2. Starts(r, "approve", u, Pair(pending[u].code), None)
    BY <1>15 DEF Approve
  <2>3. Carries([pc |-> "approve", user |-> u, with |-> Pair(pending[u].code),
      role |-> None])
    BY <2>1, PurchaseTypes DEF Carries
  <2>4. Requested'
    BY <2>1, <2>2, <2>3, StartsNow, PurchaseTypes DEF Pcs
  <2> QED
    BY <1>15, <2>1, <2>4 DEF Approve, TypeOK, Requested, history
<1>16. ASSUME NEW r \in Requests, NEW u \in Users, Poll(r, u) PROVE TInv'
  <2>1. pending[u].code \in Codes
    BY <1>16, PurchaseTypes DEF Poll, TypeOK, Pairs
  <2>2. Starts(r, "unpend", u, Pair(pending[u].code), None)
    BY <1>16 DEF Poll
  <2>3. Carries([pc |-> "unpend", user |-> u, with |-> Pair(pending[u].code),
      role |-> None])
    BY <2>1, PurchaseTypes DEF Carries
  <2>4. Requested'
    BY <2>1, <2>2, <2>3, StartsNow, PurchaseTypes DEF Pcs
  <2> QED
    BY <1>16, <2>4 DEF Poll, TypeOK, Requested, history
<1>17. ASSUME NEW r \in Requests, NEW u \in Users, SelfTrust(r, u) PROVE TInv'
  <2>1. Starts(r, "add", u, ByTotp, None)
    BY <1>17 DEF SelfTrust
  <2>2. Carries([pc |-> "add", user |-> u, with |-> ByTotp, role |-> None])
    BY PurchaseTypes DEF Carries
  <2>3. Requested'
    BY <2>1, <2>2, StartsNow, PurchaseTypes DEF Pcs
  <2> QED
    BY <1>17, <2>3 DEF SelfTrust, TypeOK, Requested, history
<1>18. ASSUME NEW r \in Requests, NEW u \in Users, NEW b \in BackupCodes,
    UseBackupCode(r, u, b) PROVE TInv'
  <2>1. Starts(r, "add", u, Backup(u, b), None)
    BY <1>18 DEF UseBackupCode
  <2>2. Carries([pc |-> "add", user |-> u, with |-> Backup(u, b), role |-> None])
    BY PurchaseTypes DEF Carries
  <2>3. Requested'
    BY <2>1, <2>2, StartsNow, PurchaseTypes DEF Pcs
  <2> QED
    BY <1>18, <2>3 DEF UseBackupCode, TypeOK, Requested, history
<1>19. ASSUME NEW r \in Requests, NEW u \in Users, Resend(r, u) PROVE TInv'
  <2>1. invite[u].role \in Roles
    BY <1>19, PurchaseTypes DEF Resend, TypeOK, Invites
  <2>2. Starts(r, "issue", u, None, invite[u].role)
    BY <1>19 DEF Resend
  <2>3. Carries([pc |-> "issue", user |-> u, with |-> None, role |-> invite[u].role])
    BY <2>1, PurchaseTypes DEF Carries
  <2>4. Requested'
    BY <2>1, <2>2, <2>3, StartsNow, PurchaseTypes DEF Pcs
  <2> QED
    BY <1>19, <2>4 DEF Resend, TypeOK, Requested, history
<1>20. ASSUME NEW r \in Requests, NEW u \in Users, Redeem(r, u) PROVE TInv'
  <2>1. invite[u].token \in Tokens /\ invite[u].role \in Roles
    BY <1>20, PurchaseTypes DEF Redeem, TypeOK, Invites
  <2>2. Starts(r, "consume", u, Link(invite[u].token), invite[u].role)
    BY <1>20 DEF Redeem
  <2>3. Carries([pc |-> "consume", user |-> u, with |-> Link(invite[u].token),
      role |-> invite[u].role])
    BY <2>1, PurchaseTypes DEF Carries
  <2>4. Requested'
    BY <2>1, <2>2, <2>3, StartsNow, PurchaseTypes DEF Pcs
  <2> QED
    BY <1>20, <2>4 DEF Redeem, TypeOK, Requested, history
<1>21. ASSUME NEW r \in Requests, NEW u \in Users, NEW ro \in Roles, Invite(r, u,
    ro) PROVE TInv'
  <2>1. Starts(r, "issue", u, None, ro)
    BY <1>21 DEF Invite
  <2>2. Carries([pc |-> "issue", user |-> u, with |-> None, role |-> ro])
    BY PurchaseTypes DEF Carries
  <2>3. Requested'
    BY <2>1, <2>2, StartsNow, PurchaseTypes DEF Pcs
  <2> QED
    BY <1>21, <2>3 DEF Invite, TypeOK, Requested, history
<1>22. ASSUME NEW r \in Requests, NEW u \in Users, NEW ro \in Roles, SetRole(r, u,
    ro) PROVE TInv'
  <2>1. Starts(r, "setrole", u, None, ro)
    BY <1>22 DEF SetRole
  <2>2. Carries([pc |-> "setrole", user |-> u, with |-> None, role |-> ro])
    BY PurchaseTypes DEF Carries
  <2>3. Requested'
    BY <2>1, <2>2, StartsNow, PurchaseTypes DEF Pcs
  <2> QED
    BY <1>22, <2>3 DEF SetRole, TypeOK, Requested
<1>23. ASSUME NEW r \in Requests, NEW u \in Users, NEW ro \in Roles, MapRole(r, u,
    ro) PROVE TInv'
  <2>1. Starts(r, "setrole", u, None, ro)
    BY <1>23 DEF MapRole
  <2>2. Carries([pc |-> "setrole", user |-> u, with |-> None, role |-> ro])
    BY PurchaseTypes DEF Carries
  <2>3. Requested'
    BY <2>1, <2>2, StartsNow, PurchaseTypes DEF Pcs
  <2> QED
    BY <1>23, <2>3 DEF MapRole, TypeOK, Requested, history
<1>24. ASSUME NEW r \in Requests, NEW u \in Users, AskCode(r, u) PROVE TInv'
  <2>1. Carries([pc |-> "mint", user |-> u, with |-> None, role |-> None])
    BY DEF Carries
  <2>2. CASE Starts(r, "mint", u, None, None)
    <3>1. Requested'
      BY <2>1, <2>2, StartsNow DEF Pcs
    <3> QED
      BY <1>24, <3>1 DEF AskCode, TypeOK, Requested, history
  <2>3. CASE UNCHANGED <<req, arrivals>>
    <3>1. Requested'
      BY <2>3, Untouched
    <3> QED
      BY <1>24, <3>1 DEF AskCode, TypeOK, Requested, history
  <2> QED
    BY <1>24, <2>2, <2>3 DEF AskCode
<1>25. ASSUME NEW u \in Users, Revoke(u) PROVE TInv'
  <2>1. Requested'
    BY <1>25, Untouched DEF Revoke
  <2> QED
    BY <1>25, <2>1 DEF Revoke, LiveLinks, Tokens, TypeOK, Requested, history
<1>26. ASSUME NEW u \in Users, InviteExpires(u) PROVE TInv'
  <2>1. Requested'
    BY <1>26, Untouched DEF InviteExpires
  <2> QED
    BY <1>26, <2>1 DEF InviteExpires, Invites, TypeOK, Requested, history
<1>27. ASSUME NEW u \in Users, Deny(u) PROVE TInv'
  <2>1. Requested'
    BY <1>27, Untouched DEF Deny
  <2> QED
    BY <1>27, <2>1 DEF Deny, TypeOK, Requested, history
<1>28. ASSUME NEW c \in Codes, CodeAges(c) PROVE TInv'
  <2>1. Requested'
    BY <1>28, Untouched DEF CodeAges
  <2> QED
    BY <1>28, <2>1 DEF CodeAges, TypeOK, Requested, history
<1>29. ASSUME NEW d \in Devices, RemoveDevice(d) PROVE TInv'
  <2>1. Requested'
    BY <1>29, Untouched DEF RemoveDevice
  <2> QED
    BY <1>29, <2>1 DEF RemoveDevice, TypeOK, Requested, history
<1> QED
  BY <1>1, <1>2, <1>3, <1>4, <1>5, <1>6, <1>7, <1>8, <1>9, <1>10,
     <1>11, <1>12, <1>13, <1>14, <1>15, <1>16, <1>17, <1>18, <1>19, <1>20,
     <1>21, <1>22, <1>23, <1>24, <1>25, <1>26, <1>27, <1>28, <1>29, NextCases

LEMMA AlwaysTyped == Spec => []TInv
<1>1. Init => TInv
  <2>1. Idle \in Request /\ Carries(Idle)
    BY DEF Idle, Request, Pcs, Carries
  <2>2. Init => backup \in [Users -> SUBSET BackupCodes]
    BY DEF Init
  <2>3. ASSUME Init PROVE TypeOK
    <3>1. arrivals \in 0 .. MaxArrivals /\ devices \in 0 .. MaxDevices
          /\ tokens \in 0 .. MaxTokens /\ req \in [Requests -> Request]
      BY <2>1, <2>3, DeviceTrustAssumption DEF Init
    <3>2. /\ root \in Users \cup {None} /\ role \in [Users -> Roles \cup {None}]
          /\ owner \in [Devices -> Users \cup {None}]
          /\ pending \in [Users -> Pairs \cup {None}]
          /\ invite \in [Users -> Invites \cup {None}]
          /\ bought \in [Devices -> Purchases \cup {None}]
      BY <2>3 DEF Init
    <3>3. life \in [Codes -> {"unused", "fresh", "ending", "expired"}]
      BY <2>3 DEF Init
    <3>4. approvals \subseteq Users \X Codes /\ dead \subseteq Tokens
      BY <2>3 DEF Init
    <3>5. excused \in BOOLEAN
      BY <2>3 DEF Init
    <3> QED
      BY <2>2, <2>3, <3>1, <3>2, <3>3, <3>4, <3>5 DEF TypeOK
  <2> QED
    BY <2>1, <2>3 DEF TInv, TypeOK, Requested, Init
<1> QED
  BY <1>1, TInvStep, PTL DEF Spec

\* Init and every step of Next keep the types of the variables, and with them what
\* each handler carries from one of its statements to the next.
THEOREM TypeCorrect == Spec => []TypeOK
<1>1. TInv => TypeOK
  BY DEF TInv
<1> QED
  BY <1>1, AlwaysTyped, PTL

-----------------------------------------------------------------------------
(* Which action writes what.                                               *)

Writers ==
  /\ (\E r \in Requests : AddDevice(r)) \/ UNCHANGED <<bought, devices>>
  /\ (\E r \in Requests : AddDevice(r)) \/ (\E d \in Devices : RemoveDevice(d))
       \/ UNCHANGED owner
  /\ (\E r \in Requests : \/ ClearPending(r) \/ MintCode(r) \/ WriteApproval(r) \/ Unpend(r)
                          \/ \E u \in Users : AskCode(r, u))
       \/ (\E u \in Users : Deny(u)) \/ UNCHANGED pending
  /\ (\E r \in Requests, u \in Users : Approve(r, u)) \/ UNCHANGED approvals
  /\ (\E r \in Requests : Issue(r) \/ Consume(r))
       \/ (\E u \in Users : Revoke(u) \/ InviteExpires(u)) \/ UNCHANGED invite
  /\ (\E r \in Requests : Issue(r)) \/ UNCHANGED tokens
  /\ (\E r \in Requests : Issue(r)) \/ (\E u \in Users : Revoke(u)) \/ UNCHANGED dead
  /\ (\E r \in Requests, u \in Users, b \in BackupCodes : UseBackupCode(r, u, b))
       \/ UNCHANGED backup
  /\ (\E r \in Requests : RecordClaim(r)) \/ UNCHANGED root
  /\ (\E r \in Requests : WriteRole(r)) \/ UNCHANGED role
  /\ excused => excused'

LEMMA WhoWrites ==
  ASSUME [Next]_vars
  PROVE  Writers
<1>1. ASSUME UNCHANGED vars PROVE Writers
  BY <1>1 DEF vars, Writers
<1>2. ASSUME NEW r \in Requests, Recheck(r) PROVE Writers
  BY <1>2 DEF Recheck, history, Writers
<1>3. ASSUME NEW r \in Requests, RecordClaim(r) PROVE Writers
  BY <1>3 DEF RecordClaim, history, Writers
<1>4. ASSUME NEW r \in Requests, AddDevice(r) PROVE Writers
  BY <1>4 DEF AddDevice, history, Writers
<1>5. ASSUME NEW r \in Requests, ClearPending(r) PROVE Writers
  BY <1>5 DEF ClearPending, history, Writers
<1>6. ASSUME NEW r \in Requests, MintCode(r) PROVE Writers
  BY <1>6 DEF MintCode, history, Writers
<1>7. ASSUME NEW r \in Requests, WriteApproval(r) PROVE Writers
  BY <1>7 DEF WriteApproval, history, Writers
<1>8. ASSUME NEW r \in Requests, Unpend(r) PROVE Writers
  BY <1>8 DEF Unpend, history, Writers
<1>9. ASSUME NEW r \in Requests, Issue(r) PROVE Writers
  BY <1>9 DEF Issue, history, Writers
<1>10. ASSUME NEW r \in Requests, Consume(r) PROVE Writers
  BY <1>10 DEF Consume, history, Writers
<1>11. ASSUME NEW r \in Requests, TakeRole(r) PROVE Writers
  <2>1. excused => excused'
    BY <1>11, Zenon DEF TakeRole
  <2> QED
    BY <1>11, <2>1 DEF TakeRole, Writers
<1>12. ASSUME NEW r \in Requests, WriteRole(r) PROVE Writers
  BY <1>12 DEF WriteRole, history, Writers
<1>13. ASSUME NEW r \in Requests, Fails(r) PROVE Writers
  BY <1>13 DEF Fails, history, Writers
<1>14. ASSUME NEW r \in Requests, NEW u \in Users, Claim(r, u) PROVE Writers
  BY <1>14 DEF Claim, history, Writers
<1>15. ASSUME NEW r \in Requests, NEW u \in Users, AskCode(r, u) PROVE Writers
  BY <1>15 DEF AskCode, history, Writers
<1>16. ASSUME NEW r \in Requests, NEW u \in Users, Approve(r, u) PROVE Writers
  BY <1>16 DEF Approve, history, Writers
<1>17. ASSUME NEW r \in Requests, NEW u \in Users, Poll(r, u) PROVE Writers
  BY <1>17 DEF Poll, history, Writers
<1>18. ASSUME NEW r \in Requests, NEW u \in Users, SelfTrust(r, u) PROVE Writers
  BY <1>18 DEF SelfTrust, history, Writers
<1>19. ASSUME NEW r \in Requests, NEW u \in Users, Resend(r, u) PROVE Writers
  BY <1>19 DEF Resend, history, Writers
<1>20. ASSUME NEW r \in Requests, NEW u \in Users, Redeem(r, u) PROVE Writers
  BY <1>20 DEF Redeem, history, Writers
<1>21. ASSUME NEW r \in Requests, NEW u \in Users, NEW b \in BackupCodes,
             UseBackupCode(r, u, b)
      PROVE  Writers
  BY <1>21 DEF UseBackupCode, history, Writers
<1>22. ASSUME NEW r \in Requests, NEW u \in Users, NEW ro \in Roles,
             Invite(r, u, ro)
      PROVE  Writers
  BY <1>22 DEF Invite, history, Writers
<1>23. ASSUME NEW r \in Requests, NEW u \in Users, NEW ro \in Roles,
             SetRole(r, u, ro)
      PROVE  Writers
  BY <1>23 DEF SetRole, history, Writers
<1>24. ASSUME NEW r \in Requests, NEW u \in Users, NEW ro \in Roles,
             MapRole(r, u, ro)
      PROVE  Writers
  BY <1>24 DEF MapRole, history, Writers
<1>25. ASSUME NEW u \in Users, Revoke(u) PROVE Writers
  BY <1>25 DEF Revoke, history, Writers
<1>26. ASSUME NEW u \in Users, InviteExpires(u) PROVE Writers
  BY <1>26 DEF InviteExpires, history, Writers
<1>27. ASSUME NEW u \in Users, Deny(u) PROVE Writers
  BY <1>27 DEF Deny, history, Writers
<1>28. ASSUME NEW c \in Codes, CodeAges(c) PROVE Writers
  BY <1>28 DEF CodeAges, history, Writers
<1>29. ASSUME NEW d \in Devices, RemoveDevice(d) PROVE Writers
  BY <1>29 DEF RemoveDevice, history, Writers
<1> QED
  BY <1>1, <1>2, <1>3, <1>4, <1>5, <1>6, <1>7, <1>8, <1>9, <1>10,
     <1>11, <1>12, <1>13, <1>14, <1>15, <1>16, <1>17, <1>18, <1>19, <1>20,
     <1>21, <1>22, <1>23, <1>24, <1>25, <1>26, <1>27, <1>28, <1>29, NextCases

-----------------------------------------------------------------------------
(* Most steps leave a request where it neither holds nor is about to take  *)
(* a proof that somebody else may take.                                    *)

Inert(q) == /\ q.pc \notin {"approve", "unpend", "consume"}
            /\ q.pc = "add" => q.with \in {ByClaim, ByTotp}
Calm == \A s \in Requests :
          \/ req'[s] = req[s]
          \/ /\ Inert(req'[s])
             /\ req'[s].pc = "add" /\ req'[s].with = ByClaim => root' # None

LEMMA GoesCalm ==
  ASSUME Requested, NEW r \in Requests, NEW pc \in Pcs, Goes(r, pc),
         pc \notin {"approve", "unpend", "consume"},
         pc = "add" => req[r].with = ByClaim /\ root' # None
  PROVE  Calm
<1>1. /\ \A s \in Requests \ {r} : req'[s] = req[s]
      /\ req'[r].pc = pc /\ req'[r].with = req[r].with
  BY DEF Requested, Goes, Request
<1> QED
  BY <1>1 DEF Calm, Inert

LEMMA EndsCalm ==
  ASSUME Requested, NEW r \in Requests, Ends(r)
  PROVE  Calm
<1>1. /\ \A s \in Requests \ {r} : req'[s] = req[s]
      /\ req'[r].pc = "idle"
  BY DEF Requested, Ends, Request, Idle
<1> QED
  BY <1>1 DEF Calm, Inert

LEMMA StartsTo ==
  ASSUME Requested, NEW r \in Requests, NEW pc, NEW u, NEW with, NEW ro,
         Starts(r, pc, u, with, ro)
  PROVE  /\ \A s \in Requests \ {r} : req'[s] = req[s]
         /\ req'[r].pc = pc /\ req'[r].user = u /\ req'[r].with = with
         /\ req'[r].role = ro
BY DEF Requested, Starts

LEMMA StartsCalm ==
  ASSUME Requested, NEW r \in Requests, NEW pc, NEW u, NEW with, NEW ro,
         Starts(r, pc, u, with, ro),
         pc \notin {"approve", "unpend", "consume"},
         pc = "add" => with = ByTotp
  PROVE  Calm
<1>1. ByTotp # ByClaim
  BY DEF ByTotp, ByClaim, Buys
<1> QED
  BY <1>1, StartsTo DEF Calm, Inert

Stirring ==
  \/ \E r \in Requests : Unpend(r) \/ Consume(r)
  \/ \E r \in Requests, u \in Users :
       Approve(r, u) \/ Poll(r, u) \/ Redeem(r, u)
         \/ \E b \in BackupCodes : UseBackupCode(r, u, b)

LEMMA MostAreCalm ==
  ASSUME TInv, [Next]_vars
  PROVE  Calm \/ Stirring
<1> USE DEF TInv
<1>1. ASSUME UNCHANGED vars PROVE Calm
  BY <1>1 DEF vars, Calm
<1>2. ASSUME NEW r \in Requests, Recheck(r) PROVE Calm
  <2>1. req[r].with = ByClaim
    BY <1>2 DEF Recheck, At, Requested, Carries
  <2>2. Goes(r, "record") \/ (Goes(r, "add") /\ root' # None)
    BY <1>2 DEF Recheck, Reads
  <2> QED
    BY <2>1, <2>2, GoesCalm DEF Pcs
<1>3. ASSUME NEW r \in Requests, RecordClaim(r) PROVE Calm
  <2>1. req[r].with = ByClaim /\ req[r].user \in Users
    BY <1>3 DEF RecordClaim, At, Requested, Carries
  <2>2. root' # None
    BY <1>3, <2>1, DeviceTrustAssumption DEF RecordClaim
  <2> QED
    BY <1>3, <2>1, <2>2, GoesCalm DEF RecordClaim, Pcs
<1>4. ASSUME NEW r \in Requests, AddDevice(r) PROVE Calm
  BY <1>4, GoesCalm DEF AddDevice, Pcs
<1>5. ASSUME NEW r \in Requests, ClearPending(r) PROVE Calm
  BY <1>5, GoesCalm, EndsCalm DEF ClearPending, Pcs
<1>6. ASSUME NEW r \in Requests, MintCode(r) PROVE Calm
  BY <1>6, EndsCalm DEF MintCode
<1>7. ASSUME NEW r \in Requests, WriteApproval(r) PROVE Calm
  BY <1>7, EndsCalm DEF WriteApproval
<1>8. ASSUME NEW r \in Requests, Issue(r) PROVE Calm
  BY <1>8, EndsCalm DEF Issue
<1>9. ASSUME NEW r \in Requests, WriteRole(r) PROVE Calm
  BY <1>9, EndsCalm DEF WriteRole
<1>10. ASSUME NEW r \in Requests, Fails(r) PROVE Calm
  BY <1>10, EndsCalm DEF Fails
<1>11. ASSUME NEW r \in Requests, TakeRole(r) PROVE Calm
  BY <1>11, GoesCalm, EndsCalm DEF TakeRole, Pcs
<1>12. ASSUME NEW r \in Requests, NEW u \in Users, Claim(r, u) PROVE Calm
  BY <1>12, StartsCalm DEF Claim
<1>13. ASSUME NEW r \in Requests, NEW u \in Users, AskCode(r, u) PROVE Calm
  <2>1. Starts(r, "mint", u, None, None) \/ UNCHANGED req
    BY <1>13 DEF AskCode
  <2> QED
    BY <2>1, StartsCalm DEF Calm
<1>14. ASSUME NEW r \in Requests, NEW u \in Users, SelfTrust(r, u) PROVE Calm
  BY <1>14, StartsCalm DEF SelfTrust
<1>15. ASSUME NEW r \in Requests, NEW u \in Users, Resend(r, u) PROVE Calm
  BY <1>15, StartsCalm DEF Resend
<1>16. ASSUME NEW r \in Requests, NEW u \in Users, NEW ro \in Roles,
             Invite(r, u, ro)
      PROVE  Calm
  BY <1>16, StartsCalm DEF Invite
<1>17. ASSUME NEW r \in Requests, NEW u \in Users, NEW ro \in Roles,
             SetRole(r, u, ro)
      PROVE  Calm
  BY <1>17, StartsCalm DEF SetRole
<1>18. ASSUME NEW r \in Requests, NEW u \in Users, NEW ro \in Roles,
             MapRole(r, u, ro)
      PROVE  Calm
  BY <1>18, StartsCalm DEF MapRole
<1>19. ASSUME NEW u \in Users, Revoke(u) PROVE Calm
  BY <1>19 DEF Revoke, Calm
<1>20. ASSUME NEW u \in Users, InviteExpires(u) PROVE Calm
  BY <1>20 DEF InviteExpires, Calm
<1>21. ASSUME NEW u \in Users, Deny(u) PROVE Calm
  BY <1>21 DEF Deny, Calm
<1>22. ASSUME NEW c \in Codes, CodeAges(c) PROVE Calm
  BY <1>22 DEF CodeAges, Calm
<1>23. ASSUME NEW d \in Devices, RemoveDevice(d) PROVE Calm
  BY <1>23 DEF RemoveDevice, Calm
<1> QED
  BY <1>1, <1>2, <1>3, <1>4, <1>5, <1>6, <1>7, <1>8, <1>9, <1>10,
     <1>11, <1>12, <1>13, <1>14, <1>15, <1>16, <1>17, <1>18, <1>19, <1>20,
     <1>21, <1>22, <1>23, NextCases DEF Stirring

-----------------------------------------------------------------------------
(* Nobody is trusted without an approval.                                  *)

LEMMA Kinds ==
  /\ \A c \in Codes, d \in Codes : Pair(c) = Pair(d) => c = d
  /\ \A c \in Codes : /\ Pair(c) # None /\ Pair(c) # ByClaim /\ Pair(c) # ByTotp
                      /\ \A t \in Tokens : Pair(c) # Link(t)
                      /\ \A u \in Users, b \in BackupCodes : Pair(c) # Backup(u, b)
<1>1. \A c \in Codes : Pair(c) # None
  BY NoneAssumption, PurchaseTypes
<1> QED
  BY <1>1 DEF Pair, Link, Backup, ByClaim, ByTotp, Buys

LEMMA EntitledStep ==
  ASSUME TInv, PInv, [Next]_vars
  PROVE  Entitled'
<1> USE DEF TInv
<1>1. approvals \subseteq approvals'
  BY WhoWrites DEF Writers, Approve
<1>2. CASE Calm
  BY <1>1, <1>2, Kinds DEF Calm, Inert, PInv, Entitled
<1>3. ASSUME NEW r \in Requests, Unpend(r) PROVE Entitled'
  <2>1. /\ \A s \in Requests \ {r} : req'[s] = req[s]
        /\ req'[r].with = req[r].with /\ req'[r].user = req[r].user
        /\ req[r].pc = "unpend"
    BY <1>3 DEF Unpend, Goes, At, Requested, Request
  <2> QED
    BY <1>1, <2>1 DEF PInv, Entitled
<1>4. ASSUME NEW r \in Requests, Consume(r) PROVE Entitled'
  <2>1. /\ \A s \in Requests \ {r} : req'[s] = req[s]
        /\ req'[r].with = req[r].with \/ req'[r].pc = "idle"
        /\ \E t \in Tokens : req[r].with = Link(t)
    BY <1>4 DEF Consume, Goes, Ends, Idle, At, Requested, Request, Carries
  <2> QED
    BY <1>1, <2>1, Kinds DEF PInv, Entitled
<1>5. ASSUME NEW r \in Requests, NEW u \in Users, Approve(r, u) PROVE Entitled'
  <2>1. pending[u].code \in Codes
    BY <1>5 DEF Approve, TypeOK, Pairs
  <2>2. /\ \A s \in Requests \ {r} : req'[s] = req[s]
        /\ req'[r].with = Pair(pending[u].code) /\ req'[r].user = u
    BY <1>5, StartsTo DEF Approve
  <2>3. <<u, pending[u].code>> \in approvals'
    BY <1>5 DEF Approve
  <2> QED
    BY <1>1, <2>1, <2>2, <2>3, Kinds DEF PInv, Entitled
<1>6. ASSUME NEW r \in Requests, NEW u \in Users, Poll(r, u) PROVE Entitled'
  <2>1. pending[u].code \in Codes
    BY <1>6 DEF Poll, TypeOK, Pairs
  <2>2. /\ \A s \in Requests \ {r} : req'[s] = req[s]
        /\ req'[r].with = Pair(pending[u].code) /\ req'[r].user = u
    BY <1>6, StartsTo DEF Poll
  <2>3. <<u, pending[u].code>> \in approvals
    BY <1>6 DEF Poll, PInv, Approved
  <2> QED
    BY <1>1, <2>1, <2>2, <2>3, Kinds DEF PInv, Entitled
<1>7. ASSUME NEW r \in Requests, NEW u \in Users, Redeem(r, u) PROVE Entitled'
  <2>1. /\ \A s \in Requests \ {r} : req'[s] = req[s]
        /\ req'[r].pc = "consume"
    BY <1>7, StartsTo DEF Redeem
  <2> QED
    BY <1>1, <2>1 DEF PInv, Entitled
<1>8. ASSUME NEW r \in Requests, NEW u \in Users, NEW b \in BackupCodes,
             UseBackupCode(r, u, b)
      PROVE  Entitled'
  <2>1. /\ \A s \in Requests \ {r} : req'[s] = req[s]
        /\ req'[r].with = Backup(u, b)
    BY <1>8, StartsTo DEF UseBackupCode
  <2> QED
    BY <1>1, <2>1, Kinds DEF PInv, Entitled
<1> QED
  BY <1>2, <1>3, <1>4, <1>5, <1>6, <1>7, <1>8, MostAreCalm DEF Stirring

LEMMA ApprovedStep ==
  ASSUME TInv, PInv, [Next]_vars
  PROVE  Approved'
<1> USE DEF TInv
<1>1. approvals \subseteq approvals'
  BY WhoWrites DEF Writers, Approve
<1>2. CASE UNCHANGED pending
  BY <1>1, <1>2 DEF PInv, Approved
<1>3. ASSUME NEW r \in Requests, ClearPending(r) \/ Unpend(r) PROVE Approved'
  BY <1>1, <1>3 DEF ClearPending, Unpend, Clears, TypeOK, PInv, Approved
<1>4. ASSUME NEW u \in Users, Deny(u) PROVE Approved'
  BY <1>1, <1>4 DEF Deny, TypeOK, PInv, Approved
<1>5. ASSUME NEW r \in Requests, NEW u \in Users, AskCode(r, u) PROVE Approved'
  BY <1>1, <1>5 DEF AskCode, TypeOK, PInv, Approved
<1>6. ASSUME NEW r \in Requests, MintCode(r) PROVE Approved'
  BY <1>1, <1>6 DEF MintCode, UpsertPair, TypeOK, PInv, Approved
<1>7. ASSUME NEW r \in Requests, WriteApproval(r) PROVE Approved'
  <2>1. PICK c \in Codes : req[r].with = Pair(c)
    BY <1>7 DEF WriteApproval, At, Requested, Carries
  <2>2. req[r].with.what = c /\ <<req[r].user, c>> \in approvals
    BY <1>7, <2>1 DEF WriteApproval, At, PInv, Entitled, Pair, Buys
  <2> QED
    BY <1>1, <1>7, <2>2 DEF WriteApproval, TypeOK, PInv, Approved
<1> QED
  BY <1>2, <1>3, <1>4, <1>5, <1>6, <1>7, WhoWrites DEF Writers

LEMMA ApprovedOnlyStep ==
  ASSUME TInv, PInv, [Next]_vars
  PROVE  ApprovedOnly'
<1> USE DEF TInv
<1>1. approvals \subseteq approvals'
  BY WhoWrites DEF Writers, Approve
<1>2. ASSUME NEW r \in Requests, AddDevice(r) PROVE ApprovedOnly'
  <2>1. devices + 1 \in Devices /\ req[r].pc = "add"
    BY <1>2, DeviceTrustAssumption DEF AddDevice, At, Devices, TypeOK
  <2>2. \A c \in Codes : req[r].with = Pair(c) => <<req[r].user, c>> \in approvals
    BY <2>1 DEF PInv, Entitled
  <2> QED
    BY <1>1, <1>2, <2>1, <2>2 DEF AddDevice, TypeOK, PInv, ApprovedOnly
<1>3. ASSUME NEW d \in Devices, RemoveDevice(d) PROVE ApprovedOnly'
  BY <1>1, <1>3 DEF RemoveDevice, history, TypeOK, PInv, ApprovedOnly
<1>4. CASE UNCHANGED <<owner, bought>>
  BY <1>1, <1>4 DEF PInv, ApprovedOnly
<1> QED
  BY <1>2, <1>3, <1>4, WhoWrites DEF Writers

\* Minting never carries an approval over, and what an approval writes back, a
\* poll takes and a device is inserted for is a code approved for that account,
\* for any number of accounts, codes and requests (generatePendingPairUA,
\* approvePendingPair, claimPendingPair).
THEOREM NobodyUnapproved == Spec => []ApprovedOnly
<1>1. Init => PInv
  <2>1. ASSUME Init PROVE Entitled
    BY <2>1 DEF Init, Entitled, Idle
  <2> QED
    BY <2>1 DEF Init, PInv, Approved, ApprovedOnly
<1>2. TInv /\ PInv /\ [Next]_vars => PInv'
  BY EntitledStep, ApprovedStep, ApprovedOnlyStep DEF PInv
<1>3. PInv => ApprovedOnly
  BY DEF PInv
<1> QED
  BY <1>1, <1>2, <1>3, AlwaysTyped, PTL DEF Spec

-----------------------------------------------------------------------------
(* A link and a backup code buy one device, a dead link none.              *)

LEMMA Singles ==
  /\ \A t \in Tokens : Single(Link(t)) /\ Link(t).what = t
  /\ \A u \in Users, b \in BackupCodes : Single(Backup(u, b)) /\ Backup(u, b).who = u
                                           /\ Backup(u, b).what = b
  /\ ~Single(None) /\ ~Single(ByClaim) /\ ~Single(ByTotp)
  /\ \A c \in Codes : ~Single(Pair(c))
  /\ \A t \in Tokens, u \in Users, b \in BackupCodes : Link(t) # Backup(u, b)
<1>1. /\ \A t \in Tokens : Link(t) # None
      /\ \A u \in Users, b \in BackupCodes : Backup(u, b) # None
  BY NoneAssumption, PurchaseTypes
<1> QED
  BY <1>1 DEF Single, Link, Backup, Pair, ByClaim, ByTotp, Buys

\* The two statements that use a proof up.
TakesUp(p) ==
  \/ \E r \in Requests : Consume(r) /\ Burns(r) /\ req[r].with = p
  \/ \E r \in Requests, u \in Users, b \in BackupCodes :
       UseBackupCode(r, u, b) /\ p = Backup(u, b)

\* What the requests that are not calm do, for those who hold something.
LEMMA Stirred ==
  ASSUME TInv, [Next]_vars
  PROVE  \/ Calm
         \/ \E r \in Requests :
              /\ \A s \in Requests \ {r} : req'[s] = req[s]
              /\ \/ req'[r].pc # "add"
                 \/ ~Single(req'[r].with)
                 \/ Single(req'[r].with) /\ TakesUp(req'[r].with)
<1> USE DEF TInv
<1>1. ASSUME NEW r \in Requests, Unpend(r)
      PROVE  /\ \A s \in Requests \ {r} : req'[s] = req[s]
             /\ ~Single(req'[r].with)
  <2>1. /\ \A s \in Requests \ {r} : req'[s] = req[s]
        /\ req'[r].with = req[r].with
    BY <1>1 DEF Unpend, Goes, Requested, Request
  <2>2. \E c \in Codes : req[r].with = Pair(c)
    BY <1>1 DEF Unpend, At, Requested, Carries
  <2> QED
    BY <2>1, <2>2, Singles
<1>2. ASSUME NEW r \in Requests, Consume(r)
      PROVE  /\ \A s \in Requests \ {r} : req'[s] = req[s]
             /\ \/ req'[r].pc # "add"
                \/ Single(req'[r].with) /\ TakesUp(req'[r].with)
  <2>1. \E t \in Tokens : req[r].with = Link(t)
    BY <1>2 DEF Consume, At, Requested, Carries
  <2>2. CASE Burns(r) /\ Goes(r, "add")
    <3>1. /\ \A s \in Requests \ {r} : req'[s] = req[s]
          /\ req'[r].with = req[r].with
      BY <2>2 DEF Goes, Requested, Request
    <3>2. TakesUp(req[r].with)
      BY <1>2, <2>2 DEF TakesUp
    <3> QED
      BY <2>1, <3>1, <3>2, Singles
  <2>3. CASE Ends(r)
    BY <2>3 DEF Ends, Idle, Requested, Request
  <2> QED
    BY <1>2, <2>2, <2>3 DEF Consume
<1>3. ASSUME NEW r \in Requests, NEW u \in Users,
             Approve(r, u) \/ Poll(r, u) \/ Redeem(r, u)
      PROVE  /\ \A s \in Requests \ {r} : req'[s] = req[s]
             /\ req'[r].pc # "add"
  BY <1>3, StartsTo DEF Approve, Poll, Redeem
<1>4. ASSUME NEW r \in Requests, NEW u \in Users, NEW b \in BackupCodes,
             UseBackupCode(r, u, b)
      PROVE  /\ \A s \in Requests \ {r} : req'[s] = req[s]
             /\ Single(req'[r].with) /\ TakesUp(req'[r].with)
  <2>1. /\ \A s \in Requests \ {r} : req'[s] = req[s]
        /\ req'[r].with = Backup(u, b)
    BY <1>4, StartsTo DEF UseBackupCode
  <2>2. TakesUp(Backup(u, b))
    BY <1>4 DEF TakesUp
  <2> QED
    BY <2>1, <2>2, Singles
<1> QED
  BY <1>1, <1>2, <1>3, <1>4, MostAreCalm DEF Stirring

LEMMA Inserts ==
  ASSUME TInv, NEW r \in Requests, AddDevice(r)
  PROVE  /\ devices + 1 \in Devices /\ devices' = devices + 1
         /\ bought' = [bought EXCEPT ![devices + 1] = req[r].with]
         /\ req[r].pc = "add" /\ req'[r].pc = "clear"
         /\ \A s \in Requests \ {r} : req'[s] = req[s]
BY DeviceTrustAssumption
   DEF TInv, TypeOK, Requested, Request, AddDevice, At, Goes, Devices

LEMMA StaysUnheld ==
  ASSUME TInv, [Next]_vars, NEW p, Single(p), Unheld(p)
  PROVE  Unheld(p)' \/ TakesUp(p)
<1>1. \A d \in Devices : bought'[d] # p
  <2>1. ASSUME NEW r \in Requests, AddDevice(r), NEW d \in Devices PROVE bought'[d] # p
    BY <2>1, Inserts DEF Unheld, TInv, TypeOK
  <2> QED
    BY <2>1, WhoWrites DEF Writers, Unheld
<1>2. CASE Calm
  BY <1>1, <1>2, Singles DEF Calm, Inert, Unheld
<1>3. ASSUME NEW r \in Requests, \A s \in Requests \ {r} : req'[s] = req[s],
             \/ req'[r].pc # "add" \/ ~Single(req'[r].with) \/ TakesUp(req'[r].with)
      PROVE  Unheld(p)' \/ TakesUp(p)
  BY <1>1, <1>3 DEF Unheld
<1> QED
  BY <1>2, <1>3, Stirred

LEMMA OneHolderStep ==
  ASSUME TInv, SInv, [Next]_vars
  PROVE  OneHolder'
<1>1. ASSUME NEW p, Single(p), TakesUp(p) PROVE Unheld(p)
  <2>1. ASSUME NEW r \in Requests, Consume(r), Burns(r), req[r].with = p PROVE Unheld(p)
    <3>1. req[r].user \in Users
      BY <2>1 DEF TInv, Requested, Carries, Consume, At
    <3> QED
      BY <2>1, <3>1 DEF Burns, Live, SInv, LiveInvites
  <2>2. ASSUME NEW r \in Requests, NEW u \in Users, NEW b \in BackupCodes,
               UseBackupCode(r, u, b), p = Backup(u, b)
        PROVE  Unheld(p)
    BY <2>2 DEF UseBackupCode, SInv, UnusedCodes
  <2> QED
    BY <1>1, <2>1, <2>2 DEF TakesUp
<1>2. ASSUME NEW r \in Requests, AddDevice(r) PROVE OneHolder'
  <2>1. bought[devices + 1] = None
    BY <1>2, Inserts DEF SInv, FreshRows, TInv, TypeOK, Devices
  <2>2. \A s \in Requests : Holds(s)' => Holds(s) /\ req'[s] = req[s] /\ s # r
    BY <1>2, Inserts DEF Holds
  <2>3. /\ bought'[devices + 1] = req[r].with
        /\ \A d \in Devices \ {devices + 1} : bought'[d] = bought[d]
    BY <1>2, Inserts DEF TInv, TypeOK
  <2>4. Single(req[r].with) => Holds(r)
    BY <1>2, Inserts DEF Holds
  <2> QED
    BY <1>2, <2>1, <2>2, <2>3, <2>4, Inserts, Singles DEF SInv, OneHolder, Holds
<1>3. CASE UNCHANGED bought /\ Calm
  <2>1. \A s \in Requests : Holds(s)' => Holds(s) /\ req'[s] = req[s]
    BY <1>3, Singles DEF Calm, Inert, Holds
  <2> QED
    BY <1>3, <2>1 DEF SInv, OneHolder
<1>4. ASSUME UNCHANGED bought, NEW r \in Requests,
             \A s \in Requests \ {r} : req'[s] = req[s],
             \/ req'[r].pc # "add" \/ ~Single(req'[r].with)
             \/ Single(req'[r].with) /\ TakesUp(req'[r].with)
      PROVE  OneHolder'
  <2>1. CASE ~Holds(r)'
    <3>1. \A s \in Requests : Holds(s)' => Holds(s) /\ req'[s] = req[s]
      BY <1>4, <2>1 DEF Holds
    <3> QED
      BY <1>4, <3>1 DEF SInv, OneHolder
  <2>2. CASE Unheld(req'[r].with)
    <3>1. \A s \in Requests \ {r} : Holds(s)' => Holds(s) /\ req'[s] = req[s]
      BY <1>4 DEF Holds
    <3>2. \A s \in Requests \ {r} : Holds(s) => req[s].with # req'[r].with
      BY <2>2 DEF Unheld, Holds
    <3>3. \A d \in Devices : bought[d] # req'[r].with
      BY <2>2 DEF Unheld
    <3> QED
      BY <1>4, <3>1, <3>2, <3>3 DEF SInv, OneHolder
  <2> QED
    BY <1>1, <1>4, <2>1, <2>2 DEF Holds
<1> QED
  BY <1>2, <1>3, <1>4, Stirred, WhoWrites DEF Writers

LEMMA FreshRowsStep ==
  ASSUME TInv, SInv, [Next]_vars
  PROVE  FreshRows'
<1>1. ASSUME NEW r \in Requests, AddDevice(r) PROVE FreshRows'
  <2>1. /\ devices' = devices + 1 /\ devices \in Nat /\ Devices \subseteq Nat
        /\ bought' = [bought EXCEPT ![devices + 1] = req[r].with]
    BY <1>1, Inserts DEF TInv, TypeOK, Devices
  <2>2. \A d \in Devices : d > devices' => d > devices /\ d # devices + 1
    BY <2>1
  <2>3. \A d \in Devices : d # devices + 1 => bought'[d] = bought[d]
    BY <2>1 DEF TInv, TypeOK
  <2> QED
    BY <2>2, <2>3 DEF SInv, FreshRows
<1>2. CASE UNCHANGED <<bought, devices>>
  BY <1>2 DEF SInv, FreshRows
<1> QED
  BY <1>1, <1>2, WhoWrites DEF Writers

LEMMA Mints ==
  ASSUME TInv, NEW r \in Requests, Issue(r)
  PROVE  /\ req[r].user \in Users /\ tokens + 1 \in Tokens /\ tokens' = tokens + 1
         /\ dead' = dead \cup LiveLinks(req[r].user)
         /\ invite'[req[r].user] # None /\ invite'[req[r].user].token = tokens + 1
         /\ ~invite'[req[r].user].consumed
         /\ \A u \in Users \ {req[r].user} : invite'[u] = invite[u]
<1>1. /\ req[r].user \in Users /\ req[r].role \in Roles /\ tokens + 1 \in Tokens
      /\ tokens' = tokens + 1 /\ dead' = dead \cup LiveLinks(req[r].user)
  BY DeviceTrustAssumption
     DEF TInv, TypeOK, Requested, Carries, Issue, At, Tokens
<1>2. [token |-> tokens + 1, role |-> req[r].role, consumed |-> FALSE, expired |-> FALSE]
        \in Invites
  BY <1>1 DEF Invites
<1> QED
  BY <1>1, <1>2, NoneAssumption DEF Issue, TInv, TypeOK

\* A link is an account's own, or was minted in this step.
LEMMA Links ==
  ASSUME TInv, [Next]_vars, NEW u \in Users, invite'[u] # None
  PROVE  \/ /\ invite[u] # None /\ invite'[u].token = invite[u].token
            /\ invite[u].consumed => invite'[u].consumed
            /\ \A r \in Requests : Issue(r) => u # req[r].user
         \/ \E r \in Requests : Issue(r) /\ u = req[r].user
<1>1. ASSUME NEW r \in Requests, Consume(r)
      PROVE  /\ invite[u] # None /\ invite'[u].token = invite[u].token
             /\ invite[u].consumed => invite'[u].consumed
  <2>1. CASE UNCHANGED invite
    BY <2>1
  <2>2. CASE Burns(r) /\ invite' = [invite EXCEPT ![req[r].user].consumed = TRUE]
    <3>1. req[r].user \in Users /\ invite[req[r].user] \in Invites
      BY <1>1, <2>2 DEF Burns, Consume, At, TInv, TypeOK, Requested, Carries
    <3>2. CASE u = req[r].user
      BY <2>2, <3>1, <3>2 DEF Burns, TInv, TypeOK, Invites
    <3>3. CASE u # req[r].user
      BY <2>2, <3>1, <3>3 DEF TInv, TypeOK
    <3> QED
      BY <3>2, <3>3
  <2> QED
    BY <1>1, <2>1, <2>2 DEF Consume
<1>2. ASSUME NEW v \in Users, Revoke(v)
      PROVE  invite[u] # None /\ invite'[u] = invite[u]
  BY <1>2 DEF Revoke, TInv, TypeOK
<1>3. ASSUME NEW v \in Users, InviteExpires(v)
      PROVE  /\ invite[u] # None /\ invite'[u].token = invite[u].token
             /\ invite[u].consumed => invite'[u].consumed
  <2>1. invite[v] \in Invites /\ invite' = [invite EXCEPT ![v].expired = TRUE]
    BY <1>3 DEF InviteExpires, TInv, TypeOK
  <2>2. CASE u = v
    BY <1>3, <2>1, <2>2 DEF InviteExpires, TInv, TypeOK, Invites
  <2>3. CASE u # v
    BY <2>1, <2>3 DEF TInv, TypeOK
  <2> QED
    BY <2>2, <2>3
<1>4. CASE \E r \in Requests : Issue(r)
  BY <1>4, Mints
<1> QED
  BY <1>1, <1>2, <1>3, <1>4, WhoWrites DEF Writers

\* A link is burnt by the request that carries it.
LEMMA TakesLink ==
  ASSUME TInv, NEW t \in Tokens, TakesUp(Link(t))
  PROVE  \E r \in Requests : /\ Consume(r) /\ Burns(r) /\ req[r].pc = "consume"
                             /\ req[r].with = Link(t) /\ req[r].user \in Users
                             /\ invite[req[r].user] # None
                             /\ invite[req[r].user].token = t
                             /\ ~invite[req[r].user].consumed
<1>1. PICK r \in Requests : Consume(r) /\ Burns(r) /\ req[r].with = Link(t)
  BY Singles DEF TakesUp, UseBackupCode
<1>2. req[r].pc = "consume" /\ req[r].user \in Users
  BY <1>1 DEF Consume, At, TInv, Requested, Carries
<1>3. /\ invite[req[r].user] # None /\ ~invite[req[r].user].consumed
      /\ Link(invite[req[r].user].token) = Link(t)
  BY <1>1 DEF Burns, Live
<1>4. invite[req[r].user].token \in Tokens
  BY <1>2, <1>3 DEF TInv, TypeOK, Invites
<1> QED
  BY <1>1, <1>2, <1>3, <1>4, Singles

LEMMA ToConsume ==
  ASSUME TInv, [Next]_vars, NEW s \in Requests, req'[s].pc = "consume"
  PROVE  \/ req'[s] = req[s]
         \/ \E u \in Users : invite[u] # None /\ req'[s].with = Link(invite[u].token)
<1> USE DEF TInv
<1>1. ASSUME NEW r \in Requests, Unpend(r) PROVE req'[s] = req[s]
  BY <1>1 DEF Unpend, Goes, Requested, Request
<1>2. ASSUME NEW r \in Requests, Consume(r) PROVE req'[s] = req[s]
  BY <1>2 DEF Consume, Goes, Ends, Idle, Requested, Request
<1>3. ASSUME NEW r \in Requests, NEW u \in Users, Approve(r, u) \/ Poll(r, u)
      PROVE  req'[s] = req[s]
  BY <1>3, StartsTo DEF Approve, Poll
<1>4. ASSUME NEW r \in Requests, NEW u \in Users, NEW b \in BackupCodes,
             UseBackupCode(r, u, b)
      PROVE  req'[s] = req[s]
  BY <1>4, StartsTo DEF UseBackupCode
<1>5. ASSUME NEW r \in Requests, NEW u \in Users, Redeem(r, u)
      PROVE  \/ req'[s] = req[s]
             \/ invite[u] # None /\ req'[s].with = Link(invite[u].token)
  <2>1. /\ invite[u] # None
        /\ Starts(r, "consume", u, Link(invite[u].token), invite[u].role)
    BY <1>5 DEF Redeem
  <2> QED
    BY <2>1, StartsTo
<1>6. CASE Calm
  BY <1>6 DEF Calm, Inert
<1> QED
  BY <1>1, <1>2, <1>3, <1>4, <1>5, <1>6, MostAreCalm DEF Stirring

LEMMA FreshTokensStep ==
  ASSUME TInv, SInv, [Next]_vars
  PROVE  FreshTokens'
<1> USE DEF TInv
<1>1. tokens \in Nat /\ tokens' \in Nat /\ tokens' >= tokens /\ Tokens \subseteq Nat
  BY Mints, WhoWrites DEF Writers, TypeOK, Tokens
<1> SUFFICES ASSUME NEW t \in Tokens, t > tokens'
             PROVE  /\ Unheld(Link(t))' /\ t \notin dead'
                    /\ \A r \in Requests : req'[r].pc = "consume" => req'[r].with # Link(t)
                    /\ \A u \in Users : invite'[u] # None => invite'[u].token # t
  BY DEF FreshTokens
<1>2. t > tokens
  BY <1>1
<1>3. /\ Unheld(Link(t)) /\ t \notin dead
      /\ \A r \in Requests : req[r].pc = "consume" => req[r].with # Link(t)
      /\ \A u \in Users : invite[u] # None => invite[u].token # t
  BY <1>2 DEF SInv, FreshTokens
<1>4. Unheld(Link(t))'
  <2>1. ~TakesUp(Link(t))
    BY <1>3, TakesLink
  <2> QED
    BY <1>3, <2>1, StaysUnheld, Singles
<1>5. t \notin dead'
  <2>1. \A u \in Users : t \notin LiveLinks(u)
    BY <1>3 DEF LiveLinks
  <2>2. ASSUME NEW r \in Requests, Issue(r) PROVE t \notin dead'
    BY <1>3, <2>1, <2>2, Mints
  <2>3. ASSUME NEW u \in Users, Revoke(u) PROVE t \notin dead'
    BY <1>3, <2>1, <2>3 DEF Revoke
  <2> QED
    BY <1>3, <2>2, <2>3, WhoWrites DEF Writers
<1>6. ASSUME NEW r \in Requests, req'[r].pc = "consume"
      PROVE  req'[r].with # Link(t)
  <2>1. ASSUME NEW u \in Users, invite[u] # None, req'[r].with = Link(invite[u].token)
        PROVE  req'[r].with # Link(t)
    <3>1. invite[u].token \in Tokens /\ invite[u].token # t
      BY <1>3, <2>1 DEF TypeOK, Invites
    <3> QED
      BY <2>1, <3>1, Singles
  <2> QED
    BY <1>3, <1>6, <2>1, ToConsume
<1>7. ASSUME NEW u \in Users, invite'[u] # None PROVE invite'[u].token # t
  <2>1. ASSUME NEW r \in Requests, Issue(r), u = req[r].user PROVE invite'[u].token # t
    BY <1>1, <2>1, Mints
  <2> QED
    BY <1>3, <1>7, <2>1, Links
<1> QED
  BY <1>4, <1>5, <1>6, <1>7

LEMMA OwnTokensStep ==
  ASSUME TInv, SInv, [Next]_vars
  PROVE  OwnTokens'
<1> SUFFICES ASSUME NEW u \in Users, NEW v \in Users, invite'[u] # None, invite'[v] # None,
                    invite'[u].token = invite'[v].token
             PROVE  u = v
  BY DEF OwnTokens
<1>1. ASSUME NEW r \in Requests, Issue(r) PROVE u = v
  <2>1. tokens + 1 \in Tokens /\ tokens + 1 > tokens
    BY <1>1, Mints DEF TInv, TypeOK
  <2>2. \A w \in Users : invite[w] # None => invite[w].token # tokens + 1
    BY <2>1 DEF SInv, FreshTokens
  <2>3. \A w \in Users \ {req[r].user} : invite'[w] = invite[w]
    BY <1>1, Mints
  <2>4. invite'[req[r].user].token = tokens + 1
    BY <1>1, Mints
  <2>5. CASE u # req[r].user /\ v # req[r].user
    BY <2>3, <2>5 DEF SInv, OwnTokens
  <2> QED
    BY <2>2, <2>3, <2>4, <2>5
<1>2. CASE \A r \in Requests : ~Issue(r)
  BY <1>2, Links DEF SInv, OwnTokens
<1> QED
  BY <1>1, <1>2

LEMMA Burnt ==
  ASSUME TInv, NEW r \in Requests, Consume(r), Burns(r)
  PROVE  /\ invite'[req[r].user].consumed
         /\ UNCHANGED dead
<1>1. /\ req[r].user \in Users /\ invite[req[r].user] \in Invites
      /\ invite' = [invite EXCEPT ![req[r].user].consumed = TRUE]
  BY DEF Burns, Consume, At, TInv, TypeOK, Requested, Carries
<1>2. invite'[req[r].user].consumed
  BY <1>1 DEF TInv, TypeOK, Invites
<1> QED
  BY <1>2 DEF Consume, history

LEMMA LiveInvitesStep ==
  ASSUME TInv, SInv, [Next]_vars
  PROVE  LiveInvites'
<1>a. \A u \in Users : invite'[u] # None => invite'[u].token \in Tokens
  BY TInvStep DEF TInv, TypeOK, Invites
<1>b. SUFFICES ASSUME NEW u \in Users, NEW t \in Tokens, invite'[u] # None,
                      ~invite'[u].consumed, invite'[u].token = t
               PROVE  Unheld(Link(t))' /\ t \notin dead'
  BY <1>a DEF LiveInvites, Unheld, Link, Buys
<1>1. CASE \E r \in Requests : Issue(r) /\ u = req[r].user
  <2>1. PICK r \in Requests : Issue(r) /\ u = req[r].user
    BY <1>1
  <2>2. t > tokens /\ dead' = dead \cup LiveLinks(u)
    BY <1>b, <2>1, Mints DEF TInv, TypeOK
  <2>3. /\ Unheld(Link(t)) /\ t \notin dead
        /\ \A v \in Users : invite[v] # None => invite[v].token # t
    BY <2>2 DEF SInv, FreshTokens
  <2>4. ~TakesUp(Link(t))
    BY <2>2, <2>3, TakesLink
  <2>5. Unheld(Link(t))'
    BY <2>2, <2>3, <2>4, StaysUnheld, Singles
  <2>6. t \notin dead'
    BY <2>2, <2>3 DEF LiveLinks
  <2> QED
    BY <2>5, <2>6
<1>2. CASE /\ invite[u] # None /\ invite'[u].token = invite[u].token
           /\ invite[u].consumed => invite'[u].consumed
           /\ \A r \in Requests : Issue(r) => u # req[r].user
  <2>1. t \in Tokens /\ Unheld(Link(t)) /\ t \notin dead
    BY <1>b, <1>2 DEF SInv, LiveInvites
  <2>2. \A v \in Users : invite[v] # None /\ invite[v].token = t => v = u
    BY <1>b, <1>2 DEF SInv, OwnTokens
  <2>4. ~TakesUp(Link(t))
    <3> SUFFICES ASSUME TakesUp(Link(t)) PROVE FALSE
      OBVIOUS
    <3>1. PICK r \in Requests : /\ Consume(r) /\ Burns(r) /\ req[r].user \in Users
                                /\ invite[req[r].user] # None
                                /\ invite[req[r].user].token = t
      BY <2>1, TakesLink
    <3>2. req[r].user = u
      BY <2>2, <3>1
    <3> QED
      BY <1>b, <3>1, <3>2, Burnt
  <2>5. Unheld(Link(t))'
    BY <2>1, <2>4, StaysUnheld, Singles
  <2>6. ASSUME NEW r \in Requests, Issue(r) PROVE t \notin dead'
    <3>1. req[r].user \in Users \ {u} /\ dead' = dead \cup LiveLinks(req[r].user)
      BY <1>2, <2>6, Mints
    <3> QED
      BY <2>1, <2>2, <3>1 DEF LiveLinks
  <2>7. ASSUME NEW v \in Users, Revoke(v) PROVE t \notin dead'
    <3>1. v # u /\ dead' = dead \cup LiveLinks(v)
      BY <1>b, <2>7 DEF Revoke, TInv, TypeOK
    <3> QED
      BY <2>1, <2>2, <3>1 DEF LiveLinks
  <2>8. t \notin dead'
    BY <2>1, <2>6, <2>7, WhoWrites DEF Writers
  <2> QED
    BY <2>5, <2>8
<1> QED
  BY <1>b, <1>1, <1>2, Links

LEMMA DeadLinksStep ==
  ASSUME TInv, SInv, [Next]_vars
  PROVE  DeadLinks'
<1>0. dead' \subseteq Tokens
  BY TInvStep DEF TInv, TypeOK
<1> SUFFICES ASSUME NEW t \in Tokens, t \in dead' PROVE Unheld(Link(t))'
  BY <1>0 DEF DeadLinks, Unheld, Link, Buys
<1>1. t \in dead \/ \E v \in Users : t \in LiveLinks(v)
  <2>1. ASSUME NEW r \in Requests, Issue(r)
        PROVE  t \in dead \/ \E v \in Users : t \in LiveLinks(v)
    BY <2>1, Mints
  <2>2. ASSUME NEW u \in Users, Revoke(u)
        PROVE  t \in dead \/ \E v \in Users : t \in LiveLinks(v)
    BY <2>2 DEF Revoke
  <2> QED
    BY <2>1, <2>2, WhoWrites DEF Writers
<1>2. t \in Tokens /\ Unheld(Link(t))
  <2>1. CASE t \in dead
    BY <2>1 DEF TInv, TypeOK, SInv, DeadLinks
  <2>2. ASSUME NEW v \in Users, t \in LiveLinks(v) PROVE t \in Tokens /\ Unheld(Link(t))
    BY <2>2 DEF LiveLinks, SInv, LiveInvites
  <2> QED
    BY <1>1, <2>1, <2>2
<1>3. ~TakesUp(Link(t))
  <2> SUFFICES ASSUME TakesUp(Link(t)) PROVE FALSE
    OBVIOUS
  <2>1. PICK r \in Requests : /\ Consume(r) /\ Burns(r) /\ req[r].user \in Users
                              /\ invite[req[r].user] # None
                              /\ invite[req[r].user].token = t
                              /\ ~invite[req[r].user].consumed
    BY <1>2, TakesLink
  <2>2. t \in dead
    BY <2>1, Burnt
  <2> QED
    BY <2>1, <2>2 DEF SInv, LiveInvites
<1> QED
  BY <1>2, <1>3, StaysUnheld, Singles

LEMMA UnusedCodesStep ==
  ASSUME TInv, SInv, [Next]_vars
  PROVE  UnusedCodes'
<1>0. \A u \in Users : backup'[u] \subseteq BackupCodes
  BY TInvStep DEF TInv, TypeOK
<1> SUFFICES ASSUME NEW u \in Users, NEW b \in BackupCodes, b \in backup'[u]
             PROVE  Unheld(Backup(u, b))'
  BY <1>0 DEF UnusedCodes, Unheld, Backup, Buys
<1>1. ASSUME NEW r \in Requests, NEW v \in Users, NEW c \in BackupCodes,
             UseBackupCode(r, v, c)
      PROVE  b \in backup[u] /\ ~(u = v /\ b = c)
  BY <1>1 DEF UseBackupCode, TInv, TypeOK
<1>2. b \in BackupCodes /\ b \in backup[u]
  <2>1. b \in backup[u]
    BY <1>1, WhoWrites DEF Writers
  <2> QED
    BY <2>1 DEF TInv, TypeOK
<1>3. ~TakesUp(Backup(u, b))
  <2> SUFFICES ASSUME TakesUp(Backup(u, b)) PROVE FALSE
    OBVIOUS
  <2>1. ASSUME NEW r \in Requests, Consume(r), req[r].with = Backup(u, b) PROVE FALSE
    BY <1>2, <2>1, Singles DEF Consume, At, TInv, Requested, Carries
  <2>2. ASSUME NEW r \in Requests, NEW v \in Users, NEW c \in BackupCodes,
               UseBackupCode(r, v, c), Backup(u, b) = Backup(v, c)
        PROVE  FALSE
    BY <1>1, <1>2, <2>2, Singles
  <2> QED
    BY <2>1, <2>2 DEF TakesUp
<1>4. Unheld(Backup(u, b))
  BY <1>2 DEF SInv, UnusedCodes
<1> QED
  BY <1>2, <1>3, <1>4, StaysUnheld, Singles

LEMMA SInvInit ==
  ASSUME Init
  PROVE  SInv
<1>1. /\ \A d \in Devices : bought[d] = None
      /\ \A r \in Requests : req[r].pc = "idle"
      /\ \A u \in Users : invite[u] = None
      /\ dead = {}
  BY DEF Init, Idle
<1>2. /\ \A t \in Tokens : Link(t) # None
      /\ \A u \in Users, b \in BackupCodes : Backup(u, b) # None
  BY Singles DEF Single
<1>3. \A p : p # None => Unheld(p)
  BY <1>1 DEF Unheld
<1>4. OneHolder /\ FreshRows /\ FreshTokens /\ LiveInvites /\ OwnTokens /\ DeadLinks
  BY <1>1, <1>2, <1>3
     DEF OneHolder, Single, Holds, FreshRows, FreshTokens, LiveInvites, OwnTokens,
         DeadLinks
<1>5. UnusedCodes
  BY <1>2, <1>3 DEF Init, UnusedCodes
<1> QED
  BY <1>4, <1>5 DEF SInv

\* A link and a backup code buy one device each, a dead link none, for any number of
\* requests that present them at once (dbConsumeInviteAtomic, dbConsumeBackupCode).
THEOREM BoughtOnce == Spec => []OneEach
<1>1. Init => SInv
  BY SInvInit
<1>2. TInv /\ SInv /\ [Next]_vars => SInv'
  BY OneHolderStep, FreshRowsStep, FreshTokensStep, LiveInvitesStep, OwnTokensStep,
     DeadLinksStep, UnusedCodesStep DEF SInv
<1>3. TInv /\ SInv => OneEach
  <2> SUFFICES ASSUME TInv, SInv PROVE OneEach
    OBVIOUS
  <2>1. \A d, e \in Devices : d # e /\ bought[d] # None /\ bought[d] = bought[e]
                                => bought[d].how \notin {"link", "backup"}
    BY DEF SInv, OneHolder, Single
  <2>2. \A d \in Devices, t \in dead : bought[d] # Link(t)
    BY DEF SInv, DeadLinks, Unheld
  <2> QED
    BY <2>1, <2>2 DEF OneEach
<1> QED
  BY <1>1, <1>2, <1>3, AlwaysTyped, PTL DEF Spec

-----------------------------------------------------------------------------
(* Who is given a role, and by whom: the root admin's is never taken.      *)

\* What a step may do to the role a request is to set.
Given ==
  \A s \in Requests :
    /\ \/ req'[s].role = req[s].role \/ req'[s].role = None \/ root # None
       \/ \E u \in Users : IsAdmin(u) \/ invite[u] # None
    /\ req'[s].pc = "setrole"
         => \/ req'[s] = req[s]
            \/ req'[s].user = root => req'[s].role = "admin" \/ excused'

LEMMA GoesGiven ==
  ASSUME Requested, NEW r \in Requests, NEW pc, Goes(r, pc), pc # "setrole"
  PROVE  Given
<1>1. /\ \A s \in Requests \ {r} : req'[s] = req[s]
      /\ req'[r].role = req[r].role /\ req'[r].pc = pc
  BY DEF Goes, Requested, Request
<1> QED
  BY <1>1 DEF Given

LEMMA EndsGiven ==
  ASSUME Requested, NEW r \in Requests, Ends(r)
  PROVE  Given
<1>1. /\ \A s \in Requests \ {r} : req'[s] = req[s]
      /\ req'[r].role = None /\ req'[r].pc = "idle"
  BY DEF Ends, Idle, Requested
<1> QED
  BY <1>1 DEF Given

LEMMA StartsGiven ==
  ASSUME Requested, NEW r \in Requests, NEW pc, NEW u, NEW with,
         Starts(r, pc, u, with, None), pc # "setrole"
  PROVE  Given
BY StartsTo DEF Given

LEMMA Callers ==
  ASSUME AnAdminCalls
  PROVE  root # None \/ \E a \in Users : IsAdmin(a)
BY DeviceTrustAssumption DEF AnAdminCalls, IsAdmin

LEMMA AlwaysGiven ==
  ASSUME TInv, [Next]_vars
  PROVE  Given
<1> USE DEF TInv
<1>1. ASSUME UNCHANGED vars PROVE Given
  BY <1>1 DEF vars, Given
<1>2. ASSUME NEW r \in Requests, Recheck(r) PROVE Given
  BY <1>2, GoesGiven DEF Recheck
<1>3. ASSUME NEW r \in Requests, RecordClaim(r) PROVE Given
  BY <1>3, GoesGiven DEF RecordClaim
<1>4. ASSUME NEW r \in Requests, AddDevice(r) PROVE Given
  BY <1>4, GoesGiven DEF AddDevice
<1>5. ASSUME NEW r \in Requests, Unpend(r) PROVE Given
  BY <1>5, GoesGiven DEF Unpend
<1>6. ASSUME NEW r \in Requests, MintCode(r) PROVE Given
  BY <1>6, EndsGiven DEF MintCode
<1>7. ASSUME NEW r \in Requests, WriteApproval(r) PROVE Given
  BY <1>7, EndsGiven DEF WriteApproval
<1>8. ASSUME NEW r \in Requests, Issue(r) PROVE Given
  BY <1>8, EndsGiven DEF Issue
<1>9. ASSUME NEW r \in Requests, WriteRole(r) PROVE Given
  BY <1>9, EndsGiven DEF WriteRole
<1>10. ASSUME NEW r \in Requests, Fails(r) PROVE Given
  BY <1>10, EndsGiven DEF Fails
<1>11. ASSUME NEW r \in Requests, ClearPending(r) PROVE Given
  BY <1>11, GoesGiven, EndsGiven DEF ClearPending
<1>12. ASSUME NEW r \in Requests, Consume(r) PROVE Given
  BY <1>12, GoesGiven, EndsGiven DEF Consume
<1>13. ASSUME NEW r \in Requests, TakeRole(r) PROVE Given
  <2>1. CASE Ends(r)
    BY <2>1, EndsGiven
  <2>2. ASSUME Goes(r, "setrole"),
               req[r].user = root => req[r].role = "admin" \/ excused'
        PROVE  Given
    <3>1. /\ \A s \in Requests \ {r} : req'[s] = req[s]
          /\ req'[r].role = req[r].role /\ req'[r].user = req[r].user
      BY <2>2 DEF Goes, Requested, Request
    <3> QED
      BY <2>2, <3>1 DEF Given
  <2>3. Ends(r) \/ /\ Goes(r, "setrole")
                   /\ req[r].user = root => req[r].role = "admin" \/ excused'
    BY <1>13 DEF TakeRole, Demotes
  <2> QED
    BY <2>1, <2>2, <2>3
<1>14. ASSUME NEW r \in Requests, NEW u \in Users, Claim(r, u) PROVE Given
  BY <1>14, StartsGiven DEF Claim
<1>15. ASSUME NEW r \in Requests, NEW u \in Users, Approve(r, u) PROVE Given
  BY <1>15, StartsGiven DEF Approve
<1>16. ASSUME NEW r \in Requests, NEW u \in Users, Poll(r, u) PROVE Given
  BY <1>16, StartsGiven DEF Poll
<1>17. ASSUME NEW r \in Requests, NEW u \in Users, SelfTrust(r, u) PROVE Given
  BY <1>17, StartsGiven DEF SelfTrust
<1>18. ASSUME NEW r \in Requests, NEW u \in Users, AskCode(r, u) PROVE Given
  <2>1. Starts(r, "mint", u, None, None) \/ UNCHANGED req
    BY <1>18 DEF AskCode
  <2> QED
    BY <2>1, StartsGiven DEF Given
<1>19. ASSUME NEW r \in Requests, NEW u \in Users, NEW b \in BackupCodes,
             UseBackupCode(r, u, b)
      PROVE  Given
  BY <1>19, StartsGiven DEF UseBackupCode
<1>20. ASSUME NEW r \in Requests, NEW u \in Users, Resend(r, u) PROVE Given
  BY <1>20, Callers, StartsTo DEF Resend, Given
<1>21. ASSUME NEW r \in Requests, NEW u \in Users, Redeem(r, u) PROVE Given
  BY <1>21, StartsTo DEF Redeem, Given
<1>22. ASSUME NEW r \in Requests, NEW u \in Users, NEW ro \in Roles, Invite(r, u, ro)
      PROVE  Given
  BY <1>22, Callers, StartsTo DEF Invite, Given
<1>23. ASSUME NEW r \in Requests, NEW u \in Users, NEW ro \in Roles, SetRole(r, u, ro)
      PROVE  Given
  <2>1. /\ root # None \/ \E a \in Users : IsAdmin(a)
        /\ Starts(r, "setrole", u, None, ro)
        /\ u = root => ro = "admin" \/ excused'
    BY <1>23, Callers DEF SetRole, MayBecome, Demotes
  <2> QED
    BY <2>1, StartsTo DEF Given
<1>24. ASSUME NEW r \in Requests, NEW u \in Users, NEW ro \in Roles, MapRole(r, u, ro)
      PROVE  Given
  <2>1. /\ root # None /\ Starts(r, "setrole", u, None, ro)
        /\ u = root => ro = "admin" \/ excused'
    BY <1>24, Zenon DEF MapRole, Demotes
  <2> QED
    BY <2>1, StartsTo DEF Given
<1>25. ASSUME NEW u \in Users, Revoke(u) PROVE Given
  BY <1>25 DEF Revoke, Given
<1>26. ASSUME NEW u \in Users, InviteExpires(u) PROVE Given
  BY <1>26 DEF InviteExpires, Given
<1>27. ASSUME NEW u \in Users, Deny(u) PROVE Given
  BY <1>27 DEF Deny, Given
<1>28. ASSUME NEW c \in Codes, CodeAges(c) PROVE Given
  BY <1>28 DEF CodeAges, Given
<1>29. ASSUME NEW d \in Devices, RemoveDevice(d) PROVE Given
  BY <1>29 DEF RemoveDevice, Given
<1> QED
  BY <1>1, <1>2, <1>3, <1>4, <1>5, <1>6, <1>7, <1>8, <1>9, <1>10, <1>11, <1>12,
     <1>13, <1>14, <1>15, <1>16, <1>17, <1>18, <1>19, <1>20, <1>21, <1>22, <1>23, <1>24,
     <1>25, <1>26, <1>27, <1>28, <1>29, NextCases

LEMMA Unclaimed ==
  ASSUME TInv, RInv, root = None
  PROVE  /\ \A u \in Users : ~IsAdmin(u) /\ invite[u] = None /\ role[u] = None
         /\ \A r \in Requests : /\ req[r].role = None
                                /\ req[r].pc \notin {"issue", "consume", "setrole", "role"}
<1>1. None \notin Users /\ None \notin Roles /\ None # "admin"
  BY DeviceTrustAssumption, NoneAssumption DEF Roles
<1> QED
  BY <1>1 DEF RInv, NoRolesYet, IsAdmin, TInv, Requested, Carries

\* Before the claim a request comes to insert a device with a proof of its own.
LEMMA ToAdd ==
  ASSUME TInv, RInv, [Next]_vars, root = None, root' = None,
         NEW s \in Requests, req'[s].pc = "add"
  PROVE  req'[s] = req[s] \/ req'[s].with.how \in Unasked
<1> USE DEF TInv
<1>1. ASSUME NEW r \in Requests, Unpend(r)
      PROVE  req'[s] = req[s] \/ req'[s].with.how \in Unasked
  <2>1. /\ \A q \in Requests \ {r} : req'[q] = req[q]
        /\ req'[r].with = req[r].with
    BY <1>1 DEF Unpend, Goes, Requested, Request
  <2>2. \E c \in Codes : req[r].with = Pair(c)
    BY <1>1 DEF Unpend, At, Requested, Carries
  <2> QED
    BY <2>1, <2>2 DEF Pair, Buys, Unasked
<1>2. ASSUME NEW r \in Requests, Consume(r) PROVE FALSE
  BY <1>2, Unclaimed DEF Consume, At
<1>3. ASSUME NEW r \in Requests, NEW u \in Users,
             Approve(r, u) \/ Poll(r, u) \/ Redeem(r, u)
      PROVE  req'[s] = req[s]
  BY <1>3, StartsTo DEF Approve, Poll, Redeem
<1>4. ASSUME NEW r \in Requests, NEW u \in Users, NEW b \in BackupCodes,
             UseBackupCode(r, u, b)
      PROVE  req'[s] = req[s] \/ req'[s].with.how \in Unasked
  <2>1. /\ \A q \in Requests \ {r} : req'[q] = req[q]
        /\ req'[r].with = Backup(u, b)
    BY <1>4, StartsTo DEF UseBackupCode
  <2> QED
    BY <2>1 DEF Backup, Buys, Unasked
<1>5. CASE Calm
  BY <1>5 DEF Calm, Inert, ByTotp, Buys, Unasked
<1> QED
  BY <1>1, <1>2, <1>3, <1>4, <1>5, MostAreCalm DEF Stirring

LEMMA EarlyOnlyStep ==
  ASSUME TInv, RInv, [Next]_vars, root = None, root' = None
  PROVE  EarlyOnly'
<1>1. \A r \in Requests : req'[r].pc = "add" => req'[r].with.how \in Unasked
  BY ToAdd DEF RInv, EarlyOnly, At
<1>2. ASSUME NEW r \in Requests, AddDevice(r), NEW d \in Devices, owner'[d] # None
      PROVE  bought'[d].how \in Unasked
  <2>1. devices + 1 \in Devices /\ req[r].pc = "add"
    BY <1>2, Inserts
  <2>2. req[r].with.how \in Unasked
    BY <2>1 DEF RInv, EarlyOnly, At
  <2> QED
    BY <1>2, <2>1, <2>2 DEF AddDevice, TInv, TypeOK, RInv, EarlyOnly
<1>3. ASSUME NEW e \in Devices, RemoveDevice(e), NEW d \in Devices, owner'[d] # None
      PROVE  bought'[d].how \in Unasked
  BY <1>3 DEF RemoveDevice, history, TInv, TypeOK, RInv, EarlyOnly
<1>4. ASSUME UNCHANGED <<owner, bought>>, NEW d \in Devices, owner'[d] # None
      PROVE  bought'[d].how \in Unasked
  BY <1>4 DEF RInv, EarlyOnly
<1>5. \A d \in Devices : owner'[d] # None => bought'[d].how \in Unasked
  BY <1>2, <1>3, <1>4, WhoWrites DEF Writers
<1> QED
  BY <1>1, <1>5 DEF EarlyOnly, At

LEMMA RInvStep ==
  ASSUME TInv, RInv, [Next]_vars
  PROVE  RInv'
<1>1. ASSUME NEW r \in Requests, RecordClaim(r)
      PROVE  /\ req[r].user \in Users /\ root' = req[r].user /\ UNCHANGED <<role, invite>>
             /\ excused' = (excused \/ root \notin {None, req[r].user})
             /\ \A s \in Requests : req'[s].pc = "setrole" => req'[s] = req[s]
  <2>1. req[r].user \in Users
    BY <1>1 DEF RecordClaim, At, TInv, Requested, Carries
  <2>2. \A s \in Requests : req'[s].pc = "setrole" => req'[s] = req[s]
    BY <1>1 DEF RecordClaim, Goes, TInv, Requested, Request
  <2> QED
    BY <1>1, <2>1, <2>2 DEF RecordClaim
<1>2. CASE root' = None
  <2>1. root = None
    BY <1>1, <1>2, WhoWrites, DeviceTrustAssumption DEF Writers
  <2>2. \A r \in Requests : req'[r].role = None
    BY <2>1, Unclaimed, AlwaysGiven DEF Given
  <2>3. UNCHANGED role
    BY <2>1, Unclaimed, WhoWrites DEF Writers, WriteRole, At
  <2>4. UNCHANGED invite
    BY <2>1, Unclaimed, WhoWrites
       DEF Writers, Issue, Consume, Revoke, InviteExpires, At
  <2>5. NoRolesYet'
    BY <1>2, <2>1, <2>2, <2>3, <2>4 DEF RInv, NoRolesYet
  <2>6. EarlyOnly'
    BY <1>2, <2>1, EarlyOnlyStep
  <2> QED
    BY <1>2, <2>5, <2>6 DEF RInv, RootKeeps
<1>3. CASE root' # None /\ ~excused'
  <2>1. CASE \E r \in Requests : RecordClaim(r)
    <3>1. PICK r \in Requests : RecordClaim(r)
      BY <2>1
    <3>2. ~excused /\ root \in {None, root'}
      BY <1>1, <1>3, <3>1
    <3>3. role[root'] \in {None, "admin"}
      BY <1>1, <1>3, <3>1, <3>2, Unclaimed DEF RInv, RootKeeps
    <3>4. \A s \in Requests : req'[s].pc = "setrole" /\ req'[s].user = root'
                                => req'[s].role = "admin"
      BY <1>1, <1>3, <3>1, <3>2, Unclaimed DEF RInv, NoRolesYet, EarlyOnly, RootKeeps, At
    <3> QED
      BY <1>1, <1>3, <3>1, <3>3, <3>4 DEF RInv, NoRolesYet, EarlyOnly, RootKeeps, At
  <2>2. CASE UNCHANGED root
    <3>1. ~excused
      BY <1>3, WhoWrites DEF Writers
    <3>2. \A s \in Requests : req[s].pc = "setrole" /\ req[s].user = root
                                => req[s].role = "admin"
      BY <1>3, <2>2, <3>1 DEF RInv, NoRolesYet, EarlyOnly, RootKeeps, At
    <3>3. role'[root] \in {None, "admin"}
      <4>1. role[root] \in {None, "admin"}
        BY <1>3, <2>2, <3>1 DEF RInv, RootKeeps
      <4>2. ASSUME NEW r \in Requests, WriteRole(r) PROVE role'[root] \in {None, "admin"}
        BY <3>2, <4>1, <4>2 DEF WriteRole, At, TInv, TypeOK
      <4> QED
        BY <4>1, <4>2, WhoWrites DEF Writers
    <3>4. \A s \in Requests : req'[s].pc = "setrole" /\ req'[s].user = root
                                => req'[s].role = "admin"
      BY <1>3, <3>2, AlwaysGiven DEF Given
    <3> QED
      BY <1>3, <2>2, <3>3, <3>4 DEF RInv, NoRolesYet, EarlyOnly, RootKeeps, At
  <2> QED
    BY <2>1, <2>2, WhoWrites DEF Writers
<1> QED
  <2>1. CASE root' # None /\ excused'
    BY <2>1 DEF RInv, NoRolesYet, EarlyOnly, RootKeeps
  <2> QED
    BY <1>2, <1>3, <2>1

\* A claimed server, whether by a root admin or by any device, keeps an admin, however
\* claims, invites, role changes, SSO mappings and failed reads interleave, with the
\* exceptions NoLockout names (handleGateClaim, handleSetUserRole,
\* handleGateInviteRedeem, applySSORoleMapping).
THEOREM AlwaysAnAdmin == Spec => []NoLockout
<1>1. Init => RInv
  BY DEF Init, RInv, NoRolesYet, EarlyOnly, RootKeeps, Idle, At
<1>2. TInv /\ RInv /\ [Next]_vars => RInv'
  BY RInvStep
<1>3. ASSUME TInv, RInv, serverClaimed, ~excused, ~Early
      PROVE  \E u \in Users : IsAdmin(u)
  <2>1. root # None
    BY <1>3 DEF serverClaimed, Early, RInv, EarlyOnly, Unasked
  <2> QED
    BY <1>3, <2>1 DEF TInv, TypeOK, RInv, RootKeeps, IsAdmin
<1>4. TInv /\ RInv => NoLockout
  BY <1>3 DEF NoLockout
<1> QED
  BY <1>1, <1>2, <1>4, AlwaysTyped, PTL DEF Spec
=============================================================================
