---------------------------- MODULE ReleaseGate ----------------------------
(***************************************************************************)
(* The release of one business process: what each stage runs, the freeze   *)
(* of staging, the audit sign-offs and the promotions, deploys and         *)
(* rollbacks that write them (AutomationService of bitswan-gitops).        *)
(*                                                                         *)
(* All of it lives in one bitswan.yaml.  A writer reads the whole file,    *)
(* changes its part and writes the whole file back.  Freezes, sign-offs    *)
(* and policies do so without an await; deploys and promotions await       *)
(* `git show` between the read and the write, so that anything can happen  *)
(* there.  _persist_bp_state then takes everything but the images from the *)
(* file as it is (owned_keys), which deploy_automation does not ask for.   *)
(*                                                                         *)
(* The content of a stage is the set of its members' images, at most one   *)
(* for a member, and content_sha is the content itself.  A writer without  *)
(* prune_scope updates the members it carries and leaves the others, so    *)
(* that a stage may come to have a mixture of two contents.  The actors of *)
(* the gate are admins or auditors: the roles are not modelled.            *)
(*                                                                         *)
(* A definition named Bug... is a wrong variant of the one that follows    *)
(* it.  No action uses it: it records which mistake each property catches. *)
(***************************************************************************)
EXTENDS Naturals, Sequences, FiniteSets

CONSTANTS
    Members,     \* the automations of the process
    Parts,       \* their images
    Of,          \* the member an image is built from
    Auditors,
    Tasks,       \* a bound on the deploys, promotions and rollbacks at one time
    Kinds,       \* the writers there are, see AllKinds
    MaxRequired, \* a bound on the audit policy
    MaxSignOffs  \* a bound on the sign-offs of one image

AllKinds == {"deploy", "partial", "single", "to_staging", "to_production",
             "rollback_dev", "rollback_staging", "rollback_production"}

ASSUME OfAssumption == Of \in [Parts -> Members]
ASSUME KindsAssumption == Kinds \subseteq AllKinds
ASSUME BoundsAssumption == MaxRequired \in Nat \ {0} /\ MaxSignOffs \in Nat

Stages == {"dev", "staging", "production"}
SignOffs == [who : Auditors, verdict : {"approve", "reject"}]

\* what a stage with nothing deployed has; also "not frozen"
NoImage == {}

Contents == {c \in SUBSET Parts : \A p, q \in c : Of[p] = Of[q] => p = q}

\* the contents that have a hash
Images == Contents \ {NoImage}

\* the members of new are updated in place, the others stay as they are in old
Upsert(old, new) == new \cup {p \in old : \A q \in new : Of[p] # Of[q]}

VARIABLES
    image,     \* the content of each stage, business_processes[bp][stage]
    audits,    \* audits[bp][sha], newest first
    frozen,    \* staging_gate[bp].frozen_sha
    required,  \* staging_gate[bp].audit_policy.required
    released,  \* staging_gate[bp].released_shas
    pc,        \* where each task is
    job,       \* its kind, stage and content, and the images and gate it read
    history,   \* the contents that the commits of each stage hold
    cleared,   \* members' images of contents let into production, signed off
    lastWord   \* the verdict each auditor gave last on each content

gate == <<audits, frozen, required, released>>
task == <<pc, job>>
ghost == <<history, cleared, lastWord>>
vars == <<image, gate, task, ghost>>

Running == {"checking", "reading", "writing", "restoring", "applying", "unfreezing"}

Gates == [audits : [Images -> Seq(SignOffs)], frozen : Contents,
          required : 1..MaxRequired, released : SUBSET Images]

Jobs == [kind : Kinds \cup {"none"}, stage : Stages,
         carried : Contents,
         image : [Stages -> Contents], gate : Gates]

GateNow == [audits |-> audits, frozen |-> frozen, required |-> required,
            released |-> released]

Empty == [audits |-> [i \in Images |-> <<>>], frozen |-> NoImage,
          required |-> 1, released |-> {}]

RollbackOf(s) == CASE s = "dev" -> "rollback_dev"
                   [] s = "staging" -> "rollback_staging"
                   [] s = "production" -> "rollback_production"

\* the stages whose history matters to some writer
Remembered == {s \in Stages : RollbackOf(s) \in Kinds}

\* a job that has read nothing yet
JobOf(k, s, i) == [kind |-> k, stage |-> s, carried |-> i,
                   image |-> [st \in Stages |-> NoImage], gate |-> Empty]

\* the job once it has read images im and gate g
Having(j, im, g) ==
    [kind |-> j.kind, stage |-> j.stage, carried |-> j.carried,
     image |-> im, gate |-> g]

NoJob == JobOf("none", "dev", NoImage)

TypeOK ==
    /\ image \in [Stages -> Contents]
    /\ audits \in [Images -> Seq(SignOffs)]
    /\ frozen \in Contents
    /\ required \in 1..MaxRequired
    /\ released \subseteq Images
    /\ pc \in [Tasks -> Running \cup {"idle"}]
    /\ job \in [Tasks -> Jobs]
    /\ history \in [Stages -> SUBSET Images]
    /\ cleared \subseteq Parts
    /\ lastWord \in [Images -> [Auditors -> {"none", "approve", "reject"}]]

\* a process that has not been deployed yet
Init ==
    /\ image = [s \in Stages |-> NoImage]
    /\ history = [s \in Stages |-> {}]
    /\ audits = [i \in Images |-> <<>>]
    /\ frozen = NoImage
    /\ required = 1
    /\ released = {}
    /\ pc = [t \in Tasks |-> "idle"]
    /\ job = [t \in Tasks |-> NoJob]
    /\ cleared = {}
    /\ lastWord = [i \in Images |-> [a \in Auditors |-> "none"]]

-----------------------------------------------------------------------------
(* The gate: read_staging_gate, audit_verdicts, audit_closed *)

By(i, a) == {n \in DOMAIN audits[i] : audits[i][n].who = a}

Newest(i, a) == CHOOSE n \in By(i, a) : \A m \in By(i, a) : n <= m

\* audit_verdicts: the newest record of an auditor is the one that counts
Verdict(i, a) ==
    IF By(i, a) = {} THEN "none" ELSE audits[i][Newest(i, a)].verdict

Approvals(i) == {a \in Auditors : Verdict(i, a) = "approve"}
Rejections(i) == {a \in Auditors : Verdict(i, a) = "reject"}

SignedOff(i) == Cardinality(Approvals(i)) >= required /\ Rejections(i) = {}

Frozen == frozen # NoImage

BugNeverStale == FALSE

\* staging has drifted away from the content under audit
Stale == Frozen /\ image["staging"] # NoImage /\ image["staging"] # frozen

Promotable == Frozen /\ ~ Stale /\ SignedOff(frozen)

\* _assert_promotable; the dev stage has no gate
Allowed(s) ==
    /\ s = "staging" => ~ Frozen
    /\ s = "production" => Promotable

\* released_content_shas: everything a promotion recorded, and what runs now
AuditClosed(i) == i \in released \cup {image["production"]}

Freeze ==
    /\ image["staging"] # NoImage
    /\ frozen' = image["staging"]
    /\ UNCHANGED <<image, audits, required, released, task, ghost>>

Unfreeze ==
    /\ Frozen
    /\ frozen' = NoImage
    /\ UNCHANGED <<image, audits, required, released, task, ghost>>

SetPolicy(n) ==
    /\ required' = n
    /\ UNCHANGED <<image, audits, frozen, released, task, ghost>>

RecordAudit(a, v) ==
    /\ Frozen
    /\ ~ AuditClosed(frozen)
    /\ Len(audits[frozen]) < MaxSignOffs
    /\ audits' = [audits EXCEPT ![frozen] = <<[who |-> a, verdict |-> v]>> \o @]
    /\ lastWord' = [lastWord EXCEPT ![frozen][a] = v]
    /\ UNCHANGED <<image, frozen, required, released, task, history, cleared>>

-----------------------------------------------------------------------------
(* The writers start: routes of deploys, promotions and rollbacks *)

Begin(t, k, s, i, l) ==
    /\ k \in Kinds
    /\ pc[t] = "idle"
    /\ job' = [job EXCEPT ![t] = JobOf(k, s, i)]
    /\ pc' = [pc EXCEPT ![t] = l]
    /\ UNCHANGED <<image, gate>>

Rollbacks == {"rollback_dev", "rollback_staging", "rollback_production"}

\* the deployment locks of the stage; a rollback takes none
Reserved(s) ==
    \E u \in Tasks :
        pc[u] \in Running /\ job[u].stage = s /\ job[u].kind \notin Rollbacks

\* of the whole process, of some of its members, or of a single automation
StartDeploy(t, k, i) ==
    /\ k \in {"deploy", "partial", "single"}
    /\ k = "single" => Cardinality(i) = 1
    /\ ~ Reserved("dev")
    /\ Begin(t, k, "dev", i, "reading")
    /\ UNCHANGED ghost

\* promote-bp: the members are what the source stage has now
PromoteToStaging(t) ==
    /\ Allowed("staging")
    /\ image["dev"] # NoImage
    /\ ~ Reserved("staging")
    /\ Begin(t, "to_staging", "staging", image["dev"], "checking")
    /\ UNCHANGED ghost

PromoteToProduction(t) ==
    /\ Allowed("production")
    /\ image["staging"] # NoImage
    /\ ~ Reserved("production")
    /\ Begin(t, "to_production", "production", image["staging"], "checking")
    /\ cleared' = cleared \cup
                     {p \in image["staging"] : SignedOff(image["staging"])}
    /\ UNCHANGED <<history, lastWord>>

\* the gate is checked, then the revision is read with `git show`
StartRollback(t, s, i) ==
    /\ Allowed(s)
    /\ i \in history[s]
    /\ Begin(t, RollbackOf(s), s, i, "restoring")
    /\ UNCHANGED ghost

-----------------------------------------------------------------------------
(* The writers proceed *)

Goto(t, l) ==
    /\ pc' = [pc EXCEPT ![t] = l]
    /\ UNCHANGED job

\* what the job has read and carried is written, and not used again
Apply(t) ==
    /\ pc' = [pc EXCEPT ![t] = "applying"]
    /\ job' = [job EXCEPT ![t] = JobOf(@.kind, @.stage, NoImage)]

\* its variables are gone with the coroutine
End(t) ==
    /\ pc' = [pc EXCEPT ![t] = "idle"]
    /\ job' = [job EXCEPT ![t] = NoJob]

\* promote_business_process checks the gate again
Check(t) ==
    /\ pc[t] = "checking"
    /\ IF Allowed(job[t].stage) THEN Goto(t, "reading") ELSE End(t)
    /\ UNCHANGED <<image, gate, ghost>>

\* only deploy_automation uses the rest of the file that it read
Read(t) ==
    /\ pc[t] = "reading"
    /\ job' = [job EXCEPT ![t] = Having(@, image,
                 IF job[t].kind = "single" THEN GateNow ELSE Empty)]
    /\ pc' = [pc EXCEPT ![t] = "writing"]
    /\ UNCHANGED <<image, gate, ghost>>

Remember ==
    history' = [s \in Stages |-> history[s] \cup
                   {i \in {image'[s]} : i # NoImage /\ s \in Remembered}]

\* write_deployment_entries owns the images only, and takes the rest from the
\* file; deploy_automation writes back the gate and the sign-offs that it read
Written(t) == IF job[t].kind = "single" THEN job[t].gate ELSE GateNow

\* only a deploy of the whole process has prune_scope; a promotion has not
Deployed(t, old) ==
    IF job[t].kind = "deploy" THEN job[t].carried ELSE Upsert(old, job[t].carried)

\* the images of the file as it was read, with those of the job's stage updated
Write(t) ==
    /\ pc[t] = "writing"
    /\ image' = [job[t].image EXCEPT ![job[t].stage] = Deployed(t, @)]
    /\ audits' = Written(t).audits
    /\ frozen' = Written(t).frozen
    /\ required' = Written(t).required
    /\ released' = Written(t).released
    /\ Remember
    /\ Apply(t)
    /\ UNCHANGED <<cleared, lastWord>>

\* a rollback reads, swaps the members of one stage and writes without an await
Restore(t) ==
    /\ pc[t] = "restoring"
    /\ image' = [image EXCEPT ![job[t].stage] = job[t].carried]
    /\ Remember
    /\ Apply(t)
    /\ UNCHANGED <<gate, cleared, lastWord>>

BugStampsUndeployed == {image["production"]}

\* _stamp_release_audits: the content that production has now, if any
Stamped == {image["production"]} \ {NoImage}

\* the driver has applied a release: write_bp_deploy records it
Record(t) ==
    /\ pc[t] = "applying"
    /\ job[t].kind = "to_production"
    /\ released' = released \cup Stamped
    /\ Goto(t, "unfreezing")
    /\ UNCHANGED <<image, audits, frozen, required, history, cleared, lastWord>>

\* the promotion's commit is made; staging is thawed, whatever it is frozen for
AutoUnfreeze(t) ==
    /\ pc[t] = "unfreezing"
    /\ frozen' = NoImage
    /\ End(t)
    /\ UNCHANGED <<image, audits, required, released, ghost>>

Finish(t) ==
    /\ pc[t] = "applying"
    /\ job[t].kind # "to_production"
    /\ End(t)
    /\ UNCHANGED <<image, gate, ghost>>

\* not enough memory, a failed git command or apply, a cleared git queue
Fail(t) ==
    /\ pc[t] \in Running
    /\ End(t)
    /\ UNCHANGED <<image, gate, ghost>>

-----------------------------------------------------------------------------
Govern ==
    \/ Freeze \/ Unfreeze
    \/ \E n \in 1..MaxRequired : SetPolicy(n)
    \/ \E a \in Auditors, v \in {"approve", "reject"} : RecordAudit(a, v)

Start(t) ==
    \/ \E k \in Kinds, i \in Images : StartDeploy(t, k, i)
    \/ PromoteToStaging(t) \/ PromoteToProduction(t)
    \/ \E s \in Stages, i \in Images : StartRollback(t, s, i)

Proceed(t) ==
    \/ Check(t) \/ Read(t) \/ Write(t) \/ Restore(t) \/ Record(t)
    \/ AutoUnfreeze(t) \/ Finish(t) \/ Fail(t)

Next == Govern \/ \E t \in Tasks : Start(t) \/ Proceed(t)

Spec == Init /\ [][Next]_vars

-----------------------------------------------------------------------------
(* Properties *)

\* Whatever races with it, every member image that production has was part of
\* a content that had enough approvals and no rejection when it was let in: the
\* gate never lets one through on the sign-offs of another content, and neither
\* a stale write nor a rollback brings in one that no auditor saw.  The content
\* as a whole need not be one that was signed off: what a promotion does not
\* carry stays in production next to it (no prune_scope).
OnlyAdmittedInProduction ==
    image["production"] \subseteq cleared

\* record_audit: "an auditor MAY sign again to change their mind, but only
\* their latest verdict counts".  What the gate counts for an auditor is what
\* that auditor said last.
LastWordCounts ==
    \A i \in Images, a \in Auditors : Verdict(i, a) = lastWord[i][a]
=============================================================================
