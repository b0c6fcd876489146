----------------------------- MODULE GitQueue -----------------------------
(***************************************************************************)
(* The git task queue of bitswan-gitops: app/task_queue.py (TaskQueue) and *)
(* the GitLockContext of app/utils.py that every git commit goes through.  *)
(*                                                                         *)
(* A task is either a JOB, a function handed to submit() and run by the    *)
(* worker (delete-copy, delete-bp, the debounced mirror push), or a LEASE, *)
(* the turn a request coroutine takes with acquire() and gives back with   *)
(* release() (`async with GitLockContext()`, run_inline).  A lease whose   *)
(* Owner is a job is a GitLockContext entered inside that job's function:  *)
(* it finds in_queue_task set and acquires nothing.                        *)
(*                                                                         *)
(* Everything runs on one event loop, so a step is the code between two    *)
(* awaits.  Task ids are fresh uuids: each is submitted at most once.      *)
(*                                                                         *)
(* A definition named Bug... is a wrong variant of the one that follows    *)
(* it.  No action uses it: it records which mistake each property catches. *)
(***************************************************************************)
EXTENDS Naturals, Sequences, FiniteSets

CONSTANTS
    Jobs,       \* tasks whose function the worker runs
    Leases,     \* tasks that only hold the turn for a waiting coroutine
    NoTaskId,     \* the worker is between tasks
    Owner,      \* the job in whose function a lease is entered, or NoTaskId
    HistoryCap  \* TaskQueue._HISTORY: finished tasks kept for the panel

TaskIds == Jobs \cup Leases

ASSUME DisjointTasks == Jobs \cap Leases = {} /\ NoTaskId \notin TaskIds
ASSUME OwnerAssumption == Owner \in [Leases -> Jobs \cup {NoTaskId}]
ASSUME HistoryAssumption == HistoryCap \in Nat

VARIABLES
    taskStatus, \* Task.status, "new" before submit() creates the task
    recorded,  \* the keys of _tasks
    fns,       \* the keys of _fns
    order,     \* creation order of all tasks; _order is what of it is known
    cancelled, \* _cancelled
    queue,     \* the asyncio.Queue of task ids
    running,   \* the task whose fn() the worker is awaiting (_running_id)
    registered,\* the keys of _releases
    granted,   \* leases whose `granted` event is set
    released,  \* leases whose `released` event is set
    caller     \* what the coroutine behind each lease is doing

queueVars == <<taskStatus, recorded, fns, order, cancelled, queue, running, registered,
          granted, released, caller>>

Finished == {"completed", "failed", "cancelled"}
Statuses == {"new", "queued", "running"} \cup Finished
CallerStates == {"outside", "waiting", "inside", "left", "raised"}

QueueTypeOK ==
    /\ taskStatus \in [TaskIds -> Statuses]
    /\ recorded \subseteq TaskIds
    /\ fns \subseteq TaskIds
    /\ order \in Seq(TaskIds)
    /\ cancelled \subseteq TaskIds
    /\ queue \in Seq(TaskIds)
    /\ running \in TaskIds \cup {NoTaskId}
    /\ registered \subseteq Leases
    /\ granted \subseteq Leases
    /\ released \subseteq Leases
    /\ caller \in [Leases -> CallerStates]

QueueInit ==
    /\ taskStatus = [t \in TaskIds |-> "new"]
    /\ recorded = {} /\ fns = {} /\ order = <<>> /\ cancelled = {}
    /\ queue = <<>> /\ running = NoTaskId
    /\ registered = {} /\ granted = {} /\ released = {}
    /\ caller = [l \in Leases |-> "outside"]

-----------------------------------------------------------------------------
(* submit(), and the trimming of finished tasks it ends with *)

\* done_ids of _trim_history
Trimmable(t) == t \in recorded /\ taskStatus[t] \in Finished

\* every finished task that HistoryCap younger ones have outlived
Trimmed ==
    {order[i] : i \in {k \in DOMAIN order :
        /\ Trimmable(order[k])
        /\ Cardinality({j \in DOMAIN order : j > k /\ Trimmable(order[j])})
              >= HistoryCap}}

\* put_nowait()
QueueWith(t) == Append(queue, t)

Submit(t) ==
    /\ taskStatus[t] = "new"
    /\ taskStatus' = [taskStatus EXCEPT ![t] = "queued"]
    /\ recorded' = (recorded \ Trimmed) \cup {t}
    /\ fns' = (fns \ Trimmed) \cup {t}
    /\ order' = Append(order, t)
    /\ cancelled' = cancelled \ Trimmed
    /\ queue' = QueueWith(t)
    /\ UNCHANGED <<running, granted, released>>

\* a route hands a job to the queue and answers 202
SubmitJob(j) ==
    /\ Submit(j)
    /\ UNCHANGED <<registered, caller>>

\* the task id acquire() submitted, whose release event it registers
Acquire(l) ==
    /\ Submit(l)
    /\ registered' = registered \cup {l}
    /\ caller' = [caller EXCEPT ![l] = "waiting"]

BugAlwaysAcquires(l) == FALSE

\* `async with GitLockContext()`: a no-op inside the worker's own task
InQueueTask(l) == Owner[l] # NoTaskId

EnterNested(l) ==
    /\ caller' = [caller EXCEPT ![l] = "inside"]
    /\ UNCHANGED <<taskStatus, recorded, fns, order, cancelled, queue, running,
                   registered, granted, released>>

Enter(l) ==
    /\ caller[l] = "outside"
    /\ Owner[l] \in {NoTaskId, running}
    /\ IF InQueueTask(l) THEN EnterNested(l) ELSE Acquire(l)

\* `granted` is looked at first, then the task's record
MayProceed(l) == l \in granted

BugOnlySeesTrimmed(l) == l \notin recorded

SeesCancelled(l) == l \notin recorded \/ taskStatus[l] = "cancelled"

\* one round of acquire()'s polling loop
Granted(l) ==
    /\ caller[l] = "waiting"
    /\ MayProceed(l)
    /\ caller' = [caller EXCEPT ![l] = "inside"]
    /\ UNCHANGED <<taskStatus, recorded, fns, order, cancelled, queue, running,
                   registered, granted, released>>

Refused(l) ==
    /\ caller[l] = "waiting"
    /\ ~ MayProceed(l)
    /\ SeesCancelled(l)
    /\ registered' = registered \ {l}
    /\ caller' = [caller EXCEPT ![l] = "raised"]
    /\ UNCHANGED <<taskStatus, recorded, fns, order, cancelled, queue, running,
                   granted, released>>

\* release(): the event is set only if it is still registered
Release(l) ==
    /\ released' = IF l \in registered THEN released \cup {l} ELSE released
    /\ registered' = registered \ {l}

\* __aexit__, on the normal path and on an exception alike
Leave(l) ==
    /\ caller[l] = "inside"
    /\ caller' = [caller EXCEPT ![l] = "left"]
    /\ IF InQueueTask(l) THEN UNCHANGED <<registered, released>> ELSE Release(l)
    /\ UNCHANGED <<taskStatus, recorded, fns, order, cancelled, queue, running, granted>>

-----------------------------------------------------------------------------
(* The worker, _run() *)

BugRunsCleared(t) == t \notin recorded \/ t \notin fns

Dead(t) == t \notin recorded \/ t \notin fns
             \/ t \in cancelled \/ taskStatus[t] = "cancelled"

BugSecondWorker == TRUE

\* the one worker awaits the previous fn() before it gets the next id
Idle == running = NoTaskId

\* a task that was cleared, or trimmed after it was cleared, is passed over
SkipTask ==
    /\ Idle
    /\ queue # <<>>
    /\ Dead(Head(queue))
    /\ queue' = Tail(queue)
    /\ fns' = fns \ {Head(queue)}
    /\ UNCHANGED <<taskStatus, recorded, order, cancelled, running, registered,
                   granted, released, caller>>

BugGrantsJobs(t) == {t}

\* fn() runs up to its first await; _hold() has set `granted` by then
Grants(t) == {t} \cap Leases

StartTask ==
    LET t == Head(queue)
    IN  /\ Idle
        /\ queue # <<>>
        /\ ~ Dead(t)
        /\ queue' = Tail(queue)
        /\ fns' = fns \ {t}
        /\ taskStatus' = [taskStatus EXCEPT ![t] = "running"]
        /\ running' = t
        /\ granted' = granted \cup Grants(t)
        /\ UNCHANGED <<recorded, order, cancelled, registered, released, caller>>

Finish(outcome) ==
    /\ taskStatus' = [taskStatus EXCEPT ![running] = outcome]
    /\ running' = NoTaskId
    /\ UNCHANGED <<recorded, fns, order, cancelled, queue, registered, granted,
                   released, caller>>

\* _hold() returns once its lease has been released
HoldReturns ==
    /\ running \in released
    /\ Finish("completed")

\* a job returns or raises; it is not inside a GitLockContext of its own then
JobReturns ==
    /\ running \in Jobs
    /\ \A l \in Leases : Owner[l] = running => caller[l] \notin {"waiting", "inside"}
    /\ \E outcome \in {"completed", "failed"} : Finish(outcome)

-----------------------------------------------------------------------------
(* The administrator: POST /tasks/clear *)

Clear ==
    LET queued == {t \in recorded : taskStatus[t] = "queued"}
    IN  /\ queued # {}
        /\ taskStatus' = [t \in TaskIds |-> IF t \in queued THEN "cancelled" ELSE taskStatus[t]]
        /\ cancelled' = cancelled \cup queued
        /\ UNCHANGED <<recorded, fns, order, queue, running, registered, granted,
                       released, caller>>

-----------------------------------------------------------------------------
Worker == SkipTask \/ StartTask \/ HoldReturns \/ JobReturns

QueueNext ==
    \/ \E j \in Jobs : SubmitJob(j)
    \/ \E l \in Leases : Enter(l) \/ Granted(l) \/ Refused(l) \/ Leave(l)
    \/ SkipTask \/ StartTask \/ HoldReturns \/ JobReturns
    \/ Clear

QueueSpec == QueueInit /\ [][QueueNext]_queueVars

(***************************************************************************)
(* The loop keeps running: the worker task is never starved, a poll is     *)
(* rescheduled every 50 ms, and a git command or a job ends (its           *)
(* subprocesses do).  Nobody is obliged to submit, enter or clear.         *)
(***************************************************************************)
QueueFairness ==
    /\ WF_queueVars(Worker)
    /\ \A l \in Leases : WF_queueVars(Granted(l) \/ Refused(l)) /\ WF_queueVars(Leave(l))

QueueFairSpec == QueueSpec /\ QueueFairness

-----------------------------------------------------------------------------
(* Properties *)

\* the queue task whose turn a coroutine in a git critical section relies on
TurnOf(l) == IF InQueueTask(l) THEN Owner[l] ELSE l

\* At most one git-mutating operation runs at a time: whoever is inside a
\* git section is there on the turn of the one task the worker is awaiting,
\* a lease on its own, a nested section on its job's.
GitExclusion == \A l \in Leases : caller[l] = "inside" => running = TurnOf(l)

\* The worker can never be wedged in _hold(): behind a lease that has the
\* turn there is a coroutine that will still call release() on a registered
\* event, or the event is already set.
NoOrphanHold ==
    running \in Leases =>
        \/ running \in released
        \/ running \in registered /\ caller[running] \in {"waiting", "inside"}

\* A queued task is never lost: it is still in the asyncio queue, with its
\* function and its record, however the history is trimmed and the queue
\* cleared around it.
QueuedIsReachable ==
    \A t \in TaskIds : taskStatus[t] = "queued" =>
        /\ t \in recorded \cap fns
        /\ t \notin cancelled
        /\ \E i \in DOMAIN queue : queue[i] = t

\* A task clear() cancelled never runs, and the running task is never the one
\* that clear() cancels.
CancelsOnlyQueued ==
    \A t \in TaskIds : /\ taskStatus[t] = "cancelled" => taskStatus'[t] = "cancelled"
                       /\ taskStatus[t] = "running" => taskStatus'[t] # "cancelled"

ClearedStaysCleared == [][CancelsOnlyQueued]_queueVars

\* The queue is an implementation of the abstract line of operations.
Turn == INSTANCE GitTurn WITH
            Op <- TaskIds,
            NoOp <- NoTaskId,
            arrived <- order,
            waiting <- {t \in TaskIds : taskStatus[t] = "queued"},
            turn <- running

ImplementsTurn == Turn!Spec

\* Every task that was submitted finishes or is cancelled: nobody waits on
\* the queue forever, not even a job that enters a GitLockContext itself.
EverySubmittedEnds ==
    \A t \in TaskIds : (taskStatus[t] = "queued") ~> (taskStatus[t] \in Finished)

\* Every acquire() returns or raises.
EveryAcquireReturns ==
    \A l \in Leases : (caller[l] = "waiting") ~> (caller[l] # "waiting")
=============================================================================
