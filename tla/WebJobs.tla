------------------------------- MODULE WebJobs -------------------------------
(***************************************************************************)
(* The job manager of the web console: bounded admission, one worker       *)
(* thread per job, first-in-first-out start through a condition variable,  *)
(* cancellation, eviction of finished jobs, terminal history rows and      *)
(* shutdown (crates/immich-web/src/jobs.rs, jobs/worker.rs,                *)
(* jobs/apply_admission.rs).                                               *)
(*                                                                         *)
(* Every action that reads or writes the state behind the manager's mutex  *)
(* is one critical section.  What a worker does without the lock (running  *)
(* the job, writing history, removing a plan) is a step of its own.        *)
(***************************************************************************)
EXTENDS Naturals, FiniteSets

CONSTANTS
    MaxJobs,        \* bound on the jobs admitted in a behaviour
    Kinds,          \* kinds of job the operator asks for
    Plans,          \* plan references a job may apply
    ConcurrentJobs, \* limits.concurrent_jobs
    QueuedJobs,     \* limits.queued_jobs
    RetainedJobs,   \* limits.retained_jobs
    MaxFaults,      \* bound on failed spawns and failed writes of the stores
    MaxPanics,      \* bound on worker panics
    None

\* WebLimits::validate
ASSUME LimitsAssumption ==
    /\ ConcurrentJobs \in 1..4
    /\ QueuedJobs \in 1..8
    /\ RetainedJobs \in 1..256
    /\ RetainedJobs >= ConcurrentJobs + QueuedJobs

ASSUME BoundsAssumption ==
    /\ MaxJobs \in Nat
    /\ Kinds \subseteq {"read", "plan", "apply"}
    /\ MaxFaults \in Nat
    /\ MaxPanics \in Nat
    /\ None \notin Plans \cup {"Completed", "Failed", "Cancelled"}
    /\ \A taken \in SUBSET (1..MaxJobs) : None # taken

\* Identifiers are random and never reused; number n is the n-th one admitted.
Jobs == 1..MaxJobs

VARIABLES
    \* --- behind the mutex (JobsState) ---
    status,       \* job -> "unknown" (never admitted or removed) or JobStatus
    order,        \* the queue of identifiers: a number tells the place of its job
    handles,      \* jobs whose worker thread is owned by the manager
    running,      \* count
    queued,       \* count
    shuttingDown,
    workerFailed,
    cancelRequested,
    capabilities, \* apply_capabilities
    active,       \* active_checkpoints
    \* --- per job, fixed at admission or owned by the worker ---
    kind,         \* "read" (scan, dry run), "plan" or "apply"
    target,       \* the plan an apply job applies
    thread,       \* where the worker thread is
    outcome,      \* WorkerOutcome
    unrecorded,   \* jobs whose history write failed
    \* --- stores and callers ---
    history,      \* job -> status of its terminal row
    artifacts,    \* jobs whose plan, or a part of it, is in the plan store
    cancelling,   \* cancel() calls that still have to write their row
    joining,      \* handles taken by shutdown(), None before
    faults, panics

locked == <<status, order, handles, running, queued, shuttingDown,
            workerFailed, cancelRequested, capabilities, active>>
worker == <<kind, target, thread, outcome, unrecorded>>
stores == <<history, artifacts, cancelling, joining>>
vars == <<locked, worker, stores, faults, panics>>

Terminal == {"Completed", "Failed", "Cancelled"}
ThreadStates == {"none", "begin", "waiting", "started", "executing",
                 "recording", "finishing", "exited", "panicked"}

TypeOK ==
    /\ status \in [Jobs -> {"unknown", "Queued", "Running"} \cup Terminal]
    /\ order \subseteq Jobs
    /\ handles \subseteq Jobs
    /\ running \in Nat /\ queued \in Nat
    /\ shuttingDown \in BOOLEAN /\ workerFailed \in BOOLEAN
    /\ cancelRequested \subseteq Jobs
    /\ capabilities \subseteq Jobs
    /\ active \subseteq Plans
    /\ kind \in [Jobs -> {"read", "plan", "apply"} \cup {None}]
    /\ target \in [Jobs -> Plans \cup {None}]
    /\ thread \in [Jobs -> ThreadStates]
    /\ outcome \in [Jobs -> Terminal \cup {None}]
    /\ unrecorded \subseteq Jobs
    /\ history \in [Jobs -> Terminal \cup {None}]
    /\ artifacts \subseteq Jobs
    /\ cancelling \subseteq Jobs
    /\ joining \in (SUBSET Jobs) \cup {None}
    /\ faults \in Nat /\ panics \in Nat

Faults(n) == faults >= n /\ faults' = faults - n
Fault == Faults(1)

IsTerminal(j) == status[j] \in Terminal
WorkerLimit == ConcurrentJobs + QueuedJobs

\* saturating_sub
Less(n, k) == IF n >= k THEN n - k ELSE 0

Unnotified(t) == t                        \* mutant: the wake-up is forgotten

\* Condvar::notify_all: every waiting worker evaluates begin's loop again.
Notified(t) == [j \in Jobs |-> IF t[j] = "waiting" THEN "begin" ELSE t[j]]

-----------------------------------------------------------------------------
(* Admission: admit_kind and admit_apply *)

Ended(j) == thread[j] \in {"exited", "panicked"}

\* reap_workers: finished threads are joined; a panic marks the manager.
Reaped == {j \in handles : ~Ended(j)}
FailedAfterReap == workerFailed \/ \E j \in handles : thread[j] = "panicked"

\* The k oldest jobs of a set, all of them if it has fewer.
Oldest(set, k) == {j \in set : Cardinality({i \in set : i <= j}) <= k}

Excess == Less(Cardinality(order) + 1, RetainedJobs)

\* Mutant: the oldest jobs go, finished or not.
EvictedOldest == Oldest(order, Excess)

\* evict_terminal: the oldest terminal jobs go until a new one fits.
Evicted == Oldest({j \in order : IsTerminal(j)}, Excess)

Kept == order \ Evicted
Retained ==
    LET gone == Evicted IN
    [j \in Jobs |-> IF j \in gone THEN "unknown" ELSE status[j]]

Unavailable == shuttingDown \/ FailedAfterReap

\* Mutant: the checkpoint of a plan that is being applied is not looked up.
FullUnguarded(plan) ==
    \/ running + queued >= WorkerLimit
    \/ Cardinality(Reaped) >= WorkerLimit
    \/ Cardinality(Kept) >= RetainedJobs

Full(plan) ==
    \/ plan \in active
    \/ running + queued >= WorkerLimit
    \/ Cardinality(Reaped) >= WorkerLimit
    \/ Cardinality(Kept) >= RetainedJobs

Admit(j, k, plan) ==
    /\ thread[j] = "none"
    /\ \A i \in Jobs : i < j => thread[i] # "none"
    /\ (k = "apply") = (plan # None)
    /\ ~Unavailable
    /\ ~Full(plan)
    /\ handles' = Reaped \cup {j}
    /\ status' = [Retained EXCEPT ![j] = "Queued"]
    /\ order' = Kept \cup {j}
    /\ queued' = queued + 1
    /\ kind' = [kind EXCEPT ![j] = k]
    /\ target' = [target EXCEPT ![j] = plan]
    /\ thread' = [thread EXCEPT ![j] = "begin"]
    /\ capabilities' = IF k = "apply" THEN capabilities \cup {j} ELSE capabilities
    /\ active' = IF k = "apply" THEN active \cup {plan} ELSE active
    /\ UNCHANGED <<running, shuttingDown, workerFailed, cancelRequested,
                   outcome, unrecorded, stores, faults, panics>>

\* The request is refused, or the thread cannot be spawned and the insertion
\* is undone before the lock is released; reaping and eviction stand.
AdmitRefused(plan) ==
    /\ \/ (Unavailable \/ Full(plan)) /\ UNCHANGED faults
       \/ Fault
    /\ handles' = Reaped
    /\ workerFailed' = FailedAfterReap
    /\ status' = Retained
    /\ order' = Kept
    /\ UNCHANGED <<running, queued, shuttingDown, cancelRequested, capabilities,
                   active, worker, stores, panics>>

\* snapshot() reaps as well.
Snapshot ==
    /\ handles' = Reaped
    /\ workerFailed' = FailedAfterReap
    /\ UNCHANGED <<status, order, running, queued, shuttingDown,
                   cancelRequested, capabilities, active, worker, stores,
                   faults, panics>>

-----------------------------------------------------------------------------
(* A worker thread: worker::run *)

Queued == {j \in order : status[j] = "Queued"}
IsNext(j) == j \in Queued /\ \A i \in Queued : j <= i

CanStart(j) == IsNext(j) /\ running < ConcurrentJobs

\* One turn of begin's loop.
BeginGivesUp(j) ==
    /\ thread[j] = "begin"
    /\ status[j] # "Queued" \/ shuttingDown
    /\ thread' = [thread EXCEPT ![j] = "exited"]
    /\ UNCHANGED <<locked, kind, target, outcome, unrecorded, stores, faults,
                   panics>>

Begin(j) ==
    /\ thread[j] = "begin"
    /\ status[j] = "Queued" /\ ~shuttingDown
    /\ CanStart(j)
    /\ queued' = Less(queued, 1)
    /\ running' = running + 1
    /\ status' = [status EXCEPT ![j] = "Running"]
    /\ thread' = [thread EXCEPT ![j] = "started"]
    /\ UNCHANGED <<order, handles, shuttingDown, workerFailed, cancelRequested,
                   capabilities, active, kind, target, outcome, unrecorded,
                   stores, faults, panics>>

BeginWaits(j) ==
    /\ thread[j] = "begin"
    /\ status[j] = "Queued" /\ ~shuttingDown
    /\ ~CanStart(j)
    /\ thread' = [thread EXCEPT ![j] = "waiting"]
    /\ UNCHANGED <<locked, kind, target, outcome, unrecorded, stores, faults,
                   panics>>

\* job_inputs takes the apply capability.  execute's answer to a missing one
\* is dead code: CapabilityHeld below.
JobInputs(j) ==
    /\ thread[j] = "started"
    /\ capabilities' = capabilities \ {j}
    /\ thread' = [thread EXCEPT ![j] = "executing"]
    /\ UNCHANGED <<status, order, handles, running, queued, shuttingDown,
                   workerFailed, cancelRequested, active, kind, target,
                   outcome, unrecorded, stores, faults, panics>>

\* prepare_source and execute: a completed plan job has published its plan, and
\* so has one that failed because the store could not remove the pending name
\* or sync the directory after publishing.  The token is observed at the
\* worker's own pace, so a job may still complete or fail after cancellation
\* was requested.
Execute(j, result) ==
    /\ thread[j] = "executing"
    /\ result = "Cancelled" => j \in cancelRequested
    /\ outcome' = [outcome EXCEPT ![j] = result]
    /\ \/ /\ artifacts' = IF kind[j] = "plan" /\ result = "Completed"
                          THEN artifacts \cup {j} ELSE artifacts
          /\ UNCHANGED faults
       \/ /\ kind[j] = "plan" /\ result = "Failed"
          /\ Fault
          /\ artifacts' = artifacts \cup {j}
    /\ thread' = [thread EXCEPT ![j] = "recording"]
    /\ UNCHANGED <<locked, kind, target, unrecorded, history, cancelling,
                   joining, panics>>

\* The worker panics while it runs the job or writes its row.
Panic(j) ==
    /\ thread[j] \in {"executing", "recording"}
    /\ panics > 0
    /\ panics' = panics - 1
    /\ thread' = [thread EXCEPT ![j] = "panicked"]
    /\ UNCHANGED <<locked, kind, target, outcome, unrecorded, stores, faults>>

\* Mutant: the row is made from the job's public status, not its outcome.
RecordStatus(j) ==
    /\ thread[j] = "recording"
    /\ history' = [history EXCEPT ![j] = status[j]]
    /\ thread' = [thread EXCEPT ![j] = "finishing"]
    /\ UNCHANGED <<locked, kind, target, outcome, unrecorded, artifacts,
                   cancelling, joining, faults, panics>>

\* finish, before it takes the lock: the terminal row comes first.
RecordTerminal(j) ==
    /\ thread[j] = "recording"
    /\ history' = [history EXCEPT ![j] = outcome[j]]
    /\ thread' = [thread EXCEPT ![j] = "finishing"]
    /\ UNCHANGED <<locked, kind, target, outcome, unrecorded, artifacts,
                   cancelling, joining, faults, panics>>

\* published_artifact: the plan of a job that ended as completed.
Published(j) == kind[j] = "plan" /\ outcome[j] = "Completed"

\* Mutant: nothing removes the plan of a job that could not be recorded.
RecordFailsKeepsPlan(j, committed, removed) ==
    /\ thread[j] = "recording"
    /\ Fault
    /\ history' = IF committed THEN [history EXCEPT ![j] = outcome[j]] ELSE history
    /\ outcome' = [outcome EXCEPT ![j] = "Failed"]
    /\ unrecorded' = unrecorded \cup {j}
    /\ thread' = [thread EXCEPT ![j] = "finishing"]
    /\ UNCHANGED <<locked, kind, target, artifacts, cancelling, joining, panics>>

\* The write fails, or fails in the maintenance after its commit (committed).
\* A plan the job published is removed, unless that fails too: nobody looks at
\* its result.  The outcome becomes Failed.
RecordFails(j, committed, removed) ==
    /\ thread[j] = "recording"
    /\ ~removed => Published(j)
    /\ Faults(IF removed THEN 1 ELSE 2)
    /\ history' = IF committed THEN [history EXCEPT ![j] = outcome[j]] ELSE history
    /\ artifacts' = IF Published(j) /\ removed THEN artifacts \ {j} ELSE artifacts
    /\ outcome' = [outcome EXCEPT ![j] = "Failed"]
    /\ unrecorded' = unrecorded \cup {j}
    /\ thread' = [thread EXCEPT ![j] = "finishing"]
    /\ UNCHANGED <<locked, kind, target, cancelling, joining, panics>>

\* finish, under the lock.
Finish(j) ==
    /\ thread[j] = "finishing"
    /\ active' = active \ {target[j]}
    /\ capabilities' = capabilities \ {j}
    /\ workerFailed' = (workerFailed \/ j \in unrecorded)
    /\ running' = Less(running, 1)
    /\ status' = [status EXCEPT ![j] = outcome[j]]
    /\ thread' = Notified([thread EXCEPT ![j] = "exited"])
    /\ UNCHANGED <<order, handles, queued, shuttingDown, cancelRequested, kind,
                   target, outcome, unrecorded, stores, faults, panics>>

-----------------------------------------------------------------------------
(* Callers: cancel and shutdown *)

\* cancel() of a job that has not started: it is over at once, and its row is
\* written after the lock is released.
CancelQueued(j) ==
    /\ status[j] = "Queued"
    /\ cancelRequested' = cancelRequested \cup {j}
    /\ status' = [status EXCEPT ![j] = "Cancelled"]
    /\ thread' = Notified(thread)
    /\ queued' = Less(queued, 1)
    /\ capabilities' = capabilities \ {j}
    /\ active' = active \ {target[j]}
    /\ cancelling' = cancelling \cup {j}
    /\ UNCHANGED <<order, handles, running, shuttingDown, workerFailed, kind,
                   target, outcome, unrecorded, history, artifacts, joining,
                   faults, panics>>

\* Mutant: cancelling a running job ends it for the caller at once.
CancelRunningNow(j) ==
    /\ status[j] = "Running"
    /\ j \notin cancelRequested
    /\ cancelRequested' = cancelRequested \cup {j}
    /\ status' = [status EXCEPT ![j] = "Cancelled"]
    /\ thread' = Notified(thread)
    /\ UNCHANGED <<order, handles, running, queued, shuttingDown, workerFailed,
                   capabilities, active, kind, target, outcome, unrecorded,
                   stores, faults, panics>>

\* cancel() of a running job: the token is set, the worker ends in its time.
\* A repeated cancel(), or one of a finished job, changes nothing.
CancelRunning(j) ==
    /\ status[j] = "Running"
    /\ j \notin cancelRequested
    /\ cancelRequested' = cancelRequested \cup {j}
    /\ thread' = Notified(thread)
    /\ UNCHANGED <<status, order, handles, running, queued, shuttingDown,
                   workerFailed, capabilities, active, kind, target, outcome,
                   unrecorded, stores, faults, panics>>

\* record_cancelled_job; a failed write stops further admission.
RecordCancelled(j) ==
    /\ j \in cancelling
    /\ cancelling' = cancelling \ {j}
    /\ \/ /\ history' = [history EXCEPT ![j] = "Cancelled"]
          /\ UNCHANGED <<workerFailed, faults>>
       \/ /\ Fault
          /\ workerFailed' = TRUE
          /\ UNCHANGED history
    /\ UNCHANGED <<status, order, handles, running, queued, shuttingDown,
                   cancelRequested, capabilities, active, worker, artifacts,
                   joining, panics>>

\* shutdown() under the lock: everything is cancelled, queued jobs are over
\* (no row is written for them), and the handles are taken.
Shutdown ==
    LET live == {j \in Jobs : status[j] \in {"Queued", "Running"}
                              /\ j \notin cancelRequested}
        dropped == {j \in live : status[j] = "Queued"}
    IN
    /\ joining = None
    /\ shuttingDown' = TRUE
    /\ cancelRequested' = cancelRequested \cup live
    /\ status' = [j \in Jobs |-> IF j \in dropped THEN "Cancelled" ELSE status[j]]
    /\ queued' = Less(queued, Cardinality(dropped))
    /\ thread' = Notified(thread)
    /\ handles' = {}
    /\ joining' = handles
    /\ UNCHANGED <<order, running, workerFailed, capabilities, active, kind,
                   target, outcome, unrecorded, history, artifacts, cancelling,
                   faults, panics>>

\* shutdown() joins one of the threads it took.
Join(j) ==
    /\ joining # None
    /\ j \in joining
    /\ Ended(j)
    /\ joining' = joining \ {j}
    /\ UNCHANGED <<locked, worker, history, artifacts, cancelling, faults,
                   panics>>

-----------------------------------------------------------------------------
Init ==
    /\ status = [j \in Jobs |-> "unknown"]
    /\ order = {}
    /\ handles = {}
    /\ running = 0
    /\ queued = 0
    /\ shuttingDown = FALSE
    /\ workerFailed = FALSE
    /\ cancelRequested = {}
    /\ capabilities = {}
    /\ active = {}
    /\ kind = [j \in Jobs |-> None]
    /\ target = [j \in Jobs |-> None]
    /\ thread = [j \in Jobs |-> "none"]
    /\ outcome = [j \in Jobs |-> None]
    /\ unrecorded = {}
    /\ history = [j \in Jobs |-> None]
    /\ artifacts = {}
    /\ cancelling = {}
    /\ joining = None
    /\ faults = MaxFaults
    /\ panics = MaxPanics

\* What the worker thread of j does by itself, apart from running the job.
WorkerStep(j) ==
    \/ BeginGivesUp(j)
    \/ Begin(j)
    \/ BeginWaits(j)
    \/ JobInputs(j)
    \/ RecordTerminal(j)
    \/ Finish(j)

Next ==
    \/ \E j \in Jobs :
          \/ \E k \in Kinds, plan \in Plans \cup {None} : Admit(j, k, plan)
          \/ WorkerStep(j)
          \/ \E result \in Terminal : Execute(j, result)
          \/ Panic(j)
          \/ \E committed, removed \in BOOLEAN : RecordFails(j, committed, removed)
          \/ CancelQueued(j)
          \/ CancelRunning(j)
          \/ RecordCancelled(j)
          \/ Join(j)
    \/ \E plan \in Plans \cup {None} : AdmitRefused(plan)
    \/ Snapshot
    \/ Shutdown

Spec == Init /\ [][Next]_vars

(***************************************************************************)
(* Fairness: the operating system runs every thread, and shutdown() keeps  *)
(* joining.  Nothing is assumed of the operator's requests.  JobsEnd adds  *)
(* that the work of a job ends: scans are bounded, requests time out.      *)
(***************************************************************************)
ThreadFairness ==
    \A j \in Jobs : WF_vars(WorkerStep(j)) /\ WF_vars(Join(j))

JobsEnd == \A j \in Jobs : WF_vars(\E result \in Terminal : Execute(j, result))

ThreadSpec == Spec /\ ThreadFairness
FairSpec == ThreadSpec /\ JobsEnd

-----------------------------------------------------------------------------
(* Safety *)

Unfinished(j) == status[j] \in {"Queued", "Running"}
Live(j) == thread[j] \notin {"none", "exited", "panicked"}

\* The counters that admission and begin() decide on are the true numbers of
\* running and queued jobs, whatever order begin, cancel, finish, eviction and
\* shutdown take the lock in: no decrement is lost, doubled or saturated.
CountersExact ==
    /\ running = Cardinality({j \in Jobs : status[j] = "Running"})
    /\ queued = Cardinality({j \in Jobs : status[j] = "Queued"})

\* The limits hold at every moment: running jobs, worker threads (cancelled
\* ones that have not left begin() included) and retained jobs; and no worker
\* thread runs that neither the manager nor shutdown() owns.
LimitsHold ==
    /\ running <= ConcurrentJobs
    /\ Cardinality({j \in Jobs : Live(j)}) <= WorkerLimit
    /\ Cardinality(order) <= RetainedJobs
    /\ \A j \in Jobs : Live(j) =>
           j \in handles \/ (joining # None /\ j \in joining)

\* Two unfinished jobs never apply the same plan: they would share its
\* checkpoint file.
OneApplyPerPlan ==
    \A i, j \in Jobs :
        (Unfinished(i) /\ Unfinished(j) /\ target[i] = target[j]
             /\ target[i] # None) => i = j

\* active_checkpoints is exactly the set of plans being applied: no plan is
\* left locked by a job that has ended, by whichever path it ended.
CheckpointsExact ==
    ~shuttingDown => active = {target[j] : j \in {i \in Jobs :
                                   Unfinished(i) /\ kind[i] = "apply"}}

\* An apply job holds its write capability from admission until its worker
\* takes it, and a job that is over holds none.
CapabilityHeld ==
    /\ \A j \in Jobs :
          (kind[j] = "apply" /\ (status[j] = "Queued" \/ thread[j] = "started"))
              => j \in capabilities
    /\ ~shuttingDown => \A j \in capabilities : Unfinished(j)

\* The numbers that admission decides on are exact, and so are the limits kept.
AccountingExact == CountersExact /\ LimitsHold

\* One unfinished apply job per plan, which holds its plan and its capability
\* as long as it needs them and no longer.
ApplyJobsExclusive == OneApplyPerPlan /\ CheckpointsExact /\ CapabilityHeld

\* A job an operator sees as ended has the same terminal row in the history,
\* unless its row is being written, a write has failed (and admission is
\* closed), or shutdown dropped it from the queue.
HistoryAgrees ==
    \A j \in Jobs :
        (status[j] \in Terminal /\ j \notin cancelling /\ ~workerFailed) =>
            \/ history[j] = status[j]
            \/ shuttingDown /\ status[j] = "Cancelled" /\ outcome[j] = None

\* Plans left in the store by workers that ended without a completed row.
StrayPlans == {j \in artifacts : thread[j] = "exited" /\ history[j] # "Completed"}

\* A plan job an operator sees as completed has its plan in the store.  A plan
\* whose job is not recorded as completed belongs to a job seen as failed, and
\* costs a failure of the plan store of its own, on top of the history writes
\* that failed: publishing or removing it went wrong after it was in place.
ArtifactsAgree ==
    /\ \A j \in Jobs : (status[j] = "Completed" /\ kind[j] = "plan") => j \in artifacts
    /\ \A j \in StrayPlans : status[j] \in {"Failed", "unknown"}
    /\ Cardinality(StrayPlans) + Cardinality(unrecorded) + faults <= MaxFaults

\* A job that has ended never comes back to life or changes its end.
TerminalIsFinal ==
    [][\A j \in Jobs : status[j] \in Terminal =>
           status'[j] \in {status[j], "unknown"}]_vars

-----------------------------------------------------------------------------
(* Liveness *)

\* Every admitted job ends or is cancelled, unless a worker panics and keeps
\* its slot.
EveryJobEnds ==
    \A j \in Jobs : status[j] = "Queued" ~>
        (~Unfinished(j) \/ \E i \in Jobs : thread[i] = "panicked")

\* shutdown() joins every worker it took: none sleeps through it, even if
\* others panicked and left every slot occupied.
ShutdownCompletes == joining # None ~> joining = {}
==============================================================================
