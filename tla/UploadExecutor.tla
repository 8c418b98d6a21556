--------------------------- MODULE UploadExecutor ---------------------------
(***************************************************************************)
(* The folder upload executor: one apply run of an immutable upload plan   *)
(* against an Immich server, with bounded concurrency, a retry budget, a   *)
(* durable checkpoint journal, cancellation, and a process that may die    *)
(* at any point and be run again (crates/immich-executor: apply.rs,        *)
(* operation.rs, retry.rs, journal.rs; crates/immich-client: upload.rs,    *)
(* error.rs, response.rs).                                                 *)
(*                                                                         *)
(* A group of operations is named by its first operation: a standalone     *)
(* asset, or the video of a live-photo pair.  Groups run concurrently      *)
(* inside one task; between two awaits a group's code is one step.  The    *)
(* server is external and is modelled from the two endpoints the client    *)
(* uses: it identifies an asset by the checksum of its media.              *)
(***************************************************************************)
EXTENDS Naturals, Sequences, FiniteSets

CONSTANTS
    Ops,          \* operations of the plan
    Images,       \* operations whose role is LivePhotoImage
    VideoOf,      \* the video operation an image operation names
    Path,         \* rank of an operation's relative path
    Checksums,    \* SHA-1 values of media contents
    Sha1,         \* checksum of an operation's verified media
    Concurrency,  \* config.concurrency
    MaxAttempts,  \* config.max_attempts_per_operation
    MaxRetries,   \* config.max_retries_per_run
    MaxFaults,    \* bound on errors, cancellations and crashes in a behaviour
    None          \* Option::None

(***************************************************************************)
(* What UploadPlan::validate and the planner guarantee of a plan: an image *)
(* names a video of the plan, no two images share one, and relative paths  *)
(* are strictly ordered.                                                   *)
(***************************************************************************)
ASSUME PlanAssumption ==
    /\ Images \subseteq Ops
    /\ VideoOf \in [Images -> Ops \ Images]
    /\ \A i, j \in Images : VideoOf[i] = VideoOf[j] => i = j
    /\ Path \in [Ops -> Nat]
    /\ \A o, p \in Ops : Path[o] = Path[p] => o = p
    /\ Sha1 \in [Ops -> Checksums]
    /\ IsFiniteSet(Ops)
    /\ None \notin Ops \cup Checksums \cup {"unsent", "sent", "created", "duplicate"}
    /\ None \notin [by : Ops \cup {None}, link : Checksums \cup {None}]

ASSUME ConfigAssumption ==
    /\ Concurrency \in Nat \ {0}
    /\ MaxAttempts \in Nat \ {0}
    /\ MaxRetries \in Nat
    /\ MaxFaults \in Nat

Videos == {VideoOf[i] : i \in Images}
Groups == Ops \ Images
Members(g) == {g} \cup {i \in Images : VideoOf[i] = g}

\* The operation a group turns to after op, None at the end of its list.
After(op) ==
    IF op \in Videos THEN CHOOSE i \in Images : VideoOf[i] = op ELSE None

Success == {"created", "duplicate"}
Failure == {"failed", "indeterminate"}
Uncertain == {"lost"}                     \* Disconnect and Timeout
Retryable == {"server", "lost"}           \* with RateLimited and Server
ErrorClass == Retryable \cup {"fatal"}

VARIABLES
    \* --- outlives a run ---
    assets,     \* server: checksum -> [by, link] of its asset, or None
    late,       \* uploads abandoned by the client that the server may yet act on
    journal,    \* checkpoint: operation -> its latest event
    faults,     \* errors, cancellations and crashes still to come
    \* --- one run (apply_upload_inner) ---
    run,        \* "idle", "active" or "reported"
    cancelled,  \* the cancellation token
    used,       \* RetryBudget.used
    completed,  \* journal.completed() as read when the run started
    report,     \* ApplyReport
    \* --- one group (apply_group, operation::apply) ---
    pc,         \* where the group's future is
    cur,        \* the operation the group's loop is at, None after the last
    retries,    \* retries of the current operation
    videoId,    \* video_asset_id
    outcomes,   \* outcomes of the group not yet in the journal
    request     \* the current upload attempt: None, "unsent", "sent" or its status

runVars == <<run, cancelled, used, completed, report>>
groupVars == <<pc, cur, retries, videoId, outcomes, request>>
vars == <<assets, late, journal, faults, runVars, groupVars>>

UploadUnlinked(op, link) == [op |-> op, link |-> None]  \* mutant
Upload(op, link) == [op |-> op, link |-> link]
Event(kind, asset) == [kind |-> kind, asset |-> asset]
Outcome(op, kind, asset, n) ==
    [op |-> op, kind |-> kind, asset |-> asset, retries |-> n]

NewReport(resumed) ==
    [resumed |-> resumed, created |-> 0, duplicate |-> 0, failed |-> 0,
     indeterminate |-> 0, retried |-> 0, cancelled |-> FALSE]

PCs == {"absent", "pending", "next", "check", "checkWait", "upload",
        "uploadWait", "reconcile", "finished"}

OutcomeType ==
    [op : Ops, kind : Success \cup Failure, asset : Checksums \cup {None},
     retries : Nat]

AssetType == [by : Ops \cup {None}, link : Checksums \cup {None}]
UploadType == [op : Ops, link : Checksums \cup {None}]
EventType ==
    [kind : Success \cup Failure \cup {"none"}, asset : Checksums \cup {None}]
ReportType ==
    [resumed : Nat, created : Nat, duplicate : Nat, failed : Nat,
     indeterminate : Nat, retried : Nat, cancelled : BOOLEAN]

TypeOK ==
    /\ assets \in [Checksums -> AssetType \cup {None}]
    /\ late \subseteq UploadType
    /\ journal \in [Ops -> EventType]
    /\ faults \in Nat
    /\ run \in {"idle", "active", "reported"}
    /\ cancelled \in BOOLEAN
    /\ used \in Nat
    /\ completed \in [Ops -> Checksums \cup {None}]
    /\ report \in ReportType
    /\ pc \in [Groups -> PCs]
    /\ cur \in [Groups -> Ops \cup {None}]
    /\ retries \in [Groups -> Nat]
    /\ videoId \in [Groups -> Checksums \cup {None}]
    /\ outcomes \in [Groups -> Seq(OutcomeType)]
    /\ request \in [Groups -> {None, "unsent", "sent"} \cup Success]

-----------------------------------------------------------------------------
(* The checkpoint journal *)

Completed(op) == journal[op].kind \in Success

\* Mutant: a resumed run starts from an empty map.
NoAssets == [op \in Ops |-> None]

\* completed_assets: operations whose latest event is created or duplicate.
CompletedAssets ==
    [op \in Ops |-> IF Completed(op) THEN journal[op].asset ELSE None]

\* Journal::completed
JournalCompleted == CompletedAssets

\* pending_groups: a group with an operation still to complete is run.
GroupStarted(g) == ~Completed(g)          \* mutant: the video decides
Pending(g) == \E op \in Members(g) : ~Completed(op)

\* record_report
Count(out, kind) == IF out.kind = kind THEN 1 ELSE 0
Recorded(r, out) ==
    [r EXCEPT !.retried = @ + out.retries,
              !.created = @ + Count(out, "created"),
              !.duplicate = @ + Count(out, "duplicate"),
              !.failed = @ + Count(out, "failed"),
              !.indeterminate = @ + Count(out, "indeterminate")]

-----------------------------------------------------------------------------
(* The server (external) *)

\* Immich keeps one asset per checksum; a repeated body converges on it.
Stored(op, link) ==
    IF assets[Sha1[op]] = None
    THEN [assets EXCEPT ![Sha1[op]] = [by |-> op, link |-> link]]
    ELSE assets

\* The server acts on the body of the attempt a group is waiting for.
ServerCommit(g) ==
    /\ request[g] = "sent"
    /\ assets' = Stored(cur[g], videoId[g])
    /\ request' = [request EXCEPT ![g] =
           IF assets[Sha1[cur[g]]] = None THEN "created" ELSE "duplicate"]
    /\ UNCHANGED <<late, journal, faults, runVars, pc, cur, retries, videoId,
                   outcomes>>

\* The server acts on a body whose sender no longer waits for the answer.
LateCommit(u) ==
    /\ u \in late
    /\ late' = late \ {u}
    /\ assets' = Stored(u.op, u.link)
    /\ UNCHANGED <<journal, faults, runVars, groupVars>>

\* The attempts of the groups gs are abandoned by the client: one that was
\* sent and not yet acted upon may still reach the server.
Abandoned(gs) ==
    late \cup {Upload(cur[g], videoId[g]) : g \in {h \in gs : request[h] = "sent"}}

-----------------------------------------------------------------------------
(* A run: apply_upload_inner *)

Fault == faults > 0 /\ faults' = faults - 1

\* A group has returned its GroupResult: the loop is appending its outcomes
\* and polls no other group meanwhile.
Draining == \E g \in Groups : pc[g] = "finished"

InFlight == {g \in Groups : pc[g] \notin {"absent", "pending", "finished"}}

\* Journal::open, Journal::completed and pending_groups.
StartRun ==
    /\ run # "active"
    /\ run' = "active"
    /\ cancelled' = FALSE
    /\ used' = 0
    /\ completed' = JournalCompleted
    /\ report' = NewReport(Cardinality({op \in Ops : Completed(op)}))
    /\ pc' = [g \in Groups |->
           IF Pending(g) THEN "pending" ELSE "absent"]
    /\ UNCHANGED <<assets, late, journal, faults, cur, retries, videoId,
                   outcomes, request>>

\* buffer_unordered polls the next group, in path order, while there is room.
StartGroup(g) ==
    /\ pc[g] = "pending"
    /\ ~Draining
    /\ Cardinality(InFlight) < Concurrency
    /\ \A h \in Groups : pc[h] = "pending" => Path[g] <= Path[h]
    /\ pc' = [pc EXCEPT ![g] = "next"]
    /\ cur' = [cur EXCEPT ![g] = g]
    /\ UNCHANGED <<assets, late, journal, faults, runVars, retries, videoId,
                   outcomes, request>>

\* Mutant: the outcomes are popped from the end of the vector.
AppendLast(g) ==
    LET n == Len(outcomes[g])
        out == outcomes[g][n]
    IN /\ pc[g] = "finished"
       /\ outcomes[g] # <<>>
       /\ journal' = [journal EXCEPT ![out.op] = Event(out.kind, out.asset)]
       /\ report' = Recorded(report, out)
       /\ outcomes' = [outcomes EXCEPT ![g] = SubSeq(@, 1, n - 1)]
       /\ UNCHANGED <<assets, late, faults, run, cancelled, used, completed, pc,
                      cur, retries, videoId, request>>

\* One journal transaction per outcome, then record_report.
Append1(g) ==
    LET out == Head(outcomes[g]) IN
    /\ pc[g] = "finished"
    /\ outcomes[g] # <<>>
    /\ journal' = [journal EXCEPT ![out.op] = Event(out.kind, out.asset)]
    /\ report' = Recorded(report, out)
    /\ outcomes' = [outcomes EXCEPT ![g] = Tail(@)]
    /\ UNCHANGED <<assets, late, faults, run, cancelled, used, completed, pc,
                   cur, retries, videoId, request>>

\* Every outcome of the group is in the journal: the loop polls again.
Collect(g) ==
    /\ pc[g] = "finished"
    /\ outcomes[g] = <<>>
    /\ pc' = [pc EXCEPT ![g] = "absent"]
    /\ cur' = [cur EXCEPT ![g] = None]
    /\ videoId' = [videoId EXCEPT ![g] = None]
    /\ UNCHANGED <<assets, late, journal, faults, runVars, retries, outcomes,
                   request>>

EndRun ==
    /\ run = "active"
    /\ \A g \in Groups : pc[g] = "absent"
    /\ run' = "reported"
    /\ UNCHANGED <<assets, late, journal, faults, cancelled, used, completed,
                   report, groupVars>>

Cancel ==
    /\ run = "active"
    /\ ~cancelled
    /\ Fault
    /\ cancelled' = TRUE
    /\ UNCHANGED <<assets, late, journal, run, used, completed, report,
                   groupVars>>

\* The process dies, or a journal append fails and apply_upload_inner returns
\* the error: every group in flight is dropped with its outcomes.
Crash ==
    /\ run = "active"
    /\ Fault
    /\ run' = "idle"
    /\ late' = Abandoned(Groups)
    /\ pc' = [g \in Groups |-> "absent"]
    /\ cur' = [g \in Groups |-> None]
    /\ retries' = [g \in Groups |-> 0]
    /\ videoId' = [g \in Groups |-> None]
    /\ outcomes' = [g \in Groups |-> <<>>]
    /\ request' = [g \in Groups |-> None]
    /\ UNCHANGED <<assets, journal, cancelled, used, completed, report>>

-----------------------------------------------------------------------------
(* A group: apply_group *)

\* Mutant: the cancelled flag of a group's result is dropped.
FinishUnflagged(g, outs, c) ==
    /\ pc' = [pc EXCEPT ![g] = "finished"]
    /\ outcomes' = [outcomes EXCEPT ![g] = outs]
    /\ retries' = [retries EXCEPT ![g] = 0]
    /\ UNCHANGED <<cur, videoId, report>>

\* The group returns GroupResult { outcomes: outs, cancelled: c }.
Finish(g, outs, c) ==
    /\ pc' = [pc EXCEPT ![g] = "finished"]
    /\ outcomes' = [outcomes EXCEPT ![g] = outs]
    /\ retries' = [retries EXCEPT ![g] = 0]
    /\ report' = [report EXCEPT !.cancelled = @ \/ c]
    /\ UNCHANGED <<cur, videoId>>

\* The group's loop goes on with the operation after the current one.
Advance(g) ==
    /\ pc' = [pc EXCEPT ![g] = "next"]
    /\ cur' = [cur EXCEPT ![g] = After(cur[g])]
    /\ retries' = [retries EXCEPT ![g] = 0]
    /\ UNCHANGED report

With(g, kind, asset) ==
    Append(outcomes[g], Outcome(cur[g], kind, asset, retries[g]))

\* operation::apply returned Completed(outcome).
Conclude(g, kind, asset) ==
    IF cur[g] \in Videos /\ asset = None
    THEN Finish(g, With(g, kind, None), FALSE)
    ELSE /\ Advance(g)
         /\ outcomes' = [outcomes EXCEPT ![g] = With(g, kind, asset)]
         /\ videoId' = [videoId EXCEPT ![g] =
                IF cur[g] \in Videos THEN asset ELSE @]

\* operation::apply returned Cancelled(None) or Cancelled(Some(outcome)).
CancelGroup(g, outs) == Finish(g, outs, TRUE)

\* The head of the loop in apply_group.  Its two early failures, an image
\* without a video asset and an operation without verified media, are dead
\* code: UploadExecutor_proofs shows the first, and verify_source covers the
\* whole plan.
NextOperation(g) ==
    /\ pc[g] = "next"
    /\ ~Draining
    /\ \/ /\ cur[g] = None
          /\ Finish(g, outcomes[g], FALSE)
       \/ /\ cur[g] # None
          /\ cancelled
          /\ CancelGroup(g, outcomes[g])
       \/ /\ cur[g] # None
          /\ ~cancelled
          /\ completed[cur[g]] # None
          /\ Advance(g)
          /\ videoId' = [videoId EXCEPT ![g] =
                 IF cur[g] \in Videos THEN completed[cur[g]] ELSE @]
          /\ UNCHANGED outcomes
       \/ /\ cur[g] # None
          /\ ~cancelled
          /\ completed[cur[g]] = None
          /\ pc' = [pc EXCEPT ![g] = "check"]
          /\ UNCHANGED <<cur, retries, videoId, outcomes, report>>
    /\ UNCHANGED <<assets, late, journal, faults, run, cancelled, used,
                   completed, request>>

-----------------------------------------------------------------------------
(* One operation: operation::apply *)

At(g, loc) == pc[g] = loc /\ ~Draining

\* Everything an operation step leaves alone besides what it names itself.
OperationFrame == UNCHANGED <<journal, run, cancelled, completed>>

\* retry_allowed up to the claim, and RetryBudget::claim.
AttemptsLeft(g) == retries[g] + 1 < MaxAttempts
CanClaim == used < MaxRetries
RetryAllowed(g, class) == class \in Retryable /\ AttemptsLeft(g) /\ CanClaim
Claim == used' = used + 1

Wait(g, loc) ==
    /\ pc' = [pc EXCEPT ![g] = loc]
    /\ UNCHANGED <<cur, retries, videoId, outcomes, report>>

\* Mutant: an asset that was there already is reported as created.
CheckCreated(g) ==
    /\ At(g, "check")
    /\ assets[Sha1[cur[g]]] # None
    /\ Conclude(g, "created", Sha1[cur[g]])
    /\ OperationFrame
    /\ UNCHANGED <<assets, late, faults, used, request>>

\* duplicate_check answered: an asset with this checksum exists.
CheckDuplicate(g) ==
    /\ At(g, "check")
    /\ assets[Sha1[cur[g]]] # None
    /\ Conclude(g, "duplicate", Sha1[cur[g]])
    /\ OperationFrame
    /\ UNCHANGED <<assets, late, faults, used, request>>

\* duplicate_check answered: the upload is accepted.
CheckAccept(g) ==
    /\ At(g, "check")
    /\ assets[Sha1[cur[g]]] = None
    /\ Wait(g, "upload")
    /\ request' = [request EXCEPT ![g] = "unsent"]
    /\ OperationFrame
    /\ UNCHANGED <<assets, late, faults, used>>

CheckError(g, class) ==
    /\ At(g, "check")
    /\ Fault
    /\ IF RetryAllowed(g, class)
       THEN Claim /\ Wait(g, "checkWait")
       ELSE Conclude(g, "failed", None) /\ UNCHANGED used
    /\ OperationFrame
    /\ UNCHANGED <<assets, late, request>>

\* The cancellation wins the race against the answer or against the delay.
CheckCancelled(g) ==
    /\ At(g, "check") \/ At(g, "checkWait")
    /\ cancelled
    /\ CancelGroup(g, outcomes[g])
    /\ OperationFrame
    /\ UNCHANGED <<assets, late, faults, used, request>>

\* retry::wait ran to its end: the loop starts over with the duplicate check.
RetryDelayOver(g) ==
    /\ At(g, "checkWait") \/ At(g, "uploadWait")
    /\ pc' = [pc EXCEPT ![g] = "check"]
    /\ retries' = [retries EXCEPT ![g] = @ + 1]
    /\ OperationFrame
    /\ UNCHANGED <<assets, late, faults, used, report, cur, videoId, outcomes,
                   request>>

\* ImmichUploadClient::upload passes check_cancelled and sends the body.
SendUpload(g) ==
    /\ At(g, "upload")
    /\ request[g] = "unsent"
    /\ ~cancelled
    /\ request' = [request EXCEPT ![g] = "sent"]
    /\ OperationFrame
    /\ UNCHANGED <<assets, late, faults, used, report, pc, cur, retries,
                   videoId, outcomes>>

UploadOk(g) ==
    /\ At(g, "upload")
    /\ request[g] \in Success
    /\ Conclude(g, request[g], Sha1[cur[g]])
    /\ request' = [request EXCEPT ![g] = None]
    /\ OperationFrame
    /\ UNCHANGED <<assets, late, faults, used>>

\* The attempt ends without an answer the client can use.  A refusal is the
\* server's last word on it; after any other error it may still be stored.
UploadError(g, class) ==
    /\ At(g, "upload")
    /\ Fault
    /\ late' = IF class \in Retryable THEN Abandoned({g}) ELSE late
    /\ request' = [request EXCEPT ![g] = None]
    /\ \/ /\ RetryAllowed(g, class)
          /\ Claim
          /\ Wait(g, "uploadWait")
       \/ /\ ~RetryAllowed(g, class)
          /\ class \in Uncertain
          /\ Wait(g, "reconcile")
          /\ UNCHANGED used
       \/ /\ ~RetryAllowed(g, class)
          /\ class \notin Uncertain
          /\ Conclude(g, "failed", None)
          /\ UNCHANGED used
    /\ OperationFrame
    /\ UNCHANGED assets

UploadCancelled(g) ==
    /\ At(g, "upload") \/ At(g, "uploadWait")
    /\ cancelled
    /\ late' = Abandoned({g})
    /\ request' = [request EXCEPT ![g] = None]
    /\ CancelGroup(g, With(g, "indeterminate", None))
    /\ OperationFrame
    /\ UNCHANGED <<assets, faults, used>>

\* reconcile_uncertain: the final duplicate check found the asset.
ReconcileDuplicate(g) ==
    /\ At(g, "reconcile")
    /\ assets[Sha1[cur[g]]] # None
    /\ Conclude(g, "duplicate", Sha1[cur[g]])
    /\ OperationFrame
    /\ UNCHANGED <<assets, late, faults, used, request>>

\* Mutant: any answer to the final duplicate check counts as a duplicate.
ReconcileAssumed(g) ==
    /\ At(g, "reconcile")
    /\ Conclude(g, "duplicate", Sha1[cur[g]])
    /\ OperationFrame
    /\ UNCHANGED <<assets, late, faults, used, request>>

\* reconcile_uncertain: it answered "accept", failed, or was cancelled.
ReconcileUnknown(g) ==
    /\ At(g, "reconcile")
    /\ \/ (assets[Sha1[cur[g]]] = None \/ cancelled) /\ UNCHANGED faults
       \/ Fault
    /\ IF cancelled
       THEN CancelGroup(g, With(g, "indeterminate", None))
       ELSE Conclude(g, "indeterminate", None)
    /\ OperationFrame
    /\ UNCHANGED <<assets, late, used, request>>

-----------------------------------------------------------------------------
Init ==
    /\ assets \in [Checksums -> {None, [by |-> None, link |-> None]}]
    /\ late = {}
    /\ journal = [op \in Ops |-> Event("none", None)]
    /\ faults = MaxFaults
    /\ run = "idle"
    /\ cancelled = FALSE
    /\ used = 0
    /\ completed = [op \in Ops |-> None]
    /\ report = NewReport(0)
    /\ pc = [g \in Groups |-> "absent"]
    /\ cur = [g \in Groups |-> None]
    /\ retries = [g \in Groups |-> 0]
    /\ videoId = [g \in Groups |-> None]
    /\ outcomes = [g \in Groups |-> <<>>]
    /\ request = [g \in Groups |-> None]

\* A step of the executor's own code or of a request it waits for.
GroupStep(g) ==
    \/ StartGroup(g)
    \/ NextOperation(g)
    \/ CheckDuplicate(g)
    \/ CheckAccept(g)
    \/ CheckCancelled(g)
    \/ RetryDelayOver(g)
    \/ SendUpload(g)
    \/ UploadOk(g)
    \/ UploadCancelled(g)
    \/ ReconcileDuplicate(g)
    \/ ReconcileUnknown(g)
    \/ Append1(g)
    \/ Collect(g)
    \/ \E class \in ErrorClass : CheckError(g, class) \/ UploadError(g, class)

Next ==
    \/ StartRun
    \/ EndRun
    \/ Cancel
    \/ Crash
    \/ \E g \in Groups : GroupStep(g) \/ ServerCommit(g)
    \/ \E u \in late : LateCommit(u)

Spec == Init /\ [][Next]_vars

(***************************************************************************)
(* Fairness.  The run's task is polled until it ends, every request has a  *)
(* client timeout, and a server that is not failing (a failure is a fault) *)
(* acts on what it receives.                                               *)
(***************************************************************************)
RunFairness ==
    /\ WF_vars(EndRun)
    /\ \A g \in Groups : WF_vars(GroupStep(g)) /\ WF_vars(ServerCommit(g))

FairSpec == Spec /\ RunFairness

\* The operator applies the plan again after every run.
RerunSpec == FairSpec /\ WF_vars(StartRun)

-----------------------------------------------------------------------------
(* Safety *)

\* A completed event in the checkpoint names the asset of the operation's own
\* media, and the server holds it: completed_assets may be trusted on resume,
\* whatever was lost, late or interrupted before the event was written.
CompletedOnServer ==
    \A op \in Ops : Completed(op) =>
        journal[op].asset = Sha1[op] /\ assets[Sha1[op]] # None

\* A live-photo image is never complete in the checkpoint before its video,
\* even when the process dies between the two appends of a group.
ImageAfterVideo ==
    \A i \in Images : Completed(i) => Completed(VideoOf[i])

\* An asset made from an image operation's body carries the identity of its
\* own video's asset, and that asset exists: also for a body the server acts
\* on after the client gave up.
LinkedToVideo ==
    \A c \in Checksums :
        (assets[c] # None /\ assets[c].by \in Images) =>
            LET own == Sha1[VideoOf[assets[c].by]] IN
            assets[c].link = own /\ assets[own] # None

\* "created" is recorded only by the operation whose body made the asset:
\* operations with equal media, repeated bodies and late ones never make the
\* journal credit two operations, or the wrong one, with one asset.
CreatedByOperation ==
    \A op \in Ops : journal[op].kind = "created" =>
        assets[Sha1[op]] # None /\ assets[Sha1[op]].by = op

\* The report accounts for the checkpoint: resumed, created and duplicate
\* together are exactly the operations complete in the journal.
ReportMatchesJournal ==
    run # "idle" =>
        Cardinality({op \in Ops : Completed(op)}) =
            report.resumed + report.created + report.duplicate

\* A run that reports no failure, nothing indeterminate and no cancellation
\* has completed the whole plan: no operation is silently skipped.
CleanReportMeansComplete ==
    (/\ run = "reported"
     /\ report.failed = 0
     /\ report.indeterminate = 0
     /\ ~report.cancelled) => \A op \in Ops : Completed(op)

\* The retries claimed for the operation a group is at, the one it waits to
\* make included, and those of the outcomes it has gathered, numbered.
Held(g) == retries[g] + IF pc[g] \in {"checkWait", "uploadWait"} THEN 1 ELSE 0
HeldRetries(g) == {<<cur[g], n>> : n \in 1..Held(g)}
OutcomeRetries(out) == {<<out.op, n>> : n \in 1..out.retries}
GroupRetries(g) ==
    HeldRetries(g) \cup UNION {OutcomeRetries(outcomes[g][k]) : k \in DOMAIN outcomes[g]}
Unreported == UNION {GroupRetries(g) : g \in Groups}

\* Every repeated attempt was claimed from the run's shared budget, by
\* whichever group made it, and the budget is never overdrawn.
RetriesWithinBudget ==
    run # "idle" =>
        /\ report.retried + Cardinality(Unreported) <= used
        /\ used <= MaxRetries

\* What the report says is true: its counters account for the journal and for
\* every retry, and a clean report is one of a complete plan.
ReportIsTrue == ReportMatchesJournal /\ CleanReportMeansComplete /\ RetriesWithinBudget

-----------------------------------------------------------------------------
(* Liveness *)

\* Applying the plan again and again converges once the faults are over,
\* and stays there.
Convergence == <>[](\A op \in Ops : Completed(op))

-----------------------------------------------------------------------------
(* Refinement *)

\* The executor implements the ledger: the checkpoint grows by one completed
\* operation at a time, each stored before it is recorded, and forgets none.
Ledger == INSTANCE UploadLedger WITH
    stored <- {c \in Checksums : assets[c] # None},
    recorded <- CompletedAssets

LedgerSpec == Ledger!Spec
=============================================================================
