# A TLA+ verification of immich-rs

immich-rs moves photo libraries into an Immich server. It scans a source, makes
an immutable plan, applies the plan with a durable checkpoint, and optionally
does all of this behind a small operator web console. This directory holds TLA+
modules of the parts whose correctness depends on the order of things: what
happens when an answer is lost, a process dies, a session logs out, a thread
sleeps through a notification. TLC checks them on small instances; TLAPS proves
the most important properties for every instance.

## The system

### Parts, their state, and how they interact

| Part | Code (`src/crates`) | State | Operations |
| --- | --- | --- | --- |
| Folder upload executor | `immich-executor`: `apply.rs`, `operation.rs`, `retry.rs` | groups in flight, retry budget, outcomes not yet written, report | apply a plan, retry, reconcile, cancel |
| Upload checkpoint journal | `immich-executor/src/journal.rs` | append-only events in SQLite, bound to one plan | open, append, completed |
| Upload client | `immich-client`: `upload.rs`, `error.rs`, `response.rs` | none (requests in flight) | duplicate check, upload |
| Upload plan | `immich-core/src/upload.rs`, `immich-executor/src/planner.rs`, `verify.rs` | immutable | create, validate, verify against the source |
| Import executor | `import_apply.rs`, `import_effects.rs`, `import_journal*.rs`, `import_staging*.rs` | effects journal, staging directory | upload, set metadata, converge albums and memberships |
| Migration | `migration_*.rs`, `immich-client/src/migration.rs` | inventory of the old server, plan, staging, the import journal | list, look up again, plan, verify, download to staging, upload, album |
| Archive download | `archive_apply.rs`, `archive_plan.rs`, `immich-client/src/archive.rs`, `immich-application/src/archive.rs` | manifest, files and part files | list pages, look up videos, download, verify, rename |
| Sources | `immich-sources` | the findings of one scan | list, read, merge archive parts, match sidecars, pair live photos, collapse copies, plan |
| Web job manager | `immich-web`: `jobs.rs`, `jobs/worker.rs`, `jobs/apply_admission.rs` | job table, counters, worker threads, capabilities, active checkpoints | admit, begin, finish, cancel, evict, shut down |
| Job events | `jobs/subscription.rs`, `events_http.rs` | replay window and broadcast channel per job, subscriber leases | subscribe, next, drop |
| Grants and receipts | `grants.rs`, `state_store.rs`, `state_store/history/receipts.rs`, `jobs/apply.rs`, `jobs/dry_run.rs` | receipts (durable), grants and spent receipts (process), checkpoint file | dry run, confirm, admit, revoke, apply |
| State store | `state_store/history.rs`, `plan_store.rs`, `plan_io.rs` | history rows, plan and binding files | record, retain, publish, load, remove |
| Sessions, OIDC | `auth.rs`, `oidc*.rs`, `oidc/` | sessions, bootstrap, login flows | pair, log in, authenticate, expire, log out |
| Facade, CLI, server, views, TLS, metrics, profiles | `immich-application`, `immich-cli`, rest of `immich-web` | configuration | validation, I/O |

The command line calls the executor directly. In the console, an HTTP handler
admits a job under the job manager's mutex; the job has a thread of its own,
which waits on a condition variable for its turn, works without the lock, writes
its terminal history row and takes the lock again to finish. A production apply
goes dry run -> receipt -> confirmation -> grant -> admission -> job ->
checkpoint -> executor, with the grant's lock held across the admission.
Cancellation is a token the executor polls and races against its requests.

### What is hard, and what correctness means

* **Uploads.** A request whose answer is lost may have been acted on, or may be
  acted on later. The journal is written after the server acts, so a crash may
  fall between. Groups run concurrently and may carry equal bytes. Correct means:
  what the journal calls complete is on the server; an image is never complete
  before its video and is always linked to it; `created` is said of one
  operation only, and truly; the report accounts for the journal; the retry
  budget is kept; runs end; repeated runs converge.
* **Imports and migrations.** Four kinds of effect per plan, each durable on its
  own; a create is not idempotent; the checkpoint read at the start decides what
  is skipped. Correct means: every effect the journal calls durable is on the
  server, albums are touched after all assets are durable, nothing durable is done
  again, the report accounts for the journal, staged media never accumulates,
  runs end, repeated runs converge.
* **Inventories and archives.** A listing is many requests to a server that goes
  on changing; an archive is many files in a directory that outlives the process.
  Correct means: an undisturbed inventory is exact, a live photo is never split, a
  file under its final name is whole, the report is true, reruns complete the
  archive.
* **Scans and plans.** Files change while they are read; archive parts come in any
  order; matching, albums and the collapse of copies build on each other. Correct
  means: no mixture of two contents goes unreported, the order of parts does not
  matter, nothing the export says of a photo is lost, and a plan can be executed.
* **Jobs.** Callers and worker threads take one mutex in any order; part of a
  job's end happens outside it. Correct means: the counters that decide on
  admission are exact, the limits hold, two unfinished jobs never share a
  checkpoint, job table, history and plan store agree, no worker sleeps through
  its wake-up, shutdown returns.
* **Event streams.** A bounded window, a bounded channel and a session that may
  end at any moment. Correct means: no event is skipped in silence, leases are
  returned, a stream ends when nothing more will come.
* **The state store.** A plan is two files, its record a row in a database; power
  may fail between any two steps. Correct means: what was recorded can be loaded,
  the newest receipts are kept, the directory grows past its bound by no more than
  what the workers had in hand.
* **Sessions and grants.** Authorisation is checked in several places at several
  times, with state that partly survives a restart. Correct means: a login makes
  one session, a receipt admits one job, an old receipt never reopens a
  checkpoint, the two time limits of an authorisation add up to no more than
  they say and the second of the dry run, and logout ends it.

`PROJECT.json` lists these hazards at their lines.

## Modules

| Module | Contents |
| --- | --- |
| `UploadLedger` | Abstract specification: what an upload plan promises. Assets are stored, operations are recorded once each, after their asset is stored and after their dependency. |
| `UploadExecutor` | The executor, the journal, the client's view of a request, and the server's two endpoints. Implements `UploadLedger`. |
| `ImportExecutor` | The import and migration executor: operations, metadata, albums and memberships one after another, with their journal and staging. Its assets implement `UploadLedger`. |
| `RemoteInventory` | The read-only inventory of a changing server, and the archive manifests and migration plans made from it. |
| `ArchiveApply` | Extends `RemoteInventory` with the download of a manifest: the whole archive path. |
| `Reconcile` | Pure: from the findings of a scan to a normalized plan and an upload plan, for the four sources. |
| `SourceScan` | Extends `Reconcile` with the scan itself: directories with writers at work, archive parts in any order, planning. |
| `WebJobs` | The job manager with its worker threads, callers, history rows and plan store. |
| `JobEvents` | Replay windows, channels, streams and leases. |
| `StateStore` | The plan directory and the database under workers, faults and power loss. |
| `ApplyGrants` | Receipts, grants, admissions, the checkpoint file and the apply job of one stored plan. |
| `Console` | Extends `ApplyGrants` with sessions, pairing, OIDC logins and the requests of a session. |
| `MC*` | Instances for TLC. |
| `*_proofs` | Inductive invariants and proofs about `UploadExecutor`, `ImportExecutor`, `WebJobs`, `JobEvents`, `StateStore`, `Console` with `ApplyGrants`, `ArchiveApply` with `RemoteInventory`, and `SourceScan` with `Reconcile`. |

In the component modules, definitions marked "mutant" are plausible wrong
versions of the definition after them. No specification uses them; they show for
each property that it would notice such a mistake.

### UploadExecutor

`apply_upload_inner` runs its groups as futures of one task, so between two
awaits a group's code is one action; the variable `pc` names the await a group
is at. `check` and `reconcile` are the two uses of `duplicate_check`, `upload`
is `ImmichUploadClient::upload` (with `request` for whether the body was sent
and whether the server has acted), `checkWait` and `uploadWait` are the retry
delays. When a group has returned, the loop appends its outcomes and polls no
other group (`Draining`). Each append is one transaction, so a crash may fall
between two of them.

A group is named by its first operation; a live-photo pair is one group, video
first. `assets` maps a checksum to the server's asset, with the operation whose
body made it and the video it was linked to; the identity of an asset is its
checksum, because the server keeps one asset per checksum. `late` holds bodies
whose sender has given up: `LateCommit` lets the server act on them at any later
time or never, also during a later run. `Crash` stands for the death of the
process and for a failing append, both of which drop everything in flight.

Abstractions: error classes are three (`lost` for disconnects and timeouts,
`server` for the other retryable ones, `fatal`); a retry delay takes some time;
the journal is the latest event per operation, which is all `completed_assets`
reads; the source is verified before a run starts and does not change. The model
assumes of a plan what `UploadPlan::validate` and the planner establish. One
part of that, no two images with the same video, is enforced only by the planner.
Two early failures in `apply_group`, an image without a video's asset and an
operation without verified media, cannot happen and have no action.

### ImportExecutor

`apply_import_inner` and `apply_migration` are the same loop over different
staging, so one module stands for both. The run is sequential: `pc` names the
head of a loop or the request under way, `request` how far that request is
(`ready` to be sent, `sent`, acted upon, or `wait` for the retry delay), `visited`
what the current loop has taken up. The head of a loop, an effect's early returns
and the journal append after an answer are each part of one action. `check`,
`upload` and `final` are `operation::apply`, as in `UploadExecutor` but without
concurrency; `lookup`, `create` and `relook` are `converge_album`, where a failed
create leads to a second listing before it may be retried. The journal is the
latest event of each effect; `state` is the copy a run reads when it starts.

The server keeps one asset per checksum, assigns metadata exactly, adds members,
and makes a new album for every create; an album's id is its position. A request
that was sent and given up stays in `late`, equal creates as separate copies.
`done` in the report stands for the six counters of effects made durable. Staging
is the set of operations whose media is on disk: `Prepare` adds the one at hand,
every way out of the operation removes it, a dying process leaves it behind.
Operations with equal media are allowed by the assumptions; `MetadataOnServer`
then says that one of their assignments is in place. What the owner does to
albums during an import is left out.

### RemoteInventory and ArchiveApply

An inventory is one request per action: `ListPage` (with the checks of total and
limit), `FetchRelated` for a live-photo video no page has shown, and for a
migration `Recheck`, `AlbumHeaders` (with the number of members that a header gives,
compared with the limit for all albums at once rather than for each in its turn),
`AlbumPage` and `VerifyOriginal`; `Assemble`
makes the migration plan, or compares it with the given one (`verify`, which is
`verify_current_source` of `migration_apply.rs`). Between any two of them `Change`
or `ChangeAlbum` may alter the server. An asset's name, length and checksum are
one value, `facts`; what the listing does not compare is `meta`. The server lists the
assets of a search by their `Rank`, and pages are cut from that list by position.
`touched`, `selection` and `links` are history variables for the properties.

`ArchiveApply` takes the manifest's assets in order: `todo` is the set of those the
run has not passed, and the least of them is at hand. `NextAsset` verifies what is
under the final name or removes a stale part file; `Open`, `Chunk`, `Verify` and
`Rename` are the awaits of a download; every error removes the part file. A file
records the facts of the body it holds, how many chunks, and whether it was
synced. `Crash` keeps the directory; `PowerLoss` loses chunks that were not synced
and may undo any rename, since the directory is never synced. A file of somebody
else may be in the way from the start. Rename over a file that appeared after the
check is not modelled: nobody else writes final names during a run.

### Reconcile and SourceScan

Names are records of what the code reads from them: stem, number, extension, case
for media; base, number and how much of the supplemental marker is left for
sidecars. The matching rules are set comprehensions over these. `Reconcile` has no
state; its operators bear the names of the functions they model. Text is
abstracted: what a JSON or INI document says is a function of its content
(`DocOf`, `IniOf`), Unicode normalization is that two native names share a path.
The code merges the copies of a file into a canonical record one after the other;
`merge_alias` says what that leaves: paths and albums add up, and metadata remain
only while all copies that have some agree, in whatever order they come.

`SourceScan` walks a tree (`ListDirectory`, `Stat`, `Open`, `Read`, `Recheck`) while
`WriterChanges` writes in place, replaces or removes files; a digest is the sequence
of blocks that were read, so a mixture of two contents shows. The entries of
archive parts are read in any order (`ReadEntry`), which covers every order of
parts and of entries. `ParseSidecar` reads a Takeout document again later, as the
code does. `Finish` reconciles and validates; `Create` makes the upload plan.
Apple and Picasa parts compare entry times as well as bytes; Takeout parts do not.
The scan ends in every behaviour at `done`; deadlock is not checked there.

### WebJobs

One action per critical section of the mutex; `thread` says where a worker is:
waiting in `begin`, executing, recording its row, finishing. `notify_all` moves
every waiting worker back to the head of `begin`'s loop. Spurious wake-ups are left
out, so the liveness results do not rest on them. What a job does is abstracted to
its outcome. A completed plan job leaves its plan in the store; a failed one may
leave it too, when `PlanStore::write` fails after both names are linked
(`plan_store.rs:158`, `plan_io.rs:12-13`). A failed history write either left no row
or (a failure in the retention that follows the commit) did leave it; the worker
then removes the plan, and ignores it when the removal fails (`worker.rs:263`). Each
of these failures costs one of `MaxFaults`. Job owners are left out: a foreign job
is one the caller does not see. Poisoned mutexes are left out: nothing panics while
it holds the lock. Job n is the n-th one admitted, so the deque of retained jobs is
the set `order`, and the oldest of it are those with the least numbers.

### JobEvents

An event is its sequence number. `SelectReplay` cuts the window after the cursor,
whose numbers follow each other. `PushEvent` runs under the lock and keeps the
window; the channel is the position of each receiver relative to the sequence, and
a receiver that falls behind by more than the capacity gets `Exhausted` and ends.
`next()` is two steps, since the handler checks the session before it and again
after it: `Poll` obtains a delivery, `Yield` hands it to the client. `Drop` is the
drop of the lease, on every way out. A client connects again with any cursor.

### StateStore

One action per operation on the directory: pending files are written and synced, the
bound is checked, the two names are linked and the pending ones removed, the
directory is synced. `check_store_bound` reads the directory entry by entry and
without a lock, so it is two steps with the steps of other workers in between:
`StartScan` keeps in `seen` what is there, and `EndScan` counts at least what is
there still. Entries that come or go during the scan may be met or missed, and one
that goes between its listing and its `stat` fails the scan, so a scan may also end
in a refusal. `Crash` keeps or loses each directory entry changed since the last
sync, independently; killing the process is the case in which it keeps them all. A
transaction is one action. `Stamp` takes the time of a row before the row's turn, so
rows of two workers may come in the other order. `Fault` fails one operation where
the code has a path for it. The two tables are sets of rows that carry their number;
retention keeps a fresh row with fewer than `RetainedRows` newer ones, by number for
the history, by completion and then number for receipts.

### ApplyGrants

A confirmation is three steps: `CallConfirm` looks at the monotonic clock, `Prepare`
reads the stores and the wall clock, `Confirm` takes the lock. An admission is two:
`CallAdmit` looks at the clock, `Admit` (or its refusals) takes the lock. Any time may
pass between the steps of a call, as it may while a thread waits for the lock.
`current` is the set of receipts which
`binding_is_current` accepts; `Drift` covers everything that ends this (retention,
a changed plan, source, profile, credential or backup). The checkpoint file has a
creation and a modification time: initialisation and closing of the database
write to the file, appends go to the log and reach it at unpredictable times
(`WriteBack`), and a killed process may leave all of it in the log. `runs` and
`settled` are history variables: the receipts of the runs that opened the
checkpoint, and which of these runs changed the file's time.

Time is counted in instants, `Second` of them to a second. Deadlines are instants of
the monotonic clock; receipts, the age of a receipt and the time of the checkpoint
file are whole seconds of the wall clock (`Unix`). The two clocks advance together:
jumps of the wall clock are left out. The age in whole seconds of a receipt may be
`R` when `R` seconds and almost one more have passed since the dry run.

### Console

`Console` extends `ApplyGrants`: an owner there is the binding of a session here.
Handlers are one step per lock they take. `Logout` and `EstablishSession` remove a
session and `Revoke` revokes its grants afterwards; a request that authenticated
before goes on between and after: `ConfirmRequest` and `ApplyRequest` authenticate
and then begin the calls of `ApplyGrants`. Sessions, the pairing code and login
states expire by a clock that is read in the step that looks at them. An OIDC
callback takes its state in one step and establishes the session in a later one,
with the provider's answers in between, which succeed (`EstablishSession`) or fail
(`CallbackFails`); the answer may belong to another login, and the nonce is
compared. A browser sends any cookie it ever got. Bindings never recur, being
digests of random tokens.

## Runs

| Run | Configuration | Result |
| --- | --- | --- |
| `upload_runs` | `UploadExecutor_runs.cfg` | safety, refinement and convergence hold |
| `import_runs` | `ImportExecutor_runs.cfg` | safety, refinement and convergence hold |
| `import_creates` | `ImportExecutor_creates.cfg` | violated (finding 1) |
| `jobs_safety`, `jobs_live` | `WebJobs_*.cfg` | safety and liveness hold |
| `console` | `Console_access.cfg` | holds |
| `grants_killed` | `ApplyGrants_killed.cfg` | violated (finding 2) |
| `events` | `JobEvents_stream.cfg` | safety and liveness hold |
| `store` | `StateStore_disk.cfg` | holds |
| `archive` | `ArchiveApply_path.cfg` | safety and convergence hold |
| `archive_drift` | `ArchiveApply_drift.cfg` | violated (finding 3) |
| `scan` | `SourceScan_plan.cfg` | holds |

Several properties are conjunctions of named parts that would otherwise need the
same exploration again: `ReportIsTrue` (`ReportMatchesJournal`,
`CleanReportMeansComplete`, in `UploadExecutor` also `RetriesWithinBudget`),
`AlbumsAgree` (`AlbumsAfterAssets`, `CreatedAlbumIsOurs`, `MembersInAlbum`),
`CheckpointIsLedger` (`LedgerSpec`, `DurableEffectsKept`), `RunsConverge`
(`RunTerminates`, `Convergence`), `AccountingExact` (`CountersExact`, `LimitsHold`)
and `ApplyJobsExclusive` (`OneApplyPerPlan`, `CheckpointsExact`, `CapabilityHeld`).

**What the newer runs say.**

* `QuietIsExact`: without a change of the server, an inventory of any page size finds
  exactly the reference set, written down independently of pages, and fails only
  for a reason; a migration plan passes its verification only if it is still what
  the server holds. `PairsComplete`: whatever changes, a manifest has the video of
  every link that any page has shown.
* `FinalIsComplete`, `ReportIsTrue`, `Convergence`: a file under a final name is whole,
  a report means that all of them are, and reruns get there from whatever a crash
  or a power loss left, as long as the server still has the originals and nobody
  put another file in the way.
* `UnreportedIsWhole`: a digest in a plan is that of a content the file has had, or
  the plan reports the file as changed. `MergeIsOrderFree`: what an archive scan
  finds, and which paths conflict, does not depend on the order. `NothingLost`: in a
  Takeout plan without errors every album and every value that an export holds for
  any copy of a photo is on the asset that stands for it. `PlanIsExecutable`: a
  plan made from a scan without errors is invalid only for an empty file, and its
  live-photo roles form pairs. (A source that changed since the scan and metadata
  that the server cannot take are refusals of their own, before there is a plan.)
* `NoGap`, `LeasesExact`, `StreamsEnd`: streams follow their cursor without a gap,
  counters are the open streams, and a stream ends once its job or its session has.
* `PlansLast`: a plan whose row was committed is complete on disk, now and after a
  power loss, until its own job removes it because the history failed.
  `ReceiptsAreNewest`: a receipt handed out stays until it expires or enough later
  ones displace it. `PublishedWithinBound`: a scan beside a publication may miss both
  names of a file, the pending one that goes and the final one that comes; still the
  published files exceed the bound by no more than two for each other worker, and do
  not grow from there.
* `ArtifactsAgree`: a plan job seen as completed has its plan; a plan without a
  completed row belongs to a job seen as failed, and there are no more of them than
  failures of the plan store.
* `AuthorizationIsFresh`: when the request of an admitted job looked at the clock,
  `dry_run_receipt_seconds` and `production_grant_seconds` together had not passed since
  the end of the second in which the dry run ended. From the dry run itself up to one
  second more may have passed, since ages are whole seconds; and how long the request
  then waits for the lock is not bounded.
* `LogoutIsFinal`: after a logout or a rotation no job is admitted for the session,
  though a confirmation in flight may leave a grant. `OneSessionPerLogin`: repeated
  callbacks make one session.

**Bounds.** The upload instance has a pair and a standalone file with the image's
bytes, two groups at once, so both kinds of group, the dependency and the race for
one asset occur; three faults allow an attempt to be lost, retried and lost again,
or lost, crashed and resumed; the retry budget of two is smaller than what the
groups may want together. The server starts with any subset of the media. The import
instance has the same pair and single asset with bytes of its own, two of them with
metadata and in one album, staged from an archive, and an owner with no or one album
of that name; a second one comes from late creates; two attempts per operation and
one retry per run let two faults exhaust either limit, so that the final duplicate
check after an uncertain upload is reached. Three jobs are one more than fits beside
the running one, so that refusal, eviction and a waiting head occur; the safety run
has one slot, one place in the queue and room for two retained jobs, the liveness
run two slots; two faults let a plan job fail and keep its plan beside a history
write that fails, or both befall one job. The console has two bindings for one place
of a session, two logins, two peers, a restart and lifetimes of one second, on a
clock of two instants to the second that starts within a second and goes on for two
more: ages and deadlines pass and fail on both sides of their boundaries, and a
confirmation in the last instant of its second is used in the last instant of its
grant. The streams have a replay window and a channel of one event for three events,
two clients of one session and one of another, and limits that bite. The store has
three jobs for two workers, three references, room for three entries (a plan and
half of another, so that a scan that misses nothing refuses the second plan and one
beside a publication may pass it), one retained row, one fault and one crash. The
archive has a live-photo pair with or without a single image, pages of one asset,
one change, two failures, and room for three assets, which a selection of all
visibilities exceeds when there are three; the tree of the scan has eight names of
which every subset is tried, with one change, and eighteen entries of which any four
are read in any order, so that three copies of one path, or a document and two
copies, occur. Both keep limits (`MaxAssets`, `MaxEntries`, `MaxDirectoryEntries`)
within reach. Where receipts, keys, clocks or entries are used up a model may stop,
and deadlock is not checked.

**Fairness.** `UploadExecutor`: the task is polled and each request ends, by an
answer or by the client's timeout (a timeout is one of the bounded faults), and
the server acts on a body it received unless that is a fault: weak fairness of
each group's steps, of `ServerCommit` and of `EndRun`. Late bodies need never
arrive. `ImportExecutor` assumes the same of its one task and of `ServerActs`. The
`Convergence` properties, that of `ArchiveApply` too, add that the operator runs the
plan again. `WebJobs`: weak fairness of each worker thread and of shutdown's joins;
`FairSpec` adds that the work of a job ends. `JobEvents`: the server polls a stream
whose client reads, and `recv` is bounded by the heartbeat interval, so each poll
returns. Nothing is assumed of operators otherwise, of cancellation, panics,
changes of the server or writers.

## Findings

1. *More albums than the plan says.* ADR-0028 calls the sum of the plan's uploads,
   assignments, album creates and memberships "the maximum possible server
   mutation count". A create whose answer is lost is followed by one listing and,
   if that finds nothing, by another create; when the server acts on the first
   one only then, it holds two albums of the name. If the second answer is lost
   too, every later run finds the name ambiguous and needs the owner.
2. *Resume without a new dry run.* ADR-0033 promises a new dry run for each
   resume. After a resumed run is killed, the time of the checkpoint file may
   still be the one of the run before, since the run's events are in the
   write-ahead log; the spent receipts are gone with the process, and the same
   receipt can be confirmed again.
3. *Pagination drift passes.* ADR-0024 says that pagination drift fails closed.
   Pages are cut by position: when an asset of an earlier page is deleted between
   two requests, an asset that did not change slips to a page already read, and
   the manifest is made without it. Duplicates from the opposite drift collapse.

Smaller observations, without a run of their own:

* `ApplyReport::failed` counts "Operations with a definite failure"
  (`apply_report.rs:25`), but an upload whose answer was lost and whose next
  duplicate check fails for good is counted there too (`operation.rs:59`). The next
  run finds the duplicate, so nothing is lost but the report.
* `docs/web-console-resources.md:79` promises that only a receipt later than the
  checkpoint's creation authorises a resume. Two receipts confirmed before the first
  run both admit a job: receipt and checkpoint are compared in `prepare` alone.
* With two slots `begin` takes one without notifying, so the next worker in the
  queue may leave the other one empty until some job ends. Every job still ends.
* Two processes that archive into one directory can put an incomplete file under a
  final name: one removes the other's part file as stale, the other renames the new
  one. With two `Runners` TLC finds it in a dozen steps. The checksum of the next run
  finds the file.
* The bound of the plan directory may be exceeded by two files for each further
  worker, since the scan of `check_store_bound` holds no lock against publications
  (`plan_store.rs:167-186`). A console started then refuses to open its store.
* A failed plan job may leave its plan published (`plan_store.rs:158`,
  `worker.rs:263`). Nothing removes it, and it counts against the directory's bound.
* Pending files that a power loss left count against the plan directory's bound, and
  nothing removes them: at the bound the store refuses to open until an operator
  does (`plan_store.rs:167`, `state_store.rs:55`).
* ADR-0022 says that the order of archives has no semantic effect. The warnings differ
  between x, x, y and x, y, x of one path; both plans have the conflict as an error.
* An empty media file passes the scan and makes the whole upload plan invalid. A
  directory whose name is no album title, or an untitled album document at the root,
  makes the whole scan fail. An album document in a directory without media is
  dropped without a diagnostic. When only the image of a pair has a copy elsewhere,
  collapsing copies can separate it from its video, and both are uploaded unpaired.

## Proofs

TLAPS proves the following for every value of the constants: every plan, library
and configuration, any number of jobs, sessions, clients and workers, and any
number of faults, crashes and changes. The theorems rest on the named assumptions
of the modules alone: what a plan's validation and the planner establish
(`PlanAssumption`), what the validation of the configuration accepts
(`ConfigAssumption`, `LimitsAssumption`, `GrantLimits`, `ConsoleLimits`,
`EventsAssumption`, `StoreAssumption`), what the server's answers are typed as
(`InventoryAssumption`, `LibraryAssumption`), that a selection names each visibility
once (`SelectionAssumption`), what the names, contents and metadata of
a source are (`ScanAssumption`, and `PlanAssumption` of `SourceScan`), finiteness, and
that `None` is none of
the values it stands beside. TLC evaluates each of them on its instances. No
invariant below is inductive as it stands; TLC checked each strengthening on the
instance of the component's run before it was proved.

| Module | Proved | The strengthening |
| --- | --- | --- |
| `UploadExecutor_proofs` | `TypeOK`, `CompletedOnServer`, `ImageAfterVideo`, `LinkedToVideo`, `CreatedByOperation`, `ReportIsTrue`, the refinement `LedgerSpec` | `IInv`, `RInv` |
| `ImportExecutor_proofs` | `TypeOK`, `MetadataOnServer`, `AlbumsAgree`, `StagedIsCurrent`, `ReportIsTrue`, the action property `DurableEffectsKept`, the refinement `LedgerSpec`, and so `CheckpointIsLedger` | `IInv`, `RInv` |
| `WebJobs_proofs` | `AccountingExact`, `ApplyJobsExclusive`, `HistoryAgrees`, `ArtifactsAgree`, the action property `TerminalIsFinal` | `IInv` |
| `JobEvents_proofs` | `LeasesExact`, the action property `NoGap` | `IInv` |
| `StateStore_proofs` | `TypeOK`, `PlansLast`, `PublishedWithinBound`, `ReceiptsAreNewest` | `IInv` |
| `Console_proofs` | of `ApplyGrants`: `TypeOK`, `OneJobPerReceipt`, `SettledRunIsFinal`, `AuthorizationIsFresh`; of `Console`: `LogoutIsFinal`, `OneSessionPerLogin`, the refinement of `ApplyGrants` and with it those three properties | `IInv`, `ConsoleIInv` |
| `ArchiveApply_proofs` | `PairsComplete`, `QuietIsExact`; for one process, `FinalIsComplete` and the action property `ReportIsTrue` | `PlanningOK`, `QuietOK`, `ApplyOK` |
| `SourceScan_proofs` | `UnreportedIsWhole`, `MergeIsOrderFree`, `NothingLost`, `PlanIsExecutable` | `ScanOK`, `DocsOK`, `PlanOK`, `AllKept`, `ResultOK` |

**Uploads.** `IInv` follows an asset from the wire to the journal:

* `PlaceOK`: a group's current operation is one of its own and fits its `pc`;
* `RequestOK`, `LateOK`: a body on the wire, answered or abandoned, carries the
  link its operation needs, and an answer says the truth about who made the asset;
* `VideoOK`: a group at its image has the identity of its video's asset;
* `OutcomesOK`: the outcomes a group will append are true, in order, and a
  completed image comes after its video, in the vector or in the journal;
* `SnapshotTrue`, `SnapshotOK`: what the run read of the journal at its start
  still holds, because completed operations are never recorded again;
* `JournalOK`, `RunOK`: the journal itself, and that groups exist only in a run.

The lemmas for single steps treat the concluding steps of a group once
(`Conclude`, `Finish`, `Advance`) and reuse them. The refinement follows from
`IInv`: a server step is `Store`, an append of a success is `Record`, every other
step leaves the mapping alone. `RInv` is about the report: an operation that is
not complete is still to be worked on, or its outcome is on its way, or the report
says so (`Accounted`); and the retries that groups hold, numbered so that they can
be counted as a set, are paid for by the shared budget (`BudgetOK`).

**Imports.** The checkpoint that a run reads at its start decides what it skips.
`SnapshotOK` says for which effects it is still the checkpoint: those the run has
not come to. `JournalTrue` and `AnswerOK` tie durable effects and answers in hand
to the server, `LateOK` says that a request that was given up does no harm when it
is acted upon, `TouchedLast` that albums come after all assets. Each action is shown
to be one of a few kinds of step (an append, a server action, a step of the loop),
which the theorems about the journal, the ledger and the report then share.

**Jobs.** Status, thread and records of a job are written in different critical
sections. `PlaceOK` and `RecordOK` say which combinations occur; the counters are
cardinalities of sets of jobs, so that each action adds or removes one element;
`OrderAgrees` and `ShutdownOK` bound what eviction and shutdown may touch. For the
plans, `FaultsOK` counts from the step that goes wrong: every plan of a failed job
(`Strays`) and every job without its row has cost a fault of its own.

**Streams.** `JoinedUp` says how the three sources of an event join: what is held
lies just after the client's last event and just before the replay, which ends
where the receiver starts; `WindowOK` that the window is a run of numbers up to the
newest. `NoGap` follows at each step from this in the state before it.

**The store.** There is no lock on the directory. The argument is one of ownership:
a worker's step changes only names that are free or hold its own write, so the
files of a recorded plan (`FilesOK`, `PendingOK`) stay. For the bound, a file that is
published, or that a worker past the check is still to publish, is a claim
(`Claims`); linking leaves the claims as they are, and only a scan that passes adds
two. `ScanOK` says what a scan began from and what can have become of it: what it
misses is of the workers that were busy then. `NestOK` orders the scans by what they
saw of each other; by `RoomOK` a scan either began with all claims before its eyes,
or was overtaken by one that passed, and then there is room below the `Ceiling` for
everyone it saw waiting. For receipts, a fresh row that retention drops leaves
enough newer ones: among the dropped rows take one with the fewest rows before it
(a minimum of the well-founded strict subset order); none of those is dropped.

**Grants and sessions.** `IInv` of `ApplyGrants` adds that stores and clock agree
(`StoresOK`), that a settled run's receipt is no younger than the file's time
(`SettledOK`), that confirmations in flight and grants carry a bounded deadline and
were acceptable when made (`PendingOK`: an age in seconds and a deadline in instants
combine to a deadline before `Limit`, through `WithinSecond` and `ProductOrder`),
that admitted jobs are spent (`AdmittedOK`), and what the active job may still do to
the checkpoint (`ActiveOK`). Every step of `Console` is a step of `ApplyGrants` or
leaves its variables alone, so its theorems carry over. `RevokedOK` is the heart of
`LogoutIsFinal`: a late confirmation may leave a grant for a session that is gone,
but its key is younger than the key of every request that can still be admitted.
`LoginsOK`: a state token is with the provider, with one callback, or gone.

**Archives.** `ListingOK`: a link that a page has shown is pending or its video is
collected; at the end of a visibility nothing is pending. `ManifestOK`: once a
manifest exists there is no other inventory, so all runs read the same one. These
hold for any number of processes. The rest assumes `OneRunner`, since the program
has no lock on the directory, and with two processes `FinalIsComplete` fails (see
the observations above): `RunOK` says what the part file of a run holds at each
place and that the assets it has passed are there and verified, `DirectoryOK` that
every file under a final name is synced and one of ours is complete. Power loss then
takes whole files or nothing.

For `QuietIsExact` the library is taken as a value (`World`), and what an inventory
should find is a function of it (`ReferenceIn`, `RefusableIn`). `QuietAt` says, for a
library that has not changed since the inventory began, what each place of the
inventory knows:

* `PageOK`: exactly the first pages of the result at hand are listed, in its order
  (`PageGoesOn`: a page continues the pages before it and the last one ends the
  result; `WholeResult`: the pages together list every asset of it once);
* `RelatedOK`: the whole result and some of its linked videos, none twice;
* `CollectedOK`: the closure of every visibility before, and no more entries than
  these visibilities weigh. The limit of a listing is a sum over visibilities, which
  `Weight` counts as a set of pairs, so that each visibility adds its own
  (`WeightAdds`) and a page over the limit means a library over it;
* `RecheckOK`, `AlbumsOK`: the lookups so far, the albums that are not in the queue,
  and the first pages of the one at its head. Memberships are counted as pairs too.

No step compares with anything but what the same library gave before, so the only
way to fail is one of the reasons; `PlanIsValid` shows that valid Live Photo roles and
different album names are all that the validation of a plan can ask for.

**Scans.** `ScanOK` is about what a scan finds, whatever the writers do:

* `ReadOK`: an open file is what it was when it was opened, and all blocks read so
  far are of that content, or it has a newer time by now, which `Recheck` notices;
* `WalkOK`: the walk comes to every file once, and what it found of a file is a
  content that the file really had, or the change is reported (`Whole`);
* `MergeOK`: of each path in an archive no copy was read, or equal ones and the
  entry is found with their digest, or two different ones, and the conflict is
  reported and nothing found. None of this speaks of an order.

The reconciliation is a chain of pure functions. One lemma for each says that it
keeps the files `Sound` (one record for each portable path, attached sidecars that
exist), which most share through `Mapped`: a step that rewrites records one by one
and keeps path, kind and bytes. `LiveOK` holds from the pairing on: an image and a
video name each other, and no one else names them. `NothingLost` follows a value
from a document through the chain: attached to its file, joined with the albums of
the directory, merged with the copies (where a difference is an error, so without
errors the value is still there), completed. `Executable` says that the files of a
plan are there, from which no operation of the upload plan can miss one; what
remains as a reason for an invalid plan is an empty file.

The type theorems have no run of their own: they are parts of the invariants.

**Only model-checked.** Liveness (`Convergence`, `RunsConverge`, `EveryJobEnds`,
`ShutdownCompletes`, `StreamsEnd`): liveness under fairness and `ENABLED` are out of
the prover's reach. Every invariant and every action property of the passing runs is
proved, the two about archived files for one process at a time.

## Plan

All modules are written, and every safety property of the passing runs is proved.
What is left is liveness, which stays with TLC, and the parts listed below.

## Not modelled

HTTP, TLS, HTML, metrics, argument and configuration parsing, version negotiation,
archive formats and hashing are input and output or conversions without protocol
state. Cryptographic bindings (grants, cookies, ID tokens) are taken as predicates.
`verify_source` and the dry runs, which scan again and compare before a plan is
applied, are left out: the executors start from a verified source. So are the
refusal of a checkpoint that belongs to another plan (a comparison of stored text),
the first Takeout entry point `scan_google_takeout` with its own reconciliation,
which the planners no longer use, the refusal of a directory that has no Takeout
layout (`validate_layout` of `google_takeout.rs`), the recomputation of a migration
plan's summary (`expected_summary` of `migration.rs`), the configuration digests,
the size limit of the history database, and file permissions. Two processes on one
checkpoint are not modelled.
