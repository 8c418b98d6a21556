--------------------------- MODULE ImportExecutor ---------------------------
(***************************************************************************)
(* The import executor: one apply run of an upload-plan-v2 (Takeout, Apple *)
(* Photos, Picasa) or of a migration between two servers.  Operations run  *)
(* one after another: stage the media, converge the asset, assign its      *)
(* metadata; once every asset is known the albums are converged and filled *)
(* (crates/immich-executor: import_apply.rs, migration_apply.rs,           *)
(* import_effects.rs, import_effect_support.rs, import_journal.rs,         *)
(* import_staging.rs, operation.rs; crates/immich-client: import.rs).      *)
(*                                                                         *)
(* Each durable effect has a key in the checkpoint-v2 journal.  A run ends *)
(* with a report, with an error, or by the death of the process, and may   *)
(* be started again.  The server is external; unlike media, two albums may *)
(* have one name, and a request may be acted upon after its sender gave up.*)
(***************************************************************************)
EXTENDS Naturals, Sequences, FiniteSets

CONSTANTS
    Ops,          \* operations of the plan
    Images,       \* operations whose role is LivePhotoImage
    VideoOf,      \* the video operation an image operation names
    Path,         \* rank of an operation's relative path
    Checksums,    \* SHA-1 values of media contents; they name the assets
    Sha1,         \* checksum of an operation's media
    Described,    \* operations with a metadata assignment (has_assignment)
    Albums,       \* album names of the plan, as ranks of their order
    AlbumsOf,     \* the albums of an operation
    Archived,     \* operations whose media is staged on disk
    MaxAttempts,  \* config.max_attempts_per_operation
    MaxRetries,   \* config.max_retries_per_run
    MaxOwned,     \* bound on the albums the owner has before the import
    MaxFaults,    \* bound on errors, cancellations and crashes in a behaviour
    None          \* Option::None

\* UploadPlan::validate and ordered_operations, as in the folder upload; an
\* album of the plan has a member.
ASSUME PlanAssumption ==
    /\ Images \subseteq Ops
    /\ VideoOf \in [Images -> Ops \ Images]
    /\ \A i, j \in Images : VideoOf[i] = VideoOf[j] => i = j
    /\ Path \in [Ops -> Nat]
    /\ \A o, p \in Ops : Path[o] = Path[p] => o = p
    /\ Sha1 \in [Ops -> Checksums]
    /\ Described \subseteq Ops
    /\ Archived \subseteq Ops
    /\ Albums \subseteq Nat
    /\ AlbumsOf \in [Ops -> SUBSET Albums]
    /\ \A a \in Albums : \E op \in Ops : a \in AlbumsOf[op]
    /\ IsFiniteSet(Ops) /\ IsFiniteSet(Albums)
    /\ None \notin Ops \cup Checksums \cup Nat
    /\ None \notin {"ready", "sent", "created", "duplicate", "done", "wait", "server", "lost"}
    /\ None \notin [by : Ops \cup {None}, link : Checksums \cup {None}, meta : Ops \cup {None}]
    /\ Checksums \cap Nat = {}

ASSUME ConfigAssumption ==
    /\ MaxAttempts \in Nat \ {0}
    /\ MaxRetries \in Nat
    /\ MaxOwned \in Nat
    /\ MaxFaults \in Nat

Effects == ({"asset", "metadata"} \X Ops) \cup ({"album", "members"} \X Albums)

Durable == {"created", "duplicate", "completed", "reused"}
Retryable == {"server", "lost"}
ErrorClass == Retryable \cup {"fatal"}

\* uncertain: Disconnect and Timeout.
UncertainKind(class) == IF class = "lost" THEN "indeterminate" ELSE "failed"

VARIABLES
    \* --- outlives a run ---
    assets,     \* server: checksum -> [by, link, meta] of its asset, or None
    albums,     \* server: album id -> [name, ours, members]
    late,       \* requests given up by the client that the server may yet act on
    journal,    \* checkpoint: effect -> its latest outcome and remote id
    staged,     \* operations with media in the staging directory
    faults,     \* errors, cancellations and crashes still to come
    \* --- one run (apply_import_inner, apply_migration) ---
    run,        \* "idle", "active" or "reported"
    cancelled,  \* the cancellation token
    used,       \* RetryBudget.used
    state,      \* the journal as read when the run started (ImportState)
    assetIds,   \* asset_ids
    report,     \* ImportApplyReport
    visited,    \* what the current loop has taken up
    pc,         \* which loop head or request the run is at
    cur,        \* the operation or album at hand
    albumId,    \* the album reference at hand
    retries,    \* retries of the effect at hand
    request,    \* phase of the request at hand, or None
    answer,     \* the album id the server answers to a create
    error       \* class of the error a create ended with

serverVars == <<assets, albums, late>>
runVars == <<run, cancelled, used, state>>
loopVars == <<assetIds, report, visited, pc, cur, albumId, retries, request,
              answer, error>>
vars == <<serverVars, journal, staged, faults, runVars, loopVars>>

Event(kind, id) == [kind |-> kind, id |-> id]
Album(name, ours) == [name |-> name, ours |-> ours, members |-> {}]

\* done counts the effects this run made durable: created, duplicate,
\* metadata_updated, albums_created, albums_reused, album_memberships_updated.
NewReport ==
    [done |-> 0, resumed |-> 0, retried |-> 0, failed |-> 0,
     indeterminate |-> 0, cancelled |-> FALSE]

Writes == {"upload", "metadata", "create", "members"}
Reads == {"check", "final", "lookup", "relook"}
Phases == {"ready", "sent", "created", "duplicate", "done", "wait"}
PCs == {"off", "operations", "prepare", "describe", "albums", "fill"}
           \cup Writes \cup Reads

-----------------------------------------------------------------------------
(* ImportState *)

\* Mutant: an asset found on the server is not taken as complete.
CreatedId(j, op) ==
    LET e == j[<<"asset", op>>] IN IF e.kind = "created" THEN e.id ELSE None

AssetId(j, op) ==
    LET e == j[<<"asset", op>>] IN
    IF e.kind \in {"created", "duplicate"} THEN e.id ELSE None

MetadataDone(j, op) == j[<<"metadata", op>>].kind = "completed"

AlbumRef(j, a) ==
    LET e == j[<<"album", a>>] IN
    IF e.kind \in {"created", "reused"} THEN e.id ELSE None

MembersDone(j, a) == j[<<"members", a>>].kind = "completed"

DoneEffects(j) == {e \in Effects : j[e].kind \in Durable}

\* ordered_operations: pairs and single assets by the path of their first
\* operation, the video of a pair before its image.
Lead(op) == IF op \in Images THEN VideoOf[op] ELSE op
Before(o, p) ==
    \/ Path[Lead(o)] < Path[Lead(p)]
    \/ Lead(o) = Lead(p) /\ p \in Images /\ o \notin Images

LiveVideoId(op) == IF op \in Images THEN assetIds[VideoOf[op]] ELSE None
VideoMissing(op) == op \in Images /\ LiveVideoId(op) = None

\* initial_asset_ids
InitialAssetIds == [op \in Ops |-> AssetId(journal, op)]

\* Mutant: only the members uploaded by this run.
NewMembers(a) ==
    {assetIds[op] : op \in {o \in Ops : a \in AlbumsOf[o] /\ AssetId(state, o) = None}}

\* album_members
AlbumMembers(a) ==
    {assetIds[op] : op \in {o \in Ops : a \in AlbumsOf[o]}} \ {None}

-----------------------------------------------------------------------------
(* The server (external) *)

\* The body of the request at hand; equal creates are told apart by a copy.
Body ==
    CASE pc = "upload" ->
             [kind |-> pc, on |-> cur, with |-> LiveVideoId(cur)]
      [] pc = "metadata" ->
             [kind |-> pc, on |-> cur, with |-> assetIds[cur]]
      [] pc = "members" ->
             [kind |-> pc, on |-> albumId, with |-> AlbumMembers(cur)]
      [] pc = "create" ->
             [kind |-> pc, on |-> cur,
              with |-> CHOOSE n \in 0..Cardinality(late) :
                  [kind |-> pc, on |-> cur, with |-> n] \notin late]

\* One asset per checksum, exact metadata assignment, a new album for every
\* create, and members added to the ones an album has.
Act(b) ==
    \/ /\ b.kind = "upload"
       /\ assets' = IF assets[Sha1[b.on]] = None
              THEN [assets EXCEPT ![Sha1[b.on]] =
                        [by |-> b.on, link |-> b.with, meta |-> None]]
              ELSE assets
       /\ UNCHANGED albums
    \/ /\ b.kind = "metadata"
       /\ assets' = [assets EXCEPT ![b.with].meta = b.on]
       /\ UNCHANGED albums
    \/ /\ b.kind = "create"
       /\ albums' = Append(albums, Album(b.on, TRUE))
       /\ UNCHANGED assets
    \/ /\ b.kind = "members"
       /\ albums' = [albums EXCEPT ![b.on].members = @ \cup b.with]
       /\ UNCHANGED assets

\* The answer: the status of an upload, the id of a created album.
Status(b) ==
    IF b.kind # "upload" THEN "done"
    ELSE IF assets[Sha1[b.on]] = None THEN "created" ELSE "duplicate"

ServerActs ==
    /\ request = "sent"
    /\ Act(Body)
    /\ answer' = IF pc = "create" THEN Len(albums) + 1 ELSE None
    /\ request' = Status(Body)
    /\ UNCHANGED <<late, journal, staged, faults, runVars, assetIds, report,
                   visited, pc, cur, albumId, retries, error>>

\* The server acts on a request nobody waits for any more.
LateAct(b) ==
    /\ b \in late
    /\ Act(b)
    /\ late' = late \ {b}
    /\ UNCHANGED <<journal, staged, faults, runVars, loopVars>>

\* The request at hand is given up: if sent, it may still be acted upon.
Abandoned == IF request = "sent" THEN late \cup {Body} ELSE late

OwnedAlbums(a) == {i \in DOMAIN albums : albums[i].name = a}

-----------------------------------------------------------------------------
(* A run: apply_import_inner, apply_migration *)

Fault == faults > 0 /\ faults' = faults - 1

\* No request is under way; the run is at the head of a loop or of an effect.
AtHead(loc) ==
    /\ pc' = loc
    /\ retries' = 0
    /\ request' = None
    /\ answer' = None
    /\ error' = None

Issue(loc) ==
    /\ pc' = loc
    /\ request' = "ready"
    /\ answer' = None

\* The start of a loop, and the state between two runs.
Restart(loc) ==
    /\ visited' = {}
    /\ cur' = None
    /\ albumId' = None
    /\ AtHead(loc)

\* The run returns: its staging directory is dropped.
Return(how) ==
    /\ run' = how
    /\ staged' = {}
    /\ Restart("off")

\* ImportJournal::open, state, ImportStaging::open, initial_asset_ids.
StartRun ==
    /\ run # "active"
    /\ run' = "active"
    /\ cancelled' = FALSE
    /\ used' = 0
    /\ state' = journal
    /\ staged' = {}
    /\ report' = NewReport
    /\ assetIds' = InitialAssetIds
    /\ Restart("operations")
    /\ UNCHANGED <<serverVars, journal, faults>>

\* The loops break on cancellation before they take up the next item.
StopAtHead ==
    /\ \/ pc = "operations" /\ visited # Ops
       \/ pc = "albums" /\ visited # Albums
    /\ cancelled
    /\ report' = [report EXCEPT !.cancelled = TRUE]
    /\ Return("reported")
    /\ UNCHANGED <<serverVars, journal, faults, cancelled, used, state, assetIds>>

\* An image whose video has no asset is recorded as failed; an operation that
\* is complete in the checkpoint goes straight to its metadata.
NextOperation(op) ==
    /\ pc = "operations"
    /\ op \notin visited
    /\ \A p \in Ops \ visited : ~Before(p, op)
    /\ ~cancelled
    /\ visited' = visited \cup {op}
    /\ cur' = op
    /\ \/ /\ AssetId(state, op) # None
          /\ report' = [report EXCEPT !.resumed = @ + 1]
          /\ AtHead("describe")
          /\ UNCHANGED journal
       \/ /\ AssetId(state, op) = None
          /\ VideoMissing(op)
          /\ journal' = [journal EXCEPT ![<<"asset", op>>] = Event("failed", None)]
          /\ report' = [report EXCEPT !.failed = @ + 1]
          /\ AtHead("operations")
       \/ /\ AssetId(state, op) = None
          /\ ~VideoMissing(op)
          /\ AtHead("prepare")
          /\ UNCHANGED <<journal, report>>
    /\ UNCHANGED <<serverVars, staged, faults, runVars, assetIds, albumId>>

AllAssetsKnown == \A op \in Ops : assetIds[op] # None

\* Albums only when every operation of the plan has an asset.
OperationsOver ==
    /\ pc = "operations"
    /\ visited = Ops
    /\ IF AllAssetsKnown
       THEN Restart("albums") /\ UNCHANGED <<run, staged>>
       ELSE Return("reported")
    /\ UNCHANGED <<serverVars, journal, faults, cancelled, used, state,
                   assetIds, report>>

\* ImportStaging::prepare and MigrationStaging::prepare.
Prepare ==
    /\ pc = "prepare"
    /\ cur \notin staged
    /\ staged' = staged \cup ({cur} \cap Archived)
    /\ Issue("check")
    /\ UNCHANGED <<serverVars, journal, faults, runVars, assetIds, report,
                   visited, cur, albumId, retries, error>>

\* The source changed, the disk failed, or the token was set: the run returns
\* the error.
PrepareFails ==
    /\ pc = "prepare"
    /\ \/ (cancelled \/ cur \in staged) /\ UNCHANGED faults
       \/ Fault
    /\ Return("idle")
    /\ UNCHANGED <<serverVars, journal, cancelled, used, state, assetIds, report>>

\* apply_metadata up to its first request.
Describe ==
    /\ pc = "describe"
    /\ IF cur \in Described /\ ~MetadataDone(state, cur)
       THEN Issue("metadata") /\ UNCHANGED <<report, retries, error>>
       ELSE /\ AtHead("operations")
            /\ report' = IF cur \in Described
                   THEN [report EXCEPT !.resumed = @ + 1] ELSE report
    /\ UNCHANGED <<serverVars, journal, staged, faults, runVars, assetIds,
                   visited, cur, albumId>>

\* apply_albums: the next album in name order.
NextAlbum(a) ==
    /\ pc = "albums"
    /\ a \notin visited
    /\ \A b \in Albums \ visited : a <= b
    /\ ~cancelled
    /\ visited' = visited \cup {a}
    /\ cur' = a
    /\ IF AlbumRef(state, a) # None
       THEN /\ albumId' = AlbumRef(state, a)
            /\ report' = [report EXCEPT !.resumed = @ + 1]
            /\ AtHead("fill")
       ELSE /\ Issue("lookup")
            /\ UNCHANGED <<albumId, report, retries, error>>
    /\ UNCHANGED <<serverVars, journal, staged, faults, runVars, assetIds>>

AlbumsOver ==
    /\ pc = "albums"
    /\ visited = Albums
    /\ Return("reported")
    /\ UNCHANGED <<serverVars, journal, faults, cancelled, used, state,
                   assetIds, report>>

\* apply_albums between the album and its membership request.
Fill ==
    /\ pc = "fill"
    /\ IF MembersDone(state, cur)
       THEN /\ AtHead("albums")
            /\ report' = [report EXCEPT !.resumed = @ + 1]
       ELSE Issue("members") /\ UNCHANGED <<report, retries, error>>
    /\ UNCHANGED <<serverVars, journal, staged, faults, runVars, assetIds,
                   visited, cur, albumId>>

Cancel ==
    /\ run = "active"
    /\ ~cancelled
    /\ Fault
    /\ cancelled' = TRUE
    /\ UNCHANGED <<serverVars, journal, staged, run, used, state, loopVars>>

\* The process dies and leaves what it staged, or a journal append fails and
\* the run returns the error.
Crash ==
    /\ run = "active"
    /\ Fault
    /\ late' = Abandoned
    /\ run' = "idle"
    /\ staged' \in {staged, {}}
    /\ Restart("off")
    /\ UNCHANGED <<assets, albums, journal, cancelled, used, state, assetIds,
                   report>>

-----------------------------------------------------------------------------
(* The effects: operation::apply, apply_metadata, converge_album,            *)
(* lookup_albums, apply_membership                                           *)

\* The journal key of the effect at hand, and the loop its failure goes back to.
Key ==
    CASE pc \in {"check", "upload", "final"} -> <<"asset", cur>>
      [] pc = "metadata" -> <<"metadata", cur>>
      [] pc \in {"lookup", "create", "relook"} -> <<"album", cur>>
      [] pc = "members" -> <<"members", cur>>

Home ==
    IF pc \in {"check", "upload", "final", "metadata"} THEN "operations"
                                                       ELSE "albums"

\* The effect at hand is durable: it is recorded with its remote id.
RecordDone(kind, id) ==
    /\ journal' = [journal EXCEPT ![Key] = Event(kind, id)]
    /\ report' = [report EXCEPT !.done = @ + 1, !.retried = @ + retries]

\* Mutant: an indeterminate effect is not counted.
RecordFailureSilent(kind, stop) ==
    /\ journal' = [journal EXCEPT ![Key] = Event(kind, None)]
    /\ report' = [report EXCEPT !.failed = @ + (IF kind = "failed" THEN 1 ELSE 0),
                    !.retried = @ + retries,
                    !.cancelled = stop]

\* record_effect_failure and the failures of record_completed_asset.
RecordFailure(kind, stop) ==
    /\ journal' = [journal EXCEPT ![Key] = Event(kind, None)]
    /\ report' = [report EXCEPT !.failed = @ + (IF kind = "failed" THEN 1 ELSE 0),
                    !.indeterminate = @ + (IF kind = "indeterminate" THEN 1 ELSE 0),
                    !.retried = @ + retries,
                    !.cancelled = stop]

StillStaged == staged                     \* mutant
\* PreparedImportAsset is dropped with the operation's staged files.
Unstaged == staged \ {cur}

\* The effect is given up with this outcome and the loop goes on.
GiveUp(kind) ==
    /\ RecordFailure(kind, FALSE)
    /\ staged' = Unstaged
    /\ AtHead(Home)
    /\ UNCHANGED <<run, visited, cur, albumId>>

RequestFrame == UNCHANGED <<cancelled, state>>

RetryAllowed(class) ==
    class \in Retryable /\ retries + 1 < MaxAttempts /\ used < MaxRetries

\* budget.claim() succeeded and retry::wait begins; the wait is over before
\* the request of loc.
ClaimAndWait(loc) ==
    /\ used' = used + 1
    /\ pc' = loc
    /\ request' = "wait"
    /\ answer' = None

\* An upload starts over with the duplicate check, the others are repeated.
RetryDelayOver ==
    /\ request = "wait"
    /\ Issue(IF pc = "upload" THEN "check" ELSE pc)
    /\ retries' = retries + 1
    /\ UNCHANGED <<serverVars, journal, staged, faults, runVars, assetIds,
                   report, visited, cur, albumId, error>>

Send ==
    /\ pc \in Writes
    /\ request = "ready"
    /\ ~cancelled
    /\ request' = "sent"
    /\ UNCHANGED <<serverVars, journal, staged, faults, runVars, assetIds,
                   report, visited, pc, cur, albumId, retries, answer, error>>

\* The asset is converged: its id is known to this run from here on.
AssetDone(kind) ==
    /\ RecordDone(kind, Sha1[cur])
    /\ assetIds' = [assetIds EXCEPT ![cur] = Sha1[cur]]
    /\ staged' = Unstaged
    /\ AtHead("describe")
    /\ RequestFrame
    /\ UNCHANGED <<serverVars, faults, run, used, visited, cur, albumId>>

\* duplicate_check, before the upload or after an uncertain one.
FoundDuplicate ==
    /\ pc \in {"check", "final"}
    /\ request = "ready"
    /\ assets[Sha1[cur]] # None
    /\ AssetDone("duplicate")

UploadAccepted ==
    /\ pc = "check"
    /\ request = "ready"
    /\ assets[Sha1[cur]] = None
    /\ Issue("upload")
    /\ UNCHANGED <<serverVars, journal, staged, faults, runVars, assetIds,
                   report, visited, cur, albumId, retries, error>>

Uploaded ==
    /\ pc = "upload"
    /\ request \in {"created", "duplicate"}
    /\ AssetDone(request)

\* reconcile_uncertain found nothing.
StillUnknown ==
    /\ pc = "final"
    /\ request = "ready"
    /\ assets[Sha1[cur]] = None
    /\ ~cancelled
    /\ GiveUp("indeterminate")
    /\ RequestFrame
    /\ UNCHANGED <<serverVars, faults, used, assetIds>>

\* Mutant: the request is taken as done once it is sent.
AssignedOnSend ==
    /\ pc \in {"metadata", "members"}
    /\ request \in {"sent", "done"}
    /\ RecordDone("completed", None)
    /\ AtHead(Home)
    /\ RequestFrame
    /\ UNCHANGED <<serverVars, staged, faults, run, used, assetIds, visited,
                   cur, albumId>>

\* update_asset_metadata or add_album_assets succeeded.
Assigned ==
    /\ pc \in {"metadata", "members"}
    /\ request = "done"
    /\ RecordDone("completed", None)
    /\ AtHead(Home)
    /\ RequestFrame
    /\ UNCHANGED <<serverVars, staged, faults, run, used, assetIds, visited,
                   cur, albumId>>

AlbumDone(kind, id) ==
    /\ RecordDone(kind, id)
    /\ albumId' = id
    /\ AtHead("fill")
    /\ UNCHANGED <<serverVars, staged, faults, runVars, assetIds, visited, cur>>

\* The listing before a create: exactly one match is reused.
AlbumReused(i) ==
    /\ pc = "lookup"
    /\ request = "ready"
    /\ OwnedAlbums(cur) = {i}
    /\ AlbumDone("reused", i)

AlbumMissing ==
    /\ pc = "lookup"
    /\ request = "ready"
    /\ OwnedAlbums(cur) = {}
    /\ Issue("create")
    /\ UNCHANGED <<serverVars, journal, staged, faults, runVars, assetIds,
                   report, visited, cur, albumId, retries, error>>

\* Several albums of the name fail closed, before and after a create.
AlbumAmbiguous ==
    /\ pc \in {"lookup", "relook"}
    /\ request = "ready"
    /\ Cardinality(OwnedAlbums(cur)) > 1
    /\ GiveUp(IF pc = "lookup" THEN "failed" ELSE "indeterminate")
    /\ RequestFrame
    /\ UNCHANGED <<serverVars, faults, used, assetIds>>

AlbumCreated ==
    /\ pc = "create"
    /\ request = "done"
    /\ AlbumDone("created", answer)

\* The listing after a create whose answer was lost.
AlbumFoundAfterCreate(i) ==
    /\ pc = "relook"
    /\ request = "ready"
    /\ OwnedAlbums(cur) = {i}
    /\ AlbumDone("created", i)

AlbumStillMissing ==
    /\ pc = "relook"
    /\ request = "ready"
    /\ OwnedAlbums(cur) = {}
    /\ \/ /\ RetryAllowed(error)
          /\ ClaimAndWait("create")
          /\ UNCHANGED <<journal, report, run, staged, visited, cur, albumId,
                         retries, error>>
       \/ /\ ~RetryAllowed(error)
          /\ ~cancelled
          /\ GiveUp(UncertainKind(error))
          /\ UNCHANGED used
    /\ RequestFrame
    /\ UNCHANGED <<serverVars, faults, assetIds>>

\* What an error without a retry makes of the effect at hand.
Outcome(class) ==
    CASE pc \in {"check", "lookup", "create", "upload"} -> "failed"
      [] pc \in {"final", "relook"} -> "indeterminate"
      [] pc \in {"metadata", "members"} -> UncertainKind(class)

\* The request ends without a usable answer.  A refusal is the server's last
\* word; after any other error a request that was sent may still be acted upon.
RequestError(class) ==
    /\ request \notin {None, "wait"}
    /\ Fault
    /\ late' = IF class \in Retryable THEN Abandoned ELSE late
    /\ \/ /\ pc \notin {"create", "final"}
          /\ RetryAllowed(class)
          /\ ClaimAndWait(pc)
          /\ UNCHANGED <<journal, report, run, staged, visited, cur, albumId,
                         retries, error>>
       \/ /\ pc = "create" /\ class \in Retryable
          /\ Issue("relook")
          /\ error' = class
          /\ UNCHANGED <<journal, report, run, staged, visited, cur, albumId,
                         retries, used>>
       \/ /\ pc = "upload" /\ class = "lost" /\ ~RetryAllowed(class)
          /\ Issue("final")
          /\ UNCHANGED <<journal, report, run, staged, visited, cur, albumId,
                         retries, used, error>>
       \/ /\ pc \notin {"create", "final"} => ~RetryAllowed(class)
          /\ ~(pc = "create" /\ class \in Retryable)
          /\ ~(pc = "upload" /\ class = "lost")
          /\ ~(pc = "final" /\ cancelled)
          /\ GiveUp(Outcome(class))
          /\ UNCHANGED used
    /\ RequestFrame
    /\ UNCHANGED <<assets, albums, assetIds>>

\* The cancellation wins against the answer or the delay: the loop breaks.  A
\* duplicate check leaves no event, the first listing a failed one.
RequestCancelled ==
    /\ request # None
    /\ cancelled
    /\ late' = Abandoned
    /\ IF pc = "check"
       THEN /\ report' = [report EXCEPT !.cancelled = TRUE]
            /\ UNCHANGED journal
       ELSE RecordFailure(IF pc = "lookup" THEN "failed" ELSE "indeterminate",
                          TRUE)
    /\ Return("reported")
    /\ RequestFrame
    /\ UNCHANGED <<assets, albums, faults, used, assetIds>>

-----------------------------------------------------------------------------
AssetType == [by : Ops \cup {None}, link : Checksums \cup {None},
              meta : Ops \cup {None}]
AlbumType == [name : Albums, ours : BOOLEAN, members : SUBSET Checksums]
RequestType ==
    [kind : {"upload"}, on : Ops, with : Checksums \cup {None}]
        \cup [kind : {"metadata"}, on : Ops, with : Checksums]
        \cup [kind : {"create"}, on : Albums, with : Nat]
        \cup [kind : {"members"}, on : Nat, with : SUBSET Checksums]
EventType ==
    [kind : Durable \cup {"none", "failed", "indeterminate"},
     id : Checksums \cup Nat \cup {None}]
ReportType ==
    [done : Nat, resumed : Nat, retried : Nat, failed : Nat,
     indeterminate : Nat, cancelled : BOOLEAN]

TypeOK ==
    /\ assets \in [Checksums -> AssetType \cup {None}]
    /\ albums \in Seq(AlbumType)
    /\ late \subseteq RequestType
    /\ journal \in [Effects -> EventType]
    /\ staged \subseteq Ops
    /\ faults \in Nat
    /\ run \in {"idle", "active", "reported"}
    /\ cancelled \in BOOLEAN
    /\ used \in Nat
    /\ state \in [Effects -> EventType]
    /\ assetIds \in [Ops -> Checksums \cup {None}]
    /\ report \in ReportType
    /\ visited \subseteq Ops \cup Albums
    /\ pc \in PCs
    /\ cur \in Ops \cup Albums \cup {None}
    /\ albumId \in Nat \cup {None}
    /\ retries \in Nat
    /\ request \in Phases \cup {None}
    /\ answer \in Nat \cup {None}
    /\ error \in Retryable \cup {None}

Init ==
    /\ assets \in [Checksums -> {None, [by |-> None, link |-> None, meta |-> None]}]
    /\ albums \in UNION {[1..n -> {Album(a, FALSE) : a \in Albums}] : n \in 0..MaxOwned}
    /\ late = {}
    /\ journal = [e \in Effects |-> Event("none", None)]
    /\ staged = {}
    /\ faults = MaxFaults
    /\ run = "idle"
    /\ cancelled = FALSE
    /\ used = 0
    /\ state = journal
    /\ assetIds = [op \in Ops |-> None]
    /\ report = NewReport
    /\ visited = {}
    /\ pc = "off"
    /\ cur = None
    /\ albumId = None
    /\ retries = 0
    /\ request = None
    /\ answer = None
    /\ error = None

\* A step of the run's own code, or of a request it waits for.
RunStep ==
    \/ StopAtHead
    \/ \E op \in Ops : NextOperation(op)
    \/ OperationsOver
    \/ Prepare
    \/ PrepareFails
    \/ Describe
    \/ \E a \in Albums : NextAlbum(a)
    \/ AlbumsOver
    \/ Fill
    \/ RetryDelayOver
    \/ Send
    \/ FoundDuplicate
    \/ UploadAccepted
    \/ Uploaded
    \/ StillUnknown
    \/ Assigned
    \/ \E i \in DOMAIN albums : AlbumReused(i) \/ AlbumFoundAfterCreate(i)
    \/ AlbumMissing
    \/ AlbumAmbiguous
    \/ AlbumCreated
    \/ AlbumStillMissing
    \/ \E class \in ErrorClass : RequestError(class)
    \/ RequestCancelled

Next ==
    \/ StartRun
    \/ Cancel
    \/ Crash
    \/ RunStep
    \/ ServerActs
    \/ \E b \in late : LateAct(b)

Spec == Init /\ [][Next]_vars

(***************************************************************************)
(* Fairness.  The run's task is polled until it ends, every request has a  *)
(* client timeout, and a server that is not failing (a failure is a fault) *)
(* acts on what it receives.                                               *)
(***************************************************************************)
FairSpec == Spec /\ WF_vars(RunStep) /\ WF_vars(ServerActs)

\* The operator applies the plan again after every run.
RerunSpec == FairSpec /\ WF_vars(StartRun)

-----------------------------------------------------------------------------
(* Safety *)

\* A durable metadata effect is on the server: the asset carries an assignment
\* of the plan for that media, and exactly this operation's when no other
\* operation has the same media, whatever was repeated or acted upon late.
MetadataOnServer ==
    \A op \in Ops : MetadataDone(journal, op) =>
        LET asset == assets[Sha1[op]] IN
        /\ asset # None
        /\ asset.meta \in Described
        /\ Sha1[asset.meta] = Sha1[op]

\* A durable membership effect is on the server: the album the checkpoint
\* names has the planned name and holds the asset of every planned member,
\* also when the server holds a second album of that name.
MembersInAlbum ==
    \A a \in Albums : MembersDone(journal, a) =>
        LET i == AlbumRef(journal, a) IN
        /\ i \in DOMAIN albums
        /\ albums[i].name = a
        /\ {Sha1[op] : op \in {o \in Ops : a \in AlbumsOf[o]}} \subseteq albums[i].members

\* Albums are touched last: one the import created or put an asset into is
\* only ever seen after every asset of the plan is durable in the checkpoint,
\* in this run or in the one that sent a late request.
AlbumsAfterAssets ==
    (\E i \in DOMAIN albums : albums[i].ours \/ albums[i].members # {}) =>
        \A op \in Ops : AssetId(journal, op) # None

\* An album recorded as created was made by this import and not found: a lost
\* answer never turns an album of the owner into a created one.
CreatedAlbumIsOurs ==
    \A a \in Albums : journal[<<"album", a>>].kind = "created" =>
        albums[journal[<<"album", a>>].id].ours

\* The report's counters of durable effects are what the checkpoint gained
\* since the run started: none is counted twice or left out.
ReportMatchesJournal ==
    run # "idle" =>
        Cardinality(DoneEffects(journal)) = Cardinality(DoneEffects(state)) + report.done

AllDone ==
    /\ \A op \in Ops : AssetId(journal, op) # None
    /\ \A op \in Described : MetadataDone(journal, op)
    /\ \A a \in Albums : AlbumRef(journal, a) # None /\ MembersDone(journal, a)

\* A run that reports no failure, nothing indeterminate and no cancellation
\* has made every effect of the plan durable.
CleanReportMeansComplete ==
    (/\ run = "reported"
     /\ report.failed = 0
     /\ report.indeterminate = 0
     /\ ~report.cancelled) => AllDone

\* While a run is active only the media of the operation at hand is on disk,
\* and nothing is left after a report, also when the run before it died.
StagedIsCurrent ==
    /\ run = "active" => staged \subseteq {cur}
    /\ run = "reported" => staged = {}

\* What the report says is true: its counters are what the checkpoint gained,
\* and a clean report is one of a complete plan.
ReportIsTrue == ReportMatchesJournal /\ CleanReportMeansComplete

\* The albums of the server agree with the checkpoint: none is touched before
\* the assets are durable, those recorded as created are the import's own, and
\* recorded members are in the album.
AlbumsAgree == AlbumsAfterAssets /\ CreatedAlbumIsOurs /\ MembersInAlbum

\* ADR-0028 calls the sum of asset uploads, metadata updates, distinct album
\* creates and membership requests "the maximum possible server mutation
\* count".  The code does not keep this for albums: a create that is acted
\* upon after the listing that missed it is followed by a second create.
AlbumCreatesWithinPlan ==
    \A a \in Albums : Cardinality({i \in OwnedAlbums(a) : albums[i].ours}) <= 1

-----------------------------------------------------------------------------
(* Steps *)

\* A durable effect is never done again or overwritten in the checkpoint: its
\* latest event stays what it is, over errors, cancellations and restarts.
DurableEffectsKept ==
    [][\A e \in DoneEffects(journal) : journal'[e] = journal[e]]_vars

-----------------------------------------------------------------------------
(* Liveness *)

\* Every run ends: errors, waits and cancellation never keep it going.
RunTerminates == run = "active" ~> run # "active"

\* Applying the plan again and again converges once the faults are over: every
\* asset and assignment is durable, and every album too unless the server
\* holds two of its name, which needs the owner.
Convergence ==
    <>[](/\ \A op \in Ops : AssetId(journal, op) # None
         /\ \A op \in Described : MetadataDone(journal, op)
         /\ \A a \in Albums :
                MembersDone(journal, a) \/ Cardinality(OwnedAlbums(a)) > 1)

\* Runs end, and reruns complete the plan.
RunsConverge == RunTerminates /\ Convergence

-----------------------------------------------------------------------------
(* Refinement *)

\* The assets of an import obey the same ledger as a folder upload.
Ledger == INSTANCE UploadLedger WITH
    stored <- {c \in Checksums : assets[c] # None},
    recorded <- [op \in Ops |-> AssetId(journal, op)]

LedgerSpec == Ledger!Spec

\* The checkpoint obeys the ledger for its assets, and keeps the latest event
\* of every durable effect.
CheckpointIsLedger == LedgerSpec /\ DurableEffectsKept
=============================================================================
