---------------------------- MODULE ArchiveApply ----------------------------
(***************************************************************************)
(* apply_archive (immich-executor archive_apply.rs): the originals that a  *)
(* manifest names are streamed to a part file, verified, synced and then   *)
(* renamed. The directory and the manifest are all the state a rerun has.  *)
(* Together with RemoteInventory this is the whole archive path, from the  *)
(* first search request to the report.                                     *)
(***************************************************************************)
EXTENDS RemoteInventory

CONSTANTS
    Runners,        \* processes that apply the manifest
    Chunks,         \* chunks in the body of an original
    Foreign         \* facts of a file somebody else put in the directory

ASSUME ArchiveAssumption ==
    /\ Foreign \notin Runners /\ Chunks \in Nat
    /\ None \notin [by : Runners, facts : Facts, chunks : 0..Chunks, synced : BOOLEAN]

VARIABLES
    final,      \* final[a]: the file under the target path of a, or None
    part,       \* part[a]: the part file beside it, or None
    run         \* run[r]: the apply run of process r

vars == <<server, members, inv, plan, touched, changes, failures, final, part, run>>

NoRun == [pc |-> "idle", todo |-> {}, body |-> None, downloaded |-> 0, already |-> 0]

\* A file: the process that wrote it, the facts of the body it comes from,
\* the chunks in it, and whether they were synced.
File(r, facts, chunks, synced) ==
    [by |-> r, facts |-> facts, chunks |-> chunks, synced |-> synced]

Init ==
    /\ InventoryInit
    /\ final \in [Assets -> {None}] \cup
                 [Assets -> {None, File(Foreign, Foreign, Chunks, TRUE)}]
    /\ Cardinality({a \in Assets : final[a] # None}) <= 1
    /\ part = [a \in Assets |-> None]
    /\ run = [r \in Runners |-> NoRun]

Manifest == IF plan = None THEN {} ELSE plan.assets

Expected(a) == (CHOOSE x \in Manifest : x.id = a).facts

\* verify_existing, and the checks of download_asset: exact length and SHA-1.
Matches(file, a) == file.facts = Expected(a) /\ file.chunks = Chunks

\* Manifests are sorted by identifier.
Current(r) == Min(run[r].todo)

Rest(r) == run[r].todo \ {Current(r)}

Runs(new) ==
    /\ run' = new
    /\ UNCHANGED inventoryVars

\* remove_created_part, after any error once the download was begun.
Abort(r) ==
    /\ part' = [part EXCEPT ![Current(r)] = None]
    /\ Runs([run EXCEPT ![r].pc = "failed"])
    /\ UNCHANGED final

-----------------------------------------------------------------------------
(* One run of apply_archive *)

Begin(r) ==
    /\ inv.pc = "planned"
    /\ plan.mode = "archive"
    /\ run[r].pc \in {"idle", "failed"}
    /\ Runs([run EXCEPT ![r] = [NoRun EXCEPT
            !.pc = "next",
            !.todo = {x.id : x \in Manifest}]])
    /\ UNCHANGED <<final, part>>

\* Mutant: a file under the final name is taken for complete.
NextAssetTrusting(r) ==
    /\ run[r].pc = "next"
    /\ run[r].todo # {}
    /\ LET a == Current(r) IN
       IF final[a] # None
       THEN /\ Runs([run EXCEPT ![r].todo = Rest(r), ![r].already = @ + 1])
            /\ UNCHANGED <<final, part>>
       ELSE /\ part' = [part EXCEPT ![a] = None]
            /\ Runs([run EXCEPT ![r].pc = "open"])
            /\ UNCHANGED final

\* Mutant: a stale part file is an error of its own.
NextAssetRefusing(r) ==
    /\ run[r].pc = "next"
    /\ run[r].todo # {}
    /\ LET a == Current(r) IN
       IF final[a] # None /\ Matches(final[a], a)
       THEN Runs([run EXCEPT ![r].todo = Rest(r), ![r].already = @ + 1])
       ELSE Runs([run EXCEPT ![r].pc = IF final[a] = None /\ part[a] = None
                                       THEN "open" ELSE "failed"])
    /\ UNCHANGED <<final, part>>

\* The head of the loop: a file under the final name is verified and kept;
\* otherwise a part file that an earlier run left is removed.
NextAsset(r) ==
    /\ run[r].pc = "next"
    /\ run[r].todo # {}
    /\ LET a == Current(r) IN
       CASE final[a] # None /\ Matches(final[a], a) ->
                /\ Runs([run EXCEPT ![r].todo = Rest(r), ![r].already = @ + 1])
                /\ UNCHANGED <<final, part>>
         [] final[a] # None /\ ~Matches(final[a], a) ->
                /\ Runs([run EXCEPT ![r].pc = "failed"])
                /\ UNCHANGED <<final, part>>
         [] OTHER ->
                /\ part' = [part EXCEPT ![a] = None]
                /\ Runs([run EXCEPT ![r].pc = "open"])
                /\ UNCHANGED final

\* download_original and what follows fail: the asset is gone, the declared
\* length is that of another body, or there is a part file already.
OpenFails(r) ==
    LET a == Current(r) IN
    /\ run[r].pc = "open"
    /\ (server[a] # None /\ part[a] = None) => server[a].facts # Expected(a)
    /\ Abort(r)

\* The download is opened, then the part file is created. A body of the
\* declared length goes on whatever it holds.
Open(r) ==
    LET a == Current(r) IN
    /\ run[r].pc = "open"
    /\ server[a] # None
    /\ part[a] = None
    /\ part' = [part EXCEPT ![a] = File(r, server[a].facts, 0, FALSE)]
    /\ Runs([run EXCEPT ![r].pc = "body", ![r].body = server[a].facts])
    /\ UNCHANGED final

\* A chunk goes to the file this process opened, which may have lost its name.
Mine(r, file) == file # None /\ file.by = r

Chunk(r) ==
    LET a == Current(r) IN
    /\ run[r].pc = "body"
    /\ Mine(r, part[a])
    /\ part[a].chunks < Chunks
    /\ part' = [part EXCEPT ![a].chunks = @ + 1]
    /\ Runs(run)
    /\ UNCHANGED final

\* Mutant: the file is verified and not synced.
VerifyUnsynced(r) ==
    LET a == Current(r) IN
    /\ run[r].pc = "body"
    /\ Mine(r, part[a]) => part[a].chunks = Chunks
    /\ IF run[r].body # Expected(a)
       THEN Abort(r)
       ELSE /\ Runs([run EXCEPT ![r].pc = "rename"])
            /\ UNCHANGED <<final, part>>

\* The end of the body: sync_all, then length and digest are compared.
Verify(r) ==
    LET a == Current(r) IN
    /\ run[r].pc = "body"
    /\ Mine(r, part[a]) => part[a].chunks = Chunks
    /\ IF run[r].body # Expected(a)
       THEN Abort(r)
       ELSE /\ part' = IF Mine(r, part[a]) THEN [part EXCEPT ![a].synced = TRUE] ELSE part
            /\ Runs([run EXCEPT ![r].pc = "rename"])
            /\ UNCHANGED final

Rename(r) ==
    LET a == Current(r) IN
    /\ run[r].pc = "rename"
    /\ IF part[a] = None
       THEN Abort(r)
       ELSE /\ final' = [final EXCEPT ![a] = part[a]]
            /\ part' = [part EXCEPT ![a] = None]
            /\ Runs([run EXCEPT ![r].pc = "next", ![r].todo = Rest(r),
                                ![r].downloaded = @ + 1])

\* The report is validated against the number of assets in the manifest.
Report(r) ==
    /\ run[r].pc = "next"
    /\ run[r].todo = {}
    /\ run[r].downloaded + run[r].already = Cardinality(Manifest)
    /\ Runs([run EXCEPT ![r].pc = "ok"])
    /\ UNCHANGED <<final, part>>

\* The transport fails, the disk refuses, or the operator cancels.
DownloadFails(r) ==
    /\ run[r].pc \in {"open", "body"}
    /\ failures < MaxFailures
    /\ failures' = failures + 1
    /\ part' = [part EXCEPT ![Current(r)] = None]
    /\ run' = [run EXCEPT ![r].pc = "failed"]
    /\ UNCHANGED <<server, members, inv, plan, touched, changes, final>>

\* The process dies; the directory keeps what it holds.
Crash(r) ==
    /\ run[r].pc \notin {"idle", "failed", "ok"}
    /\ failures < MaxFailures
    /\ failures' = failures + 1
    /\ run' = [run EXCEPT ![r] = NoRun]
    /\ UNCHANGED <<server, members, inv, plan, touched, changes, final, part>>

\* The machine loses power: chunks that were not synced may be gone, and so
\* may the rename of a file, since the directory itself is never synced.
Lost(file) == IF file = None \/ file.synced THEN file ELSE [file EXCEPT !.chunks = 0]

PowerLoss ==
    /\ \E r \in Runners : run[r].pc \notin {"idle", "failed", "ok"}
    /\ failures < MaxFailures
    /\ failures' = failures + 1
    /\ \E undone \in SUBSET {a \in Assets : final[a] # None /\ final[a].by \in Runners} :
        /\ final' = [a \in Assets |-> IF a \in undone THEN None ELSE Lost(final[a])]
        /\ part' = [a \in Assets |-> IF a \in undone THEN Lost(final[a]) ELSE Lost(part[a])]
    /\ run' = [r \in Runners |-> NoRun]
    /\ UNCHANGED <<server, members, inv, plan, touched, changes>>

RunStep(r) ==
    \/ NextAsset(r) \/ OpenFails(r) \/ Open(r) \/ Chunk(r) \/ Verify(r) \/ Rename(r)
    \/ Report(r)

Planning == InventoryStep /\ UNCHANGED <<final, part, run>>

Next ==
    \/ \E s \in Selections : Start("archive", s) /\ plan = None /\ UNCHANGED <<final, part, run>>
    \/ \E m \in {"migrate", "verify"} :
        /\ plan # None => plan.mode = "migrate"
        /\ Start(m, <<"timeline">>)
        /\ UNCHANGED <<final, part, run>>
    \/ Planning
    \/ ServerStep /\ UNCHANGED <<final, part, run>>
    \/ \E r \in Runners : Begin(r) \/ RunStep(r) \/ DownloadFails(r) \/ Crash(r)
    \/ PowerLoss

Spec == Init /\ [][Next]_vars

\* An operator applies the manifest again after a run that did not report.
RerunSpec ==
    Spec /\ \A r \in Runners : WF_vars(Begin(r)) /\ WF_vars(RunStep(r))

-----------------------------------------------------------------------------
(* Properties *)

\* A file that a run put under its final name has exactly the bytes of the
\* manifest, whatever crashed, was lost with the power or changed on the
\* server (archive_apply.rs:58-66, 112-118).
FinalIsComplete ==
    \A a \in Assets :
        (final[a] # None /\ final[a].by \in Runners) => Matches(final[a], a)

\* When a run reports, every asset of the manifest is there and verified, also
\* those an earlier run or somebody else put there (archive_apply.rs:50-73).
ReportIsTrue ==
    [][\A r \in Runners :
        (run[r].pc # "ok" /\ run'[r].pc = "ok")
            => \A x \in Manifest : final'[x.id] # None /\ Matches(final'[x.id], x.id)]_vars

\* What a rerun needs: the server still has the originals, and nobody else put
\* a different file under one of the names.
Possible ==
    /\ inv.pc = "planned"
    /\ plan.mode = "archive"
    /\ \A x \in Manifest :
        /\ server[x.id] # None /\ server[x.id].facts = x.facts
        /\ final[x.id] # None => Matches(final[x.id], x.id)

\* Reruns complete the archive as long as that holds, whatever crashes left
\* behind (archive_apply.rs:55-66, 244-256).
Convergence ==
    Possible ~> (~Possible \/ \E r \in Runners : run[r].pc = "ok")
=============================================================================
