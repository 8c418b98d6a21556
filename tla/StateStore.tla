----------------------------- MODULE StateStore -----------------------------
(***************************************************************************)
(* The state the web console keeps on disk: the directory of upload plans  *)
(* (state_store/plan_store.rs, plan_io.rs) and the database of terminal    *)
(* rows and dry-run receipts (state_store/history.rs, history/receipts.rs),*)
(* used by the worker threads of the jobs at the same time.                *)
(*                                                                         *)
(* A plan is two files, the binding and the plan.  Both are written under  *)
(* pending names and synced, then linked to their final names, then the    *)
(* directory is synced.  A file holds the write of one job, so its content *)
(* is that job.  A power loss keeps or loses each directory entry changed  *)
(* since the directory was last synced, independently of the others; a     *)
(* killed process keeps them all.  A committed transaction is durable.     *)
(***************************************************************************)
EXTENDS Integers, FiniteSets

CONSTANTS
    Jobs,           \* numbers of the jobs of a behaviour, over all restarts
    Refs,           \* the artifact references random() can return
    Workers,        \* limits.concurrent_jobs
    RetainedRows,   \* limits.history_retained_rows
    Retention,      \* limits.history_retention_days, in ticks of the clock
    MaximumFiles,   \* entries the plan directory may hold
    Attempts,       \* CREATE_ATTEMPTS
    MaxTime,        \* bound on the clock
    MaxFaults,      \* bound on failed storage operations
    MaxCrashes,     \* bound on crashes
    None

ASSUME StoreAssumption ==
    /\ Workers \in Nat \ {0} /\ RetainedRows \in Nat \ {0}
    /\ Retention \in Nat /\ MaximumFiles \in Nat /\ Attempts \in Nat \ {0}
    /\ MaxTime \in Nat /\ MaxFaults \in Nat /\ MaxCrashes \in Nat
    /\ IsFiniteSet(Jobs) /\ Jobs \subseteq Nat /\ IsFiniteSet(Refs)
    /\ Refs \cap Jobs = {} /\ None \notin Refs \cup Jobs
    /\ None \notin {"plan", "dry_run", "Completed"}

VARIABLES
    files,        \* plan directory: name -> the job whose write it holds
    synced,       \* the same at the last sync of the directory
    history,      \* table history
    receipts,     \* table dry_run_receipts
    schema,       \* PRAGMA user_version
    process,      \* "down", "opening", "up", "refused"
    workerFailed, \* JobsState.worker_failed
    job,          \* per job: where its worker stands
    seen,         \* per job: the directory when the scan of its worker began
    clock, faults, crashes

vars == <<files, synced, history, receipts, schema, process, workerFailed,
          job, seen, clock, faults, crashes>>

Parts == {"binding", "plan"}
Final == Parts \X Refs
Pending == Parts \X Jobs     \* pending names carry a nonce: one pair per write
Names == Final \cup Pending

Rest == [kind |-> None, pc |-> "new", ref |-> None, tries |-> 0,
         binding |-> None, plan |-> None, time |-> 0,
         recorded |-> FALSE,   \* its terminal row was committed
         refused |-> FALSE,    \* the history returned an error
         end |-> None]

TypeOK ==
    /\ files \in [Names -> Jobs \cup {None}]
    /\ synced \in [Names -> Jobs \cup {None}]
    /\ schema \in 0..2
    /\ process \in {"down", "opening", "up", "refused"}
    /\ workerFailed \in BOOLEAN
    /\ \A j \in Jobs : job[j].end \in {None, "Completed", "Failed", "lost"}
    /\ seen \in [Jobs -> SUBSET (Names \X Jobs)]
    /\ clock \in 0..MaxTime

\* A directory never used, or one that an older console has left behind.
Init ==
    /\ files = [n \in Names |-> None] /\ synced = files
    /\ schema \in {0, 1}
    /\ history = {} /\ receipts = {}
    /\ process = "opening" /\ workerFailed = FALSE
    /\ job = [j \in Jobs |-> Rest] /\ seen = [j \in Jobs |-> {}]
    /\ clock = 0 /\ faults = 0 /\ crashes = 0

-----------------------------------------------------------------------------
(* The directory and the tables.                                           *)

Entries == {n \in Names : files[n] # None}

\* Each entry with the write it holds: a name that went and came back with
\* another write is another entry.
Listing == {<<n, files[n]>> : n \in Entries}

\* Mutant: only published files count.
WithinBoundPublished(found) ==
    Cardinality({e \in found : e[1] \in Final}) <= MaximumFiles

\* The limit of PlanStore::check_store_bound: every entry that is found
\* counts, pending ones included.
WithinBound(found) == Cardinality(found) <= MaximumFiles

Exists(ref) == \E part \in Parts : files[<<part, ref>>] # None

\* The plan a load by this reference finds, when both files are of one write.
Intact(where, ref, j) == \A part \in Parts : where[<<part, ref>>] = j

\* Rows are numbered as they are inserted: the sequence, and the rowid.
NextRow == 1 + Cardinality({k \in Jobs : job[k].recorded})

\* The rows that have not expired, and the newest of them.
Fresh(rows, now) == {x \in rows : x.time >= now - Retention}

RetainedHistory(rows, now) ==
    LET fresh == Fresh(rows, now) IN
    {x \in fresh : Cardinality({y \in fresh : y.row > x.row}) < RetainedRows}

\* Mutant: the last rows inserted are kept, whenever they completed.
RetainedReceiptsByRow(rows, now) == RetainedHistory(rows, now)

\* Receipts go by completion, and by rowid among those of one second.
Newer(y, x) == y.time > x.time \/ (y.time = x.time /\ y.row > x.row)

RetainedReceipts(rows, now) ==
    LET fresh == Fresh(rows, now) IN
    {x \in fresh : Cardinality({y \in fresh : Newer(y, x)}) < RetainedRows}

\* HistoryStore::maintain, one transaction.
Maintain(now) ==
    /\ history' = RetainedHistory(history, now)
    /\ receipts' = RetainedReceipts(receipts, now)

-----------------------------------------------------------------------------
(* Opening the store, crashes and time.                                    *)

\* configure: one transaction per missing schema version, 0 -> 1 -> 2.  The
\* migration to 2 copies the rows into a wider table under their sequences.
Migrate ==
    /\ process = "opening" /\ schema < 2
    /\ schema' = schema + 1
    /\ UNCHANGED <<files, synced, history, receipts, process, workerFailed,
                   job, seen, clock, faults, crashes>>

\* The rest of ConsoleStore::open: maintenance, then the bound of the plans.
Open ==
    /\ process = "opening" /\ schema = 2
    /\ Maintain(clock)
    /\ process' = IF WithinBound(Listing) THEN "up" ELSE "refused"
    /\ UNCHANGED <<files, synced, schema, workerFailed, job, seen, clock, faults,
                   crashes>>

\* Every running job is forgotten; entries not synced may or may not remain.
Crash ==
    /\ process \in {"opening", "up"} /\ crashes < MaxCrashes
    /\ crashes' = crashes + 1
    /\ process' = "down" /\ workerFailed' = FALSE
    /\ job' = [j \in Jobs |->
                 IF job[j].pc \in {"new", "done"} THEN job[j]
                 ELSE [job[j] EXCEPT !.pc = "done", !.end = "lost",
                                     !.binding = None, !.plan = None, !.tries = 0]]
    /\ seen' = [j \in Jobs |-> {}]
    /\ \E lost \in SUBSET {n \in Names : files[n] # synced[n]} :
          files' = [n \in Names |-> IF n \in lost THEN synced[n] ELSE files[n]]
    /\ synced' = files'
    /\ UNCHANGED <<history, receipts, schema, clock, faults>>

Restart ==
    /\ process = "down"
    /\ process' = "opening"
    /\ UNCHANGED <<files, synced, history, receipts, schema, workerFailed, job,
                   seen, clock, faults, crashes>>

Tick ==
    /\ clock < MaxTime
    /\ clock' = clock + 1
    /\ UNCHANGED <<files, synced, history, receipts, schema, process,
                   workerFailed, job, seen, faults, crashes>>

-----------------------------------------------------------------------------
(* Steps of one worker.                                                    *)

At(j, pc) == process = "up" /\ job[j].pc = pc
Goto(j, pc) == job' = [job EXCEPT ![j].pc = pc]
End(j, end) == job' = [job EXCEPT ![j].pc = "done", ![j].end = end]

storage == <<schema, process, clock, crashes>>   \* no worker step changes these
Put(n, content) == files' = [files EXCEPT ![n] = content]

\* The references an operator can have seen: in a finished job or in a row.
Shown == {job[k].ref : k \in {i \in Jobs : job[i].kind = "plan" /\ job[i].recorded}}

\* Jobs are numbered, and begin, in the order of their admission, which is
\* closed once a terminal row could not be written.
Begin(j) ==
    /\ At(j, "new") /\ ~workerFailed
    /\ \A k \in Jobs : job[k].pc = "new" => j <= k
    /\ Cardinality({k \in Jobs : job[k].pc \notin {"new", "done"}}) < Workers
    /\ \/ job' = [job EXCEPT ![j].kind = "plan", ![j].pc = "choose"]
       \/ \E ref \in Shown :
             job' = [job EXCEPT ![j].kind = "dry_run", ![j].ref = ref,
                                ![j].pc = "load_binding"]
       \/ job' = [job EXCEPT ![j].kind = "other", ![j].pc = "stamp"]
    /\ UNCHANGED <<files, synced, history, receipts, workerFailed, faults, seen, storage>>

\* PlanStore::write draws a reference until neither final name exists.
Choose(j) ==
    /\ At(j, "choose")
    /\ \E ref \in Refs :
         job' = CASE ~Exists(ref) ->
                       [job EXCEPT ![j].ref = ref, ![j].tries = 0,
                                   ![j].pc = "write_binding"]
                  [] Exists(ref) /\ job[j].tries + 1 < Attempts ->
                       [job EXCEPT ![j].tries = @ + 1]
                  [] OTHER -> [job EXCEPT ![j] = [Rest EXCEPT !.kind = "other",
                                                           !.pc = "stamp"]]
    /\ UNCHANGED <<files, synced, history, receipts, workerFailed, faults, seen, storage>>

\* write_new up to the bound check: both pending files, synced one by one.
WritePending(j) ==
    /\ \/ At(j, "write_binding") /\ Put(<<"binding", j>>, j) /\ Goto(j, "write_plan")
       \/ At(j, "write_plan") /\ Put(<<"plan", j>>, j) /\ Goto(j, "check")
    /\ UNCHANGED <<synced, history, receipts, workerFailed, faults, seen, storage>>

\* check_store_bound opens the directory and reads it entry by entry, with no
\* lock against the other workers.  It counts every entry that is there from
\* the start to the end; whether it meets one that comes or goes meanwhile is
\* open, and one that goes between its listing and its stat is an error.  What
\* came and went leaves no trace, so a scan may always end in a refusal.
StartScan(j) ==
    /\ At(j, "check")
    /\ seen' = [seen EXCEPT ![j] = Listing]
    /\ Goto(j, "scan")
    /\ UNCHANGED <<files, synced, history, receipts, workerFailed, faults, storage>>

Still(j) == seen[j] \cap Listing

EndScan(j) ==
    /\ At(j, "scan")
    /\ \/ WithinBound(Still(j)) /\ Goto(j, "link_binding")
       \/ Goto(j, "cleanup")
    /\ seen' = [seen EXCEPT ![j] = {}]
    /\ UNCHANGED <<files, synced, history, receipts, workerFailed, faults, storage>>

\* publish_new: hard_link refuses a name that exists; then the pending name
\* goes.  A plan that cannot be linked takes its binding with it.
Publish(j) ==
    /\ \/ /\ At(j, "link_binding")
          /\ IF files[<<"binding", job[j].ref>>] = None
             THEN Put(<<"binding", job[j].ref>>, j) /\ Goto(j, "unlink_binding")
             ELSE UNCHANGED files /\ Goto(j, "cleanup")
       \/ At(j, "unlink_binding") /\ Put(<<"binding", j>>, None) /\ Goto(j, "link_plan")
       \/ /\ At(j, "link_plan")
          /\ IF files[<<"plan", job[j].ref>>] = None
             THEN Put(<<"plan", job[j].ref>>, j) /\ Goto(j, "unlink_plan")
             ELSE Put(<<"binding", job[j].ref>>, None) /\ Goto(j, "cleanup")
       \/ At(j, "unlink_plan") /\ Put(<<"plan", j>>, None) /\ Goto(j, "sync")
    /\ UNCHANGED <<synced, history, receipts, workerFailed, faults, seen, storage>>

\* sync_directory, and write returns the artifact.
Sync(j) ==
    /\ At(j, "sync")
    /\ synced' = files
    /\ Goto(j, "stamp")
    /\ UNCHANGED <<files, history, receipts, workerFailed, faults, seen, storage>>

\* The error path of write_new; the job goes on as one that failed.
Cleanup(j) ==
    /\ At(j, "cleanup")
    /\ files' = [files EXCEPT ![<<"plan", j>>] = None, ![<<"binding", j>>] = None]
    /\ job' = [job EXCEPT ![j].kind = "other", ![j].pc = "stamp"]
    /\ UNCHANGED <<synced, history, receipts, workerFailed, faults, seen, storage>>

\* load_json_file, and the stamp of the file it has read: whose write it is.
LoadFile(j, part) == files[<<part, job[j].ref>>]

\* PlanStore::load: binding, plan, the binding's stamp again, then the digest
\* of the plan against the binding.  Any failure makes the dry run fail.
Load(j) ==
    /\ LET name(part) == LoadFile(j, part)
           failed == [job EXCEPT ![j] = [Rest EXCEPT !.kind = "other", !.pc = "stamp"]]
       IN \/ /\ At(j, "load_binding")
             /\ job' = IF name("binding") = None THEN failed
                       ELSE [job EXCEPT ![j].binding = name("binding"),
                                        ![j].pc = "load_plan"]
          \/ /\ At(j, "load_plan")
             /\ job' = IF name("plan") = None THEN failed
                       ELSE [job EXCEPT ![j].plan = name("plan"),
                                        ![j].pc = "load_check"]
          \/ /\ At(j, "load_check")
             /\ job' = IF name("binding") = job[j].binding
                          /\ job[j].plan = job[j].binding
                       THEN [job EXCEPT ![j].pc = "stamp", ![j].binding = None,
                                        ![j].plan = None]
                       ELSE failed
    /\ UNCHANGED <<files, synced, history, receipts, workerFailed, faults, seen, storage>>

\* completed_unix, taken before the history is reached.
Stamp(j) ==
    /\ At(j, "stamp")
    /\ job' = [job EXCEPT ![j].time = clock, ![j].pc = "commit"]
    /\ UNCHANGED <<files, synced, history, receipts, workerFailed, faults, seen, storage>>

\* insert_terminal, as far as retention looks at a row.
TerminalRow(j) == [row |-> NextRow, time |-> job[j].time, job |-> j,
                   plan |-> IF job[j].kind = "other" THEN None ELSE job[j].ref]

\* record_terminal, or record_dry_run with its receipt: one transaction.
Commit(j) ==
    /\ At(j, "commit")
    /\ history' = history \cup {TerminalRow(j)}
    /\ receipts' = IF job[j].kind = "dry_run" THEN receipts \cup {TerminalRow(j)}
                   ELSE receipts
    /\ job' = [job EXCEPT ![j].recorded = TRUE, ![j].pc = "maintain"]
    /\ UNCHANGED <<files, synced, workerFailed, faults, seen, storage>>

\* The maintenance that ends both record functions, at the time of the row.
Finish(j) ==
    /\ At(j, "maintain")
    /\ Maintain(job[j].time)
    /\ End(j, IF job[j].kind = "other" THEN "Failed" ELSE "Completed")
    /\ UNCHANGED <<files, synced, workerFailed, faults, seen, storage>>

\* Mutant: a dry run counts as the publisher of the plan it verified.
UnpublishedAny(j) == job[j].kind \in {"plan", "dry_run"}

\* WorkerOutcome::published_artifact: only a plan job published its plan.
Unpublished(j) == job[j].kind = "plan"

\* finish with an error from the history: the plan of the job is removed.
RemovePlan(j) ==
    /\ \/ At(j, "remove_plan") /\ Put(<<"plan", job[j].ref>>, None)
          /\ Goto(j, "remove_binding") /\ UNCHANGED synced
       \/ At(j, "remove_binding") /\ Put(<<"binding", job[j].ref>>, None)
          /\ Goto(j, "remove_sync") /\ UNCHANGED synced
       \/ At(j, "remove_sync") /\ synced' = files /\ UNCHANGED files
          /\ End(j, "Failed")
    /\ UNCHANGED <<history, receipts, workerFailed, faults, seen, storage>>

\* A storage operation fails where the code has a path for it.  Before and
\* after the commit it is the record function that returns the error.
Fault(j) ==
    /\ process = "up" /\ faults < MaxFaults
    /\ faults' = faults + 1
    /\ \/ /\ job[j].pc \in {"write_binding", "write_plan", "scan",
                            "link_binding", "unlink_binding", "sync"}
          /\ Goto(j, "cleanup") /\ UNCHANGED <<files, workerFailed>>
       \/ /\ job[j].pc \in {"link_plan", "unlink_plan"}
          /\ Put(<<"binding", job[j].ref>>, None)
          /\ Goto(j, "cleanup") /\ UNCHANGED workerFailed
       \/ /\ job[j].pc \in {"commit", "maintain"}
          /\ workerFailed' = TRUE
          /\ job' = [job EXCEPT ![j].refused = TRUE,
                       ![j].pc = IF Unpublished(j) THEN "remove_plan" ELSE "done",
                       ![j].end = IF Unpublished(j) THEN None ELSE "Failed"]
          /\ UNCHANGED files
       \/ /\ job[j].pc \in {"remove_plan", "remove_binding", "remove_sync"}
          /\ End(j, "Failed") /\ UNCHANGED <<files, workerFailed>>
    /\ seen' = [seen EXCEPT ![j] = {}]
    /\ UNCHANGED <<synced, history, receipts, storage>>

Step(j) ==
    \/ Begin(j) \/ Choose(j) \/ WritePending(j) \/ StartScan(j) \/ EndScan(j)
    \/ Publish(j) \/ Sync(j) \/ Cleanup(j) \/ Load(j) \/ Stamp(j) \/ Commit(j) \/ Finish(j)
    \/ RemovePlan(j) \/ Fault(j)

Next ==
    \/ \E j \in Jobs : Step(j)
    \/ Migrate \/ Open \/ Crash \/ Restart \/ Tick

Spec == Init /\ [][Next]_vars

-----------------------------------------------------------------------------
\* A plan whose terminal row was committed is complete in the directory, and
\* would be after a power loss, whatever later jobs, faults and crashes do:
\* only its own job removes it, when the history returned an error.
PlansLast ==
    \A j \in Jobs :
        (job[j].kind = "plan" /\ job[j].recorded /\ ~job[j].refused) =>
            Intact(files, job[j].ref, j) /\ Intact(synced, job[j].ref, j)

\* The receipt a completed dry run returned is stored until it expires or as
\* many receipts that completed no earlier as the table retains are stored.
ReceiptsAreNewest ==
    \A j \in Jobs :
        LET stored == {x \in receipts : x.job = j}
            later == {x \in receipts : x.time >= job[j].time}
        IN (job[j].kind = "dry_run" /\ job[j].end = "Completed" /\ stored = {}) =>
             \/ clock > job[j].time + Retention
             \/ Cardinality(later) >= RetainedRows

\* While the console runs, the published files exceed the directory's bound by
\* no more than the two files of each other worker: a scan that overlaps a
\* publication may miss both names of a file, the pending one that goes and
\* the final one that comes, but no overshoot lets the next plan through.
\* (A power loss can bring back names whose removal was not synced; Open then
\* refuses to start.)
PublishedWithinBound ==
    process = "up" =>
        Cardinality(Entries \cap Final) <= MaximumFiles + 2 * (Workers - 1)
=============================================================================
