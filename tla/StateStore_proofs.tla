------------------------- MODULE StateStore_proofs --------------------------
(***************************************************************************)
(* Proofs about StateStore, for any number of jobs, references, workers,   *)
(* faults and crashes and every limit.  The directory is shared by all     *)
(* workers and has no lock, so the argument is one of ownership: a step of *)
(* a worker changes only names that are free or hold its own write.        *)
(***************************************************************************)
EXTENDS StateStore, FiniteSetTheorems, WellFoundedInduction, TLAPS

-----------------------------------------------------------------------------
(* The inductive invariant *)

Writing == {"write_binding", "write_plan", "check", "scan", "link_binding",
            "unlink_binding", "link_plan", "unlink_plan", "sync", "cleanup"}
Loading == {"load_binding", "load_plan", "load_check"}
Removing == {"remove_plan", "remove_binding", "remove_sync"}
Recording == {"stamp", "commit", "maintain"}
Places == {"new", "choose", "done"} \cup Writing \cup Loading \cup Removing
              \cup Recording

JobType == [kind : {None, "plan", "dry_run", "other"}, pc : Places,
            ref : Refs \cup {None}, tries : Nat,
            binding : Jobs \cup {None}, plan : Jobs \cup {None}, time : Nat,
            recorded : BOOLEAN, refused : BOOLEAN,
            end : {None, "Completed", "Failed", "lost"}]

JobsTyped == job \in [Jobs -> JobType]

\* What a job is, by the place of its worker.
PhaseOK(j) ==
    /\ job[j].pc = "new" => job[j] = Rest
    /\ job[j].pc \in Writing \cup {"choose"} => job[j].kind = "plan"
    /\ job[j].pc \in Loading => job[j].kind = "dry_run"
    /\ job[j].pc \in Removing => job[j].kind = "plan" /\ job[j].refused
    /\ job[j].pc \in Writing \cup Loading \cup Removing => job[j].ref \in Refs
    /\ (job[j].kind = "plan" /\ job[j].pc \in Recording) => job[j].ref \in Refs
    /\ (job[j].kind = "plan" /\ job[j].recorded) => job[j].ref \in Refs
    /\ job[j].recorded => job[j].pc \in {"maintain", "done"} \cup Removing
    /\ job[j].pc = "maintain" => job[j].recorded
    /\ job[j].end = "Completed" => job[j].pc = "done" /\ job[j].recorded

\* The files that hold the write of a job, by the place of its worker.
FilesOK(j) ==
    /\ job[j].pc \in {"write_plan", "check", "scan", "link_binding",
                      "unlink_binding"} => files[<<"binding", j>>] = j
    /\ job[j].pc \in {"check", "scan", "link_binding", "unlink_binding",
                      "link_plan", "unlink_plan"} => files[<<"plan", j>>] = j
    /\ job[j].pc \in {"unlink_binding", "link_plan", "unlink_plan", "sync"} =>
          files[<<"binding", job[j].ref>>] = j
    /\ job[j].pc \in {"unlink_plan", "sync"} => files[<<"plan", job[j].ref>>] = j
    /\ job[j].pc = "remove_plan" => Intact(files, job[j].ref, j)
    /\ job[j].pc = "remove_binding" => files[<<"binding", job[j].ref>>] = j
    /\ (job[j].kind = "plan" /\ (job[j].pc \in Recording
            \/ (job[j].recorded /\ ~job[j].refused))) =>
          Intact(files, job[j].ref, j) /\ Intact(synced, job[j].ref, j)

\* A pending name carries a nonce: no other write uses it.
PendingOK(j) ==
    \A part \in Parts : files[<<part, j>>] \in {None, j}
                       /\ synced[<<part, j>>] \in {None, j}

\* No worker is at work unless the console is up.
ProcessOK ==
    process # "up" => \A j \in Jobs : job[j].pc \in {"new", "done"}

JobsOK == \A j \in Jobs : PhaseOK(j) /\ FilesOK(j) /\ PendingOK(j)

\* Places before which a part is neither written nor linked.
Early == {"new", "choose", "write_binding", "write_plan"}
Unwritten(part) == {"new", "choose", "write_binding"} \cup Loading
                       \cup (IF part = "plan" THEN {"write_plan"} ELSE {})
Unlinked(part) == Early \cup Loading \cup {"check", "scan", "link_binding"}
                      \cup (IF part = "plan" THEN {"unlink_binding", "link_plan"} ELSE {})

\* The write of a job is nowhere but under its own names, and only once it
\* has been put there; a crash keeps one of the two directories, name by name.
Holds(n, j) == files[n] = j \/ synced[n] = j
PlacedOK(j) ==
    /\ \A part \in Parts, ref \in Refs :
          Holds(<<part, ref>>, j) => job[j].ref = ref /\ job[j].pc \notin Unlinked(part)
    /\ \A part \in Parts :
          Holds(<<part, j>>, j) => job[j].pc \notin Unwritten(part)

\* No more jobs are under way than there are workers.
Active == {k \in Jobs : job[k].pc \notin {"new", "done"}}
ActiveOK == Cardinality(Active) <= Workers

\* A claim is a part of a job, named as its pending file is: it is published,
\* or its worker has passed the bound check and is still to publish it.
Owed ==
    {n \in Pending :
        \/ n[1] = "binding" /\ job[n[2]].pc = "link_binding"
        \/ n[1] = "plan" /\ job[n[2]].pc \in {"link_binding", "unlink_binding",
                                              "link_plan"}}
Published == {n \in Pending : \E ref \in Refs : files[<<n[1], ref>>] = n[2]}
Claims == Published \cup Owed

\* The parts that entries of a listing belong to.
Pairs(found) == {<<e[1][1], e[2]>> : e \in found}

Waiting == {k \in Jobs : job[k].pc \in {"check", "scan"}}
Scanning == {k \in Jobs : job[k].pc = "scan"}

\* Both pending files of k were there when the scan of j began.
Sees(j, k) == \A part \in Parts : <<<<part, k>>, k>> \in seen[j]

\* A pending file that j may miss is of one of the jobs in busy.
Accounted(j, busy) ==
    \A e \in seen[j] : e[1] \in Pending =>
        e[2] \in busy \/ (job[e[2]].pc = "done" /\ files[e[1]] = e[2])

\* What a scan under way has begun from, and what can have become of it.
ScanOK(j) ==
    /\ \A e \in seen[j] : e[1] \in Pending => e[1][2] = e[2]
    /\ Sees(j, j)
    /\ \A k \in Jobs : Sees(j, k) => job[k].pc \notin Early
    /\ \A e \in seen[j] : e[1] \in Final =>
          job[e[2]].pc \notin Early \cup {"check", "scan"}
    /\ \A e \in seen[j] : e[1] \in Final =>
          (files[e[1]] = e[2] \/ <<e[1][1], e[2]>> \notin Claims)
    /\ \E busy \in SUBSET Jobs : Cardinality(busy) <= Workers /\ Accounted(j, busy)

\* Of two scans, one began with the pending files of the other in place, or
\* saw no waiting job that the other did not see.
NestOK ==
    \A j, k \in Scanning : Sees(j, k) \/ \A i \in Waiting : Sees(j, i) => Sees(k, i)

\* Jobs that wait together under the eyes of j.
Watched(j) == {A \in SUBSET Waiting : j \in A /\ \A k \in A : Sees(j, k)}

Ceiling == MaximumFiles + 2 * (Workers - 1)
RoomFor(A) == Cardinality(Claims) + 2 * Cardinality(A) <= Ceiling

\* A scan that missed a claim was overtaken by a worker that passed the bound
\* check meanwhile, and then there is room for all that wait with it.
RoomOK ==
    \A j \in Scanning : \A A \in Watched(j) : Claims \subseteq Pairs(seen[j]) \/ RoomFor(A)

ScansOK == RoomFor({}) /\ NestOK /\ RoomOK /\ \A j \in Scanning : ScanOK(j)
BoundOK == process = "up" => ScansOK

DirectoryOK == ActiveOK /\ BoundOK /\ \A j \in Jobs : PlacedOK(j)

\* Receipts are rows of recorded jobs, under their time of completion.
ReceiptsTyped ==
    /\ IsFiniteSet(receipts)
    /\ \A x \in receipts : /\ x.job \in Jobs /\ x.row \in Nat
                           /\ job[x.job].recorded /\ x.time = job[x.job].time

TimesOK == \A j \in Jobs : job[j].time <= clock

\* Receipts that completed no earlier than t.
Later(rows, t) == {x \in rows : x.time >= t}

\* A recorded dry run has its receipt, or reason enough not to have it.
ReceiptKept(j) ==
    (job[j].kind = "dry_run" /\ job[j].recorded) =>
        \/ \E x \in receipts : x.job = j
        \/ clock > job[j].time + Retention
        \/ Cardinality(Later(receipts, job[j].time)) >= RetainedRows

ReceiptsOK == ReceiptsTyped /\ TimesOK /\ \A j \in Jobs : ReceiptKept(j)

IInv ==
    /\ TypeOK
    /\ JobsTyped
    /\ ProcessOK
    /\ JobsOK
    /\ DirectoryOK
    /\ ReceiptsOK

-----------------------------------------------------------------------------
(* The retention of receipts *)

\* The fresh rows that retention puts before a row.
Before(rows, now, x) == {y \in Fresh(rows, now) : Newer(y, x)}

\* A row as retention sees it.
IsRow(x) == x.time \in Nat /\ x.row \in Nat

\* Newer is a strict order on rows, so the rows before y are fewer than the
\* rows before x whenever y is itself before x.
LEMMA NewerIsStrict ==
    ASSUME NEW rows, NEW now, NEW x, NEW y \in Fresh(rows, now),
           \A z \in rows : IsRow(z), IsRow(x), Newer(y, x)
    PROVE  /\ Before(rows, now, y) \subseteq Before(rows, now, x)
           /\ y \in Before(rows, now, x) /\ y \notin Before(rows, now, y)
  <1>1. y \in rows /\ IsRow(y)
    BY DEF Fresh
  <1>2. ASSUME NEW z \in rows, Newer(z, y)
        PROVE  Newer(z, x)
    <2>1. IsRow(z)
      BY <1>2
    <2> QED
      BY <1>1, <1>2, <2>1 DEF Newer, IsRow
  <1>3. ~Newer(y, y)
    BY <1>1 DEF Newer, IsRow
  <1>4. Before(rows, now, y) \subseteq Before(rows, now, x)
    BY <1>2 DEF Before, Fresh
  <1> QED
    BY <1>3, <1>4 DEF Before

\* A row that retention drops although it is fresh leaves as many newer ones
\* as the table retains: of the dropped rows take one with the fewest rows
\* before it, then none of those is dropped.
LEMMA DroppedHasSuccessors ==
    ASSUME NEW rows, NEW now \in Nat, IsFiniteSet(rows),
           \A z \in rows : IsRow(z),
           NEW x \in Fresh(rows, now), x \notin RetainedReceipts(rows, now)
    PROVE  Cardinality(Later(RetainedReceipts(rows, now), x.time)) >= RetainedRows
  <1> DEFINE kept == RetainedReceipts(rows, now)
             drop == {m \in Fresh(rows, now) : m \notin kept /\ m.time >= x.time}
             sets == {Before(rows, now, m) : m \in drop}
  <1>1. x \in drop
    BY DEF Fresh, IsRow
  <1>2. sets \subseteq FiniteSubsetsOf(rows)
    <2>1. ASSUME NEW m \in drop
          PROVE  Before(rows, now, m) \in FiniteSubsetsOf(rows)
      <3>1. Before(rows, now, m) \in SUBSET rows
        BY DEF Before, Fresh
      <3> QED
        BY <3>1, FS_FiniteSubsetsOfFinite
    <2> QED
      BY <2>1
  <1>3. PICK u \in sets : \A v \in sets : ~(<<v, u>> \in StrictSubsetOrdering(rows))
    <2>1. sets # {}
      BY <1>1
    <2> HIDE DEF sets
    <2> QED
      BY <1>2, <2>1, FS_StrictSubsetOrderingWellFounded, WFMin
  <1>4. PICK m \in drop : u = Before(rows, now, m)
    BY <1>3
  <1>5. \A z \in Before(rows, now, m) : z \in kept
    <2> SUFFICES ASSUME NEW z \in Before(rows, now, m), z \notin kept
                 PROVE  FALSE
      OBVIOUS
    <2>1. z \in Fresh(rows, now) /\ Newer(z, m) /\ IsRow(m) /\ IsRow(z) /\ IsRow(x)
      BY DEF Before, Fresh
    <2>2. z.time >= x.time
      BY <2>1 DEF Newer, IsRow
    <2>3. Before(rows, now, z) \in sets
      BY <2>1, <2>2
    <2>4. /\ Before(rows, now, z) \subseteq u
          /\ z \in u /\ z \notin Before(rows, now, z)
      BY <1>4, <2>1, NewerIsStrict
    <2>5. u \in SUBSET rows /\ Before(rows, now, z) \in SUBSET rows
      BY <1>4 DEF Before, Fresh
    <2>6. <<Before(rows, now, z), u>> \in StrictSubsetOrdering(rows)
      BY <2>4, <2>5 DEF StrictSubsetOrdering
    <2> QED
      BY <1>3, <2>3, <2>6
  <1>6. Cardinality(Before(rows, now, m)) >= RetainedRows
    <2>1. m \in Fresh(rows, now) /\ m \notin kept
      OBVIOUS
    <2>2. ~(Cardinality(Before(rows, now, m)) < RetainedRows)
      BY <2>1 DEF RetainedReceipts, Before
    <2>3. IsFiniteSet(Before(rows, now, m))
      BY FS_Subset DEF Before, Fresh
    <2>4. Cardinality(Before(rows, now, m)) \in Nat
      BY <2>3, FS_CardinalityType
    <2> QED
      BY <2>2, <2>4, StoreAssumption
  <1>7. Before(rows, now, m) \subseteq Later(kept, x.time)
    <2>1. ASSUME NEW z \in Before(rows, now, m)
          PROVE  z \in kept /\ z.time >= x.time
      <3>1. z \in rows /\ m \in rows /\ x \in rows
        BY DEF Before, Fresh
      <3>2. Newer(z, m) /\ IsRow(m) /\ IsRow(z) /\ IsRow(x) /\ m.time >= x.time
        BY <3>1 DEF Before
      <3>3. z.time >= x.time
        BY <3>2 DEF Newer, IsRow
      <3> QED
        BY <1>5, <3>3
    <2> QED
      BY <2>1 DEF Later
  <1>8. Later(kept, x.time) \in SUBSET rows
    BY DEF Later, RetainedReceipts, Fresh
  <1>9. IsFiniteSet(Later(kept, x.time))
    BY <1>8, FS_Subset
  <1>10. Cardinality(Before(rows, now, m)) <= Cardinality(Later(kept, x.time))
    BY <1>7, <1>9, FS_Subset
  <1>11. /\ Cardinality(Later(kept, x.time)) \in Nat
         /\ Cardinality(Before(rows, now, m)) \in Nat
    BY <1>7, <1>9, FS_Subset, FS_CardinalityType
  <1> QED
    BY <1>6, <1>10, <1>11, StoreAssumption

\* Maintenance removes a row that completed at t or later only when rows of
\* time t have expired or enough rows no earlier than t remain.
LEMMA RemovalHasReason ==
    ASSUME NEW rows, NEW now \in Nat, IsFiniteSet(rows),
           \A z \in rows : IsRow(z), NEW t \in Nat,
           NEW x \in rows, x.time >= t, x \notin RetainedReceipts(rows, now)
    PROVE  \/ now > t + Retention
           \/ Cardinality(Later(RetainedReceipts(rows, now), t)) >= RetainedRows
  <1> DEFINE kept == RetainedReceipts(rows, now)
  <1>0. x.time \in Nat
    BY DEF IsRow
  <1>1. CASE x \notin Fresh(rows, now)
    BY <1>0, <1>1, StoreAssumption DEF Fresh
  <1>2. CASE x \in Fresh(rows, now)
    <2>1. Cardinality(Later(kept, x.time)) >= RetainedRows
      BY <1>2, DroppedHasSuccessors
    <2>2. Later(kept, t) \in SUBSET rows
      BY DEF Later, RetainedReceipts, Fresh
    <2>3. IsFiniteSet(Later(kept, t))
      BY <2>2, FS_Subset
    <2>4. Later(kept, x.time) \subseteq Later(kept, t)
      <3>1. ASSUME NEW z \in kept, z.time >= x.time
            PROVE  z.time >= t
        <4>1. z \in rows
          BY DEF RetainedReceipts, Fresh
        <4>2. z.time \in Nat
          BY <4>1 DEF IsRow
        <4> QED
          BY <1>0, <3>1, <4>2
      <3> QED
        BY <3>1 DEF Later
    <2>5. /\ Cardinality(Later(kept, x.time)) <= Cardinality(Later(kept, t))
          /\ Cardinality(Later(kept, x.time)) \in Nat
          /\ Cardinality(Later(kept, t)) \in Nat
      BY <2>3, <2>4, FS_Subset, FS_CardinalityType
    <2> QED
      BY <2>1, <2>5, StoreAssumption
  <1> QED
    BY <1>1, <1>2

-----------------------------------------------------------------------------
(* Steps of one worker *)

\* A step of worker j touches only names that are free or hold its own write,
\* and no pending name of another write.
Owns(j) ==
    /\ \A n \in Names : \/ files'[n] = files[n]
                        \/ /\ files[n] \in {None, j} /\ files'[n] \in {None, j}
                           /\ n \notin Parts \X (Jobs \ {j})
    /\ \A part \in Parts : files'[<<part, j>>] \in {None, j}

\* The job of a worker and the files of its write, one field at a time.
Alone(j) == /\ job' \in [Jobs -> JobType]
            /\ \A k \in Jobs \ {j} : job'[k] = job[k]

\* A recorded job keeps what its row says.
RowKept(j) ==
    job[j].recorded => /\ job'[j].recorded /\ job'[j].kind = job[j].kind
                       /\ job'[j].time = job[j].time

\* What every step of worker j does and leaves alone.
Worker(j) ==
    /\ process = "up" /\ UNCHANGED storage
    /\ Alone(j) /\ RowKept(j) /\ job'[j].time \in {0, job[j].time, clock}
    /\ files' \in [Names -> Jobs \cup {None}] /\ Owns(j)
    /\ synced' = synced \/ synced' = files
    /\ workerFailed' \in BOOLEAN
    /\ PhaseOK(j)' /\ FilesOK(j)'

\* The pc of a job changes and no other field of it.
Moved(j, pc) ==
    /\ job'[j].pc = pc
    /\ job'[j].kind = job[j].kind /\ job'[j].ref = job[j].ref
    /\ job'[j].time = job[j].time /\ job'[j].recorded = job[j].recorded
    /\ job'[j].refused = job[j].refused /\ job'[j].end = job[j].end

\* Goto moves one worker.
LEMMA GotoFacts ==
    ASSUME JobsTyped, NEW j \in Jobs, NEW pc \in Places, Goto(j, pc)
    PROVE  Alone(j) /\ Moved(j, pc)
  <1> DEFINE r == [job[j] EXCEPT !.pc = pc]
  <1>1. job[j] \in JobType
    BY DEF JobsTyped
  <1>2. r \in JobType
    BY <1>1 DEF JobType
  <1>3. job' = [job EXCEPT ![j] = r]
    BY DEF Goto
  <1>4. job'[j] = r /\ Alone(j)
    <2> HIDE DEF r
    <2> QED
      BY <1>2, <1>3 DEF Alone, JobsTyped
  <1> QED
    BY <1>1, <1>4 DEF Moved, JobType

\* A worker that failed goes on as one with nothing to record but a failure.
LEMMA FailedFacts ==
    ASSUME JobsTyped, NEW j \in Jobs,
           job' = [job EXCEPT ![j] = [Rest EXCEPT !.kind = "other", !.pc = "stamp"]]
    PROVE  /\ Alone(j)
           /\ job'[j].kind = "other" /\ job'[j].pc = "stamp" /\ job'[j].time = 0
           /\ job'[j].recorded = FALSE /\ job'[j].end = None
  <1> DEFINE r == [Rest EXCEPT !.kind = "other", !.pc = "stamp"]
  <1>1. r \in JobType
    BY DEF JobType, Rest, Places, Recording
  <1>2. /\ r.kind = "other" /\ r.pc = "stamp" /\ r.time = 0
        /\ r.recorded = FALSE /\ r.end = None
    BY DEF Rest
  <1>3. job'[j] = r /\ Alone(j)
    <2>1. job' = [job EXCEPT ![j] = r]
      OBVIOUS
    <2> HIDE DEF r
    <2> QED
      BY <1>1, <2>1 DEF Alone, JobsTyped
  <1> QED
    BY <1>2, <1>3

\* The same for one that may have published files under its reference.
LEMMA DroppedFacts ==
    ASSUME JobsTyped, NEW j \in Jobs,
           job' = [job EXCEPT ![j].kind = "other", ![j].pc = "stamp"]
    PROVE  /\ Alone(j)
           /\ job'[j].kind = "other" /\ job'[j].pc = "stamp"
           /\ job'[j].time = job[j].time /\ job'[j].ref = job[j].ref
           /\ job'[j].recorded = job[j].recorded /\ job'[j].end = job[j].end
  <1> DEFINE r == [job[j] EXCEPT !.kind = "other", !.pc = "stamp"]
  <1>1. job[j] \in JobType
    BY DEF JobsTyped
  <1>2. r \in JobType
    BY <1>1 DEF JobType, Places, Recording
  <1>3. /\ r.kind = "other" /\ r.pc = "stamp" /\ r.time = job[j].time /\ r.ref = job[j].ref
        /\ r.recorded = job[j].recorded /\ r.end = job[j].end
    BY <1>1 DEF JobType
  <1>4. job'[j] = r /\ Alone(j)
    <2>1. job' = [job EXCEPT ![j] = r]
      OBVIOUS
    <2> HIDE DEF r
    <2> QED
      BY <1>2, <2>1 DEF Alone, JobsTyped
  <1> QED
    BY <1>3, <1>4

\* A record of the right type put in the place of a job.
LEMMA UpdateFacts ==
    ASSUME JobsTyped, NEW j \in Jobs, NEW r \in JobType, job' = [job EXCEPT ![j] = r]
    PROVE  Alone(j) /\ job'[j] = r
  BY DEF Alone, JobsTyped

\* Put changes one name.
LEMMA PutFacts ==
    ASSUME TypeOK, NEW n \in Names, NEW c \in Jobs \cup {None}, Put(n, c)
    PROVE  /\ files' \in [Names -> Jobs \cup {None}]
           /\ files'[n] = c
           /\ \A m \in Names : m # n => files'[m] = files[m]
  BY DEF TypeOK, Put

\* The names of a job and of a reference are names, and differ.
LEMMA NameFacts ==
    ASSUME NEW part \in Parts
    PROVE  /\ \A j \in Jobs : <<part, j>> \in Names /\ <<part, j>> \in Pending
                              /\ <<part, j>> \notin Final /\ j # None
           /\ \A ref \in Refs : <<part, ref>> \in Names /\ <<part, ref>> \in Final
                                /\ <<part, ref>> \notin Pending
           /\ Names = Final \cup Pending
  BY StoreAssumption DEF Names, Final, Pending

\* What worker j does leaves every other job and its files as they should be.
LEMMA OthersKeep ==
    ASSUME IInv, NEW j \in Jobs, NEW k \in Jobs \ {j},
           job'[k] = job[k], Owns(j), synced' = synced \/ synced' = files
    PROVE  PhaseOK(k)' /\ FilesOK(k)' /\ PendingOK(k)'
  <1>1. PhaseOK(k) /\ FilesOK(k) /\ PendingOK(k)
    BY DEF IInv, JobsOK
  <1>2. PhaseOK(k)'
    BY <1>1 DEF PhaseOK
  <1>3. \A n \in Names : files[n] = k => files'[n] = k
    BY NameFacts, StoreAssumption DEF Owns
  <1>4. \A part \in Parts : files[<<part, k>>] = k => files'[<<part, k>>] = k
    BY <1>3, NameFacts
  <1>5. ASSUME job[k].ref \in Refs
        PROVE  /\ \A part \in Parts : files[<<part, job[k].ref>>] = k
                                         => files'[<<part, job[k].ref>>] = k
               /\ Intact(files, job[k].ref, k) => Intact(files, job[k].ref, k)'
               /\ Intact(files, job[k].ref, k) /\ Intact(synced, job[k].ref, k)
                     => Intact(synced, job[k].ref, k)'
    BY <1>3, <1>5, NameFacts DEF Intact
  <1>6. FilesOK(k)'
    <2>1. "binding" \in Parts /\ "plan" \in Parts
      BY DEF Parts
    <2> QED
      BY <1>1, <1>4, <1>5, <2>1 DEF FilesOK, PhaseOK, Writing, Removing
  <1>7. PendingOK(k)'
    <2>1. \A part \in Parts : <<part, k>> \in Names /\ <<part, k>> \in Parts \X (Jobs \ {j})
      BY NameFacts
    <2>2. \A part \in Parts : files'[<<part, k>>] = files[<<part, k>>]
      BY <2>1 DEF Owns
    <2> QED
      BY <1>1, <2>2 DEF PendingOK
  <1> QED
    BY <1>2, <1>6, <1>7

\* The pending names of worker j remain its own.
LEMMA PendingKept ==
    ASSUME NEW j, PendingOK(j), Owns(j), synced' = synced \/ synced' = files
    PROVE  PendingOK(j)'
  BY DEF PendingOK, Owns

\* A worker that leaves the directory alone owns what it changes there.
LEMMA SameFiles ==
    ASSUME IInv, NEW j \in Jobs, UNCHANGED files
    PROVE  files' \in [Names -> Jobs \cup {None}] /\ Owns(j)
  BY DEF IInv, TypeOK, Owns, JobsOK, PendingOK

\* Begin: a fresh job starts to write, to load or to record a failure.
LEMMA BeginStep ==
    ASSUME IInv, NEW j \in Jobs, Begin(j)
    PROVE  Worker(j)
  <1>0. TypeOK /\ JobsTyped /\ job[j] \in JobType /\ PhaseOK(j) /\ job[j].pc = "new"
    BY DEF IInv, JobsOK, JobsTyped, Begin, At
  <1>1. job[j] = Rest
    BY <1>0 DEF PhaseOK
  <1>2. /\ Rest.time = 0 /\ Rest.recorded = FALSE /\ Rest.end = None /\ Rest.refused = FALSE
    BY DEF Rest
  <1>3. files' \in [Names -> Jobs \cup {None}] /\ Owns(j)
    BY <1>0, SameFiles DEF Begin
  <1>4. \A ref \in Shown : ref \in Refs
    BY DEF Shown, IInv, JobsOK, PhaseOK
  <1>5. CASE job' = [job EXCEPT ![j].kind = "plan", ![j].pc = "choose"]
    <2> DEFINE r == [job[j] EXCEPT !.kind = "plan", !.pc = "choose"]
    <2>1. r \in JobType
      BY <1>0 DEF JobType, Places
    <2>2. job' = [job EXCEPT ![j] = r]
      BY <1>5
    <2>3. /\ r.kind = "plan" /\ r.pc = "choose" /\ r.time = job[j].time
          /\ r.recorded = job[j].recorded /\ r.end = job[j].end
      BY <1>0 DEF JobType
    <2> HIDE DEF r
    <2>4. Alone(j) /\ job'[j] = r
      BY <1>0, <2>1, <2>2, UpdateFacts
    <2>5. PhaseOK(j)' /\ FilesOK(j)'
      BY <1>1, <1>2, <2>3, <2>4, StoreAssumption
      DEF PhaseOK, FilesOK, Writing, Loading, Removing, Recording
    <2> QED
      BY <1>0, <1>1, <1>2, <1>3, <2>3, <2>4, <2>5 DEF Worker, Begin, At, RowKept, TypeOK
  <1>6. CASE \E ref \in Shown : job' = [job EXCEPT ![j].kind = "dry_run", ![j].ref = ref,
                                                   ![j].pc = "load_binding"]
    <2> PICK ref \in Shown : job' = [job EXCEPT ![j].kind = "dry_run", ![j].ref = ref,
                                                ![j].pc = "load_binding"]
      BY <1>6
    <2> DEFINE r == [job[j] EXCEPT !.kind = "dry_run", !.ref = ref, !.pc = "load_binding"]
    <2>0. ref \in Refs
      BY <1>4
    <2>1. r \in JobType
      BY <1>0, <2>0 DEF JobType, Places, Loading
    <2>2. job' = [job EXCEPT ![j] = r]
      OBVIOUS
    <2>3. /\ r.kind = "dry_run" /\ r.pc = "load_binding" /\ r.time = job[j].time
          /\ r.recorded = job[j].recorded /\ r.end = job[j].end /\ r.ref = ref
      BY <1>0 DEF JobType
    <2> HIDE DEF r
    <2>4. Alone(j) /\ job'[j] = r
      BY <1>0, <2>1, <2>2, UpdateFacts
    <2>5. PhaseOK(j)' /\ FilesOK(j)'
      BY <1>1, <1>2, <2>0, <2>3, <2>4, StoreAssumption
      DEF PhaseOK, FilesOK, Writing, Loading, Removing, Recording
    <2> QED
      BY <1>0, <1>1, <1>2, <1>3, <2>3, <2>4, <2>5 DEF Worker, Begin, At, RowKept, TypeOK
  <1>7. CASE job' = [job EXCEPT ![j].kind = "other", ![j].pc = "stamp"]
    <2>1. job' = [job EXCEPT ![j] = [Rest EXCEPT !.kind = "other", !.pc = "stamp"]]
      BY <1>1, <1>7
    <2>2. /\ Alone(j)
          /\ job'[j].kind = "other" /\ job'[j].pc = "stamp" /\ job'[j].time = 0
          /\ job'[j].recorded = FALSE /\ job'[j].end = None
      BY <1>0, <2>1, FailedFacts
    <2>3. PhaseOK(j)' /\ FilesOK(j)'
      BY <2>2, StoreAssumption DEF PhaseOK, FilesOK, Writing, Loading, Removing, Recording
    <2> QED
      BY <1>0, <1>1, <1>2, <1>3, <2>2, <2>3 DEF Worker, Begin, At, RowKept, TypeOK
  <1> QED
    BY <1>5, <1>6, <1>7 DEF Begin

\* The error paths before the record: the job goes on as a failed one.
LEMMA FailedStep ==
    ASSUME IInv, NEW j \in Jobs, process = "up", UNCHANGED storage, ~job[j].recorded,
           job' = [job EXCEPT ![j] = [Rest EXCEPT !.kind = "other", !.pc = "stamp"]],
           files' \in [Names -> Jobs \cup {None}], Owns(j),
           UNCHANGED synced, UNCHANGED workerFailed
    PROVE  Worker(j)
  <1>0. TypeOK /\ JobsTyped
    BY DEF IInv
  <1>1. /\ Alone(j)
        /\ job'[j].kind = "other" /\ job'[j].pc = "stamp" /\ job'[j].time = 0
        /\ job'[j].recorded = FALSE /\ job'[j].end = None
    BY <1>0, FailedFacts
  <1>2. PhaseOK(j)' /\ FilesOK(j)'
    BY <1>1, StoreAssumption DEF PhaseOK, FilesOK, Writing, Loading, Removing, Recording
  <1> QED
    BY <1>0, <1>1, <1>2 DEF Worker, RowKept, TypeOK

\* A step that only moves the pc keeps the row and the time of the job.
LEMMA MovedStep ==
    ASSUME IInv, NEW j \in Jobs, NEW pc \in Places, Goto(j, pc),
           process = "up", UNCHANGED storage, workerFailed' \in BOOLEAN,
           files' \in [Names -> Jobs \cup {None}], Owns(j),
           synced' = synced \/ synced' = files,
           PhaseOK(j)', FilesOK(j)'
    PROVE  Worker(j)
  <1>1. Alone(j) /\ Moved(j, pc)
    BY GotoFacts DEF IInv
  <1> QED
    BY <1>1 DEF Worker, RowKept, Moved

\* Choose: the reference drawn is free, or is drawn again, or the job fails.
LEMMA ChooseStep ==
    ASSUME IInv, NEW j \in Jobs, Choose(j)
    PROVE  Worker(j)
  <1>0. /\ TypeOK /\ JobsTyped /\ job[j] \in JobType /\ PhaseOK(j)
        /\ job[j].pc = "choose" /\ process = "up"
    BY DEF IInv, JobsOK, JobsTyped, Choose, At
  <1>1. ~job[j].recorded /\ job[j].kind = "plan" /\ job[j].end # "Completed"
    BY <1>0 DEF PhaseOK, Removing, Writing
  <1>2. files' \in [Names -> Jobs \cup {None}] /\ Owns(j)
    BY <1>0, SameFiles DEF Choose
  <1>3. UNCHANGED storage /\ UNCHANGED synced /\ UNCHANGED workerFailed
    BY DEF Choose
  <1> PICK ref \in Refs :
         job' = CASE ~Exists(ref) ->
                       [job EXCEPT ![j].ref = ref, ![j].tries = 0,
                                   ![j].pc = "write_binding"]
                  [] Exists(ref) /\ job[j].tries + 1 < Attempts ->
                       [job EXCEPT ![j].tries = @ + 1]
                  [] OTHER -> [job EXCEPT ![j] = [Rest EXCEPT !.kind = "other",
                                                           !.pc = "stamp"]]
    BY DEF Choose
  <1>4. CASE ~Exists(ref)
    <2> DEFINE r == [job[j] EXCEPT !.ref = ref, !.tries = 0, !.pc = "write_binding"]
    <2>1. r \in JobType
      BY <1>0 DEF JobType, Places, Writing
    <2>2. job' = [job EXCEPT ![j] = r]
      BY <1>4
    <2>3. /\ r.kind = "plan" /\ r.pc = "write_binding" /\ r.time = job[j].time
          /\ r.recorded = job[j].recorded /\ r.end = job[j].end /\ r.ref = ref
      BY <1>0, <1>1 DEF JobType
    <2> HIDE DEF r
    <2>4. Alone(j) /\ job'[j] = r
      BY <1>0, <2>1, <2>2, UpdateFacts
    <2>5. PhaseOK(j)' /\ FilesOK(j)'
      BY <1>1, <2>3, <2>4 DEF PhaseOK, FilesOK, Writing, Loading, Removing, Recording
    <2> QED
      BY <1>0, <1>1, <1>2, <1>3, <2>3, <2>4, <2>5 DEF Worker, RowKept, TypeOK
  <1>5. CASE Exists(ref) /\ job[j].tries + 1 < Attempts
    <2> DEFINE r == [job[j] EXCEPT !.tries = @ + 1]
    <2>1. r \in JobType
      BY <1>0 DEF JobType
    <2>2. job' = [job EXCEPT ![j] = r]
      BY <1>5
    <2>3. /\ r.kind = "plan" /\ r.pc = "choose" /\ r.time = job[j].time
          /\ r.recorded = job[j].recorded /\ r.end = job[j].end
      BY <1>0, <1>1 DEF JobType
    <2> HIDE DEF r
    <2>4. Alone(j) /\ job'[j] = r
      BY <1>0, <2>1, <2>2, UpdateFacts
    <2>5. PhaseOK(j)' /\ FilesOK(j)'
      BY <1>1, <2>3, <2>4 DEF PhaseOK, FilesOK, Writing, Loading, Removing, Recording
    <2> QED
      BY <1>0, <1>1, <1>2, <1>3, <2>3, <2>4, <2>5 DEF Worker, RowKept, TypeOK
  <1>6. CASE Exists(ref) /\ ~(job[j].tries + 1 < Attempts)
    <2>1. job' = [job EXCEPT ![j] = [Rest EXCEPT !.kind = "other", !.pc = "stamp"]]
      BY <1>6
    <2> QED
      BY <1>0, <1>1, <1>2, <1>3, <2>1, FailedStep
  <1> QED
    BY <1>4, <1>5, <1>6

\* A worker that writes its plan is at work on it until it is recorded.
LEMMA WritingPhase ==
    ASSUME IInv, NEW j \in Jobs, job[j].pc \in Writing,
           NEW pc \in Writing \cup {"stamp"}, Goto(j, pc)
    PROVE  /\ pc \in Places /\ Alone(j) /\ Moved(j, pc) /\ PhaseOK(j)'
           /\ job[j].ref \in Refs /\ job[j].kind = "plan" /\ ~job[j].recorded
  <1>1. JobsTyped /\ PhaseOK(j)
    BY DEF IInv, JobsOK
  <1>2. pc \in Places
    BY DEF Places, Recording
  <1>3. Alone(j) /\ Moved(j, pc)
    BY <1>1, <1>2, GotoFacts
  <1>4. job[j].ref \in Refs /\ job[j].kind = "plan" /\ ~job[j].recorded
    BY <1>1 DEF PhaseOK, Writing, Removing
  <1>5. job[j].end # "Completed"
    BY <1>1 DEF PhaseOK, Writing
  <1>6. PhaseOK(j)'
    BY <1>3, <1>4, <1>5 DEF PhaseOK, Moved, Writing, Loading, Removing, Recording
  <1> QED
    BY <1>2, <1>3, <1>4, <1>6

\* A worker may put its write under, or remove it from, a name that is free or
\* its own, and that is not a pending name of another.
LEMMA PutOwns ==
    ASSUME IInv, NEW j \in Jobs, NEW c \in {None, j}, NEW part \in Parts,
           NEW who \in Refs \cup {j}, files[<<part, who>>] \in {None, j},
           Put(<<part, who>>, c)
    PROVE  /\ files' \in [Names -> Jobs \cup {None}] /\ Owns(j)
           /\ files'[<<part, who>>] = c
           /\ \A m \in Names : m # <<part, who>> => files'[m] = files[m]
  <1>1. <<part, who>> \in Names /\ <<part, who>> \notin Parts \X (Jobs \ {j})
    BY NameFacts, StoreAssumption
  <1>2. /\ files' \in [Names -> Jobs \cup {None}]
        /\ files'[<<part, who>>] = c
        /\ \A m \in Names : m # <<part, who>> => files'[m] = files[m]
    BY <1>1, PutFacts DEF IInv
  <1>3. \A p \in Parts : files'[<<p, j>>] \in {None, j}
    <2> TAKE p \in Parts
    <2>1. <<p, j>> \in Names /\ files[<<p, j>>] \in {None, j}
      BY NameFacts DEF IInv, JobsOK, PendingOK
    <2> QED
      BY <1>2, <2>1
  <1>4. Owns(j)
    BY <1>1, <1>2, <1>3 DEF Owns
  <1> QED
    BY <1>2, <1>4

\* WritePending: the pending names are the job's own.
LEMMA PendingStep ==
    ASSUME IInv, NEW j \in Jobs, WritePending(j)
    PROVE  Worker(j)
  <1>0. /\ PendingOK(j) /\ FilesOK(j) /\ process = "up" /\ UNCHANGED storage
        /\ UNCHANGED synced /\ workerFailed' \in BOOLEAN
    BY DEF IInv, JobsOK, WritePending, At, TypeOK
  <1>1. /\ "binding" \in Parts /\ "plan" \in Parts
        /\ <<"binding", j>> \in Names /\ <<"plan", j>> \in Names
        /\ <<"plan", j>> # <<"binding", j>>
    BY NameFacts DEF Parts
  <1>2. CASE At(j, "write_binding") /\ Put(<<"binding", j>>, j) /\ Goto(j, "write_plan")
    <2>1. job[j].pc \in Writing /\ "write_plan" \in Writing
      BY <1>2 DEF At, Writing
    <2>2. "write_plan" \in Places /\ Moved(j, "write_plan") /\ PhaseOK(j)' /\ ~job[j].recorded
      BY <1>2, <2>1, WritingPhase
    <2>3. /\ files' \in [Names -> Jobs \cup {None}] /\ Owns(j)
          /\ files'[<<"binding", j>>] = j
      BY <1>0, <1>1, <1>2, PutOwns DEF PendingOK
    <2>4. FilesOK(j)'
      BY <2>2, <2>3 DEF FilesOK, Moved, Recording
    <2> QED
      BY <1>0, <1>2, <2>2, <2>3, <2>4, MovedStep
  <1>3. CASE At(j, "write_plan") /\ Put(<<"plan", j>>, j) /\ Goto(j, "check")
    <2>1. job[j].pc \in Writing /\ "check" \in Writing
      BY <1>3 DEF At, Writing
    <2>2. "check" \in Places /\ Moved(j, "check") /\ PhaseOK(j)' /\ ~job[j].recorded
      BY <1>3, <2>1, WritingPhase
    <2>3. /\ files' \in [Names -> Jobs \cup {None}] /\ Owns(j)
          /\ files'[<<"plan", j>>] = j
          /\ files'[<<"binding", j>>] = files[<<"binding", j>>]
      BY <1>0, <1>1, <1>3, PutOwns DEF PendingOK
    <2>4. FilesOK(j)'
      BY <1>0, <1>3, <2>2, <2>3 DEF FilesOK, Moved, Recording, At
    <2> QED
      BY <1>0, <1>3, <2>2, <2>3, <2>4, MovedStep
  <1> QED
    BY <1>2, <1>3 DEF WritePending

\* The scan moves the worker only: to the scan, then to the links or the cleanup.
LEMMA ScanStep ==
    ASSUME IInv, NEW j \in Jobs, StartScan(j) \/ EndScan(j)
    PROVE  Worker(j)
  <1>0. /\ FilesOK(j) /\ process = "up" /\ job[j].pc \in {"check", "scan"}
        /\ UNCHANGED storage /\ UNCHANGED synced /\ UNCHANGED files
        /\ workerFailed' \in BOOLEAN
    BY DEF IInv, JobsOK, StartScan, EndScan, At, TypeOK
  <1>1. PICK pc \in {"scan", "link_binding", "cleanup"} : Goto(j, pc)
    BY DEF StartScan, EndScan
  <1>2. pc \in Places /\ Moved(j, pc) /\ PhaseOK(j)' /\ ~job[j].recorded
    BY <1>0, <1>1, WritingPhase DEF Writing
  <1>3. FilesOK(j)'
    BY <1>0, <1>1, <1>2 DEF FilesOK, Moved, Recording
  <1> QED
    BY <1>0, <1>1, <1>2, <1>3, SameFiles, MovedStep

\* Publish: a name is linked only where it is free, and the names unlinked are
\* the pending ones and the binding the job has linked itself.
LEMMA PublishStep ==
    ASSUME IInv, NEW j \in Jobs, Publish(j)
    PROVE  Worker(j)
  <1>0. /\ FilesOK(j) /\ PendingOK(j) /\ process = "up" /\ UNCHANGED storage
        /\ UNCHANGED synced /\ workerFailed' \in BOOLEAN
    BY DEF IInv, JobsOK, Publish, At, TypeOK
  <1>p. "binding" \in Parts /\ "plan" \in Parts
    BY DEF Parts
  <1>w. job[j].pc \in {"link_binding", "unlink_binding", "link_plan", "unlink_plan"}
    BY DEF Publish, At
  <1> DEFINE ref == job[j].ref
  <1>r. ref \in Refs /\ job[j].pc \in Writing
    BY <1>w DEF IInv, JobsOK, PhaseOK, Writing
  <1>n. /\ <<"binding", ref>> \in Names /\ <<"plan", ref>> \in Names
        /\ <<"binding", j>> \in Names /\ <<"plan", j>> \in Names
        /\ ref # j
    BY <1>p, <1>r, NameFacts, StoreAssumption
  <1> HIDE DEF ref
  <1>1. CASE /\ At(j, "link_binding") /\ files[<<"binding", ref>>] = None
             /\ Put(<<"binding", ref>>, j) /\ Goto(j, "unlink_binding")
    <2>2. /\ "unlink_binding" \in Places /\ Moved(j, "unlink_binding")
          /\ PhaseOK(j)' /\ ~job[j].recorded
      BY <1>1, <1>r, WritingPhase DEF Writing
    <2>3. /\ files' \in [Names -> Jobs \cup {None}] /\ Owns(j)
          /\ files'[<<"binding", ref>>] = j
          /\ \A m \in Names : m # <<"binding", ref>> => files'[m] = files[m]
      BY <1>p, <1>r, <1>1, PutOwns
    <2>4. FilesOK(j)'
      BY <1>0, <1>n, <1>1, <2>2, <2>3 DEF FilesOK, Moved, Recording, At, ref
    <2> QED
      BY <1>0, <1>1, <2>2, <2>3, <2>4, MovedStep
  <1>2. CASE At(j, "link_binding") /\ UNCHANGED files /\ Goto(j, "cleanup")
    <2>2. "cleanup" \in Places /\ Moved(j, "cleanup") /\ PhaseOK(j)' /\ ~job[j].recorded
      BY <1>2, <1>r, WritingPhase DEF Writing
    <2>3. FilesOK(j)'
      BY <2>2 DEF FilesOK, Moved, Recording
    <2> QED
      BY <1>0, <1>2, <2>2, <2>3, SameFiles, MovedStep
  <1>3. CASE At(j, "unlink_binding") /\ Put(<<"binding", j>>, None) /\ Goto(j, "link_plan")
    <2>2. /\ "link_plan" \in Places /\ Moved(j, "link_plan") /\ PhaseOK(j)'
          /\ ~job[j].recorded
      BY <1>3, <1>r, WritingPhase DEF Writing
    <2>3. /\ files' \in [Names -> Jobs \cup {None}] /\ Owns(j)
          /\ \A m \in Names : m # <<"binding", j>> => files'[m] = files[m]
      BY <1>0, <1>p, <1>3, PutOwns DEF PendingOK
    <2>4. FilesOK(j)'
      BY <1>0, <1>n, <1>3, <2>2, <2>3 DEF FilesOK, Moved, Recording, At, ref
    <2> QED
      BY <1>0, <1>3, <2>2, <2>3, <2>4, MovedStep
  <1>4. CASE /\ At(j, "link_plan") /\ files[<<"plan", ref>>] = None
             /\ Put(<<"plan", ref>>, j) /\ Goto(j, "unlink_plan")
    <2>2. /\ "unlink_plan" \in Places /\ Moved(j, "unlink_plan")
          /\ PhaseOK(j)' /\ ~job[j].recorded
      BY <1>4, <1>r, WritingPhase DEF Writing
    <2>3. /\ files' \in [Names -> Jobs \cup {None}] /\ Owns(j)
          /\ files'[<<"plan", ref>>] = j
          /\ \A m \in Names : m # <<"plan", ref>> => files'[m] = files[m]
      BY <1>p, <1>r, <1>4, PutOwns
    <2>4. FilesOK(j)'
      BY <1>0, <1>n, <1>4, <2>2, <2>3 DEF FilesOK, Moved, Recording, At, ref
    <2> QED
      BY <1>0, <1>4, <2>2, <2>3, <2>4, MovedStep
  <1>5. CASE /\ At(j, "link_plan")
             /\ Put(<<"binding", ref>>, None) /\ Goto(j, "cleanup")
    <2>2. "cleanup" \in Places /\ Moved(j, "cleanup") /\ PhaseOK(j)' /\ ~job[j].recorded
      BY <1>5, <1>r, WritingPhase DEF Writing
    <2>3. files[<<"binding", ref>>] = j
      BY <1>0, <1>5 DEF FilesOK, At, ref
    <2>4. files' \in [Names -> Jobs \cup {None}] /\ Owns(j)
      BY <1>p, <1>r, <1>5, <2>3, PutOwns
    <2>5. FilesOK(j)'
      BY <2>2 DEF FilesOK, Moved, Recording
    <2> QED
      BY <1>0, <1>5, <2>2, <2>4, <2>5, MovedStep
  <1>6. CASE At(j, "unlink_plan") /\ Put(<<"plan", j>>, None) /\ Goto(j, "sync")
    <2>2. "sync" \in Places /\ Moved(j, "sync") /\ PhaseOK(j)' /\ ~job[j].recorded
      BY <1>6, <1>r, WritingPhase DEF Writing
    <2>3. /\ files' \in [Names -> Jobs \cup {None}] /\ Owns(j)
          /\ \A m \in Names : m # <<"plan", j>> => files'[m] = files[m]
      BY <1>0, <1>p, <1>6, PutOwns DEF PendingOK
    <2>4. FilesOK(j)'
      BY <1>0, <1>n, <1>6, <2>2, <2>3 DEF FilesOK, Moved, Recording, At, ref
    <2> QED
      BY <1>0, <1>6, <2>2, <2>3, <2>4, MovedStep
  <1> QED
    BY <1>1, <1>2, <1>3, <1>4, <1>5, <1>6 DEF Publish, ref

\* Sync: both final names hold the job's write when the directory is synced.
LEMMA SyncStep ==
    ASSUME IInv, NEW j \in Jobs, Sync(j)
    PROVE  Worker(j)
  <1>0. /\ FilesOK(j) /\ process = "up" /\ job[j].pc = "sync" /\ UNCHANGED storage
        /\ synced' = files /\ UNCHANGED files /\ workerFailed' \in BOOLEAN
        /\ Goto(j, "stamp")
    BY DEF IInv, JobsOK, Sync, At, TypeOK
  <1>1. "stamp" \in Places /\ Moved(j, "stamp") /\ PhaseOK(j)' /\ ~job[j].recorded
    BY <1>0, WritingPhase DEF Writing
  <1>2. Intact(files, job[j].ref, j)
    BY <1>0 DEF FilesOK, Intact, Parts
  <1>3. FilesOK(j)'
    BY <1>0, <1>1, <1>2 DEF FilesOK, Moved, Intact
  <1> QED
    BY <1>0, <1>1, <1>3, SameFiles, MovedStep

\* Cleanup removes the two pending names of the job.
LEMMA CleanupStep ==
    ASSUME IInv, NEW j \in Jobs, Cleanup(j)
    PROVE  Worker(j)
  <1>0. /\ TypeOK /\ PhaseOK(j) /\ PendingOK(j) /\ process = "up" /\ job[j].pc = "cleanup"
        /\ UNCHANGED storage /\ UNCHANGED synced /\ UNCHANGED workerFailed
    BY DEF IInv, JobsOK, Cleanup, At
  <1>1. ~job[j].recorded /\ job[j].end # "Completed"
    BY <1>0 DEF PhaseOK, Removing
  <1>2. /\ <<"binding", j>> \in Names /\ <<"plan", j>> \in Names
        /\ <<"binding", j>> \notin Parts \X (Jobs \ {j})
        /\ <<"plan", j>> \notin Parts \X (Jobs \ {j})
    BY NameFacts DEF Parts
  <1>3. files' = [files EXCEPT ![<<"plan", j>>] = None, ![<<"binding", j>>] = None]
    BY DEF Cleanup
  <1>4. /\ files' \in [Names -> Jobs \cup {None}]
        /\ files'[<<"plan", j>>] = None /\ files'[<<"binding", j>>] = None
        /\ \A m \in Names : (m # <<"plan", j>> /\ m # <<"binding", j>>)
                               => files'[m] = files[m]
    BY <1>0, <1>2, <1>3 DEF TypeOK
  <1>5. files[<<"plan", j>>] \in {None, j} /\ files[<<"binding", j>>] \in {None, j}
    BY <1>0 DEF PendingOK, Parts
  <1>6. Owns(j)
    BY <1>2, <1>4, <1>5 DEF Owns, Parts
  <1>7. /\ Alone(j)
        /\ job'[j].kind = "other" /\ job'[j].pc = "stamp" /\ job'[j].time = job[j].time
        /\ job'[j].recorded = job[j].recorded /\ job'[j].end = job[j].end
    BY DroppedFacts DEF Cleanup, IInv
  <1>8. PhaseOK(j)' /\ FilesOK(j)'
    BY <1>1, <1>7 DEF PhaseOK, FilesOK, Writing, Loading, Removing, Recording
  <1> QED
    BY <1>0, <1>1, <1>4, <1>6, <1>7, <1>8 DEF Worker, RowKept, TypeOK

\* Load: what a dry run reads does not change what it is.
LEMMA LoadStep ==
    ASSUME IInv, NEW j \in Jobs, Load(j)
    PROVE  Worker(j)
  <1>0. /\ TypeOK /\ JobsTyped /\ job[j] \in JobType /\ PhaseOK(j) /\ process = "up"
        /\ UNCHANGED storage /\ UNCHANGED synced /\ UNCHANGED workerFailed
    BY DEF IInv, JobsOK, JobsTyped, Load, At
  <1>1. job[j].pc \in Loading
    BY DEF Load, At, Loading
  <1>2. /\ ~job[j].recorded /\ job[j].kind = "dry_run" /\ job[j].ref \in Refs
        /\ job[j].end # "Completed"
    BY <1>0, <1>1 DEF PhaseOK, Loading, Removing
  <1>3. files' \in [Names -> Jobs \cup {None}] /\ Owns(j)
    BY SameFiles DEF Load
  <1>4. \A part \in Parts : LoadFile(j, part) \in Jobs \cup {None}
    BY <1>0, <1>2, NameFacts DEF LoadFile, TypeOK
  <1>5. CASE job' = [job EXCEPT ![j] = [Rest EXCEPT !.kind = "other", !.pc = "stamp"]]
    BY <1>0, <1>2, <1>3, <1>5, FailedStep
  <1>6. CASE \E r \in JobType :
               /\ job' = [job EXCEPT ![j] = r]
               /\ r.kind = job[j].kind /\ r.ref = job[j].ref /\ r.time = job[j].time
               /\ r.recorded = job[j].recorded /\ r.end = job[j].end
               /\ r.pc \in {"load_plan", "load_check", "stamp"}
    <2>1. PICK r \in JobType :
               /\ job' = [job EXCEPT ![j] = r]
               /\ r.kind = job[j].kind /\ r.ref = job[j].ref /\ r.time = job[j].time
               /\ r.recorded = job[j].recorded /\ r.end = job[j].end
               /\ r.pc \in {"load_plan", "load_check", "stamp"}
      BY <1>6
    <2>2. Alone(j) /\ job'[j] = r
      BY <1>0, <2>1, UpdateFacts
    <2>3. PhaseOK(j)' /\ FilesOK(j)'
      BY <1>2, <2>1, <2>2 DEF PhaseOK, FilesOK, Writing, Loading, Removing, Recording
    <2> QED
      BY <1>0, <1>2, <1>3, <2>1, <2>2, <2>3 DEF Worker, RowKept, TypeOK
  <1>7. CASE /\ At(j, "load_binding")
             /\ job' = [job EXCEPT ![j].binding = LoadFile(j, "binding"),
                                   ![j].pc = "load_plan"]
    <2> DEFINE r == [job[j] EXCEPT !.binding = LoadFile(j, "binding"), !.pc = "load_plan"]
    <2>1. LoadFile(j, "binding") \in Jobs \cup {None}
      BY <1>4 DEF Parts
    <2>2. r \in JobType
      BY <1>0, <2>1 DEF JobType, Places, Loading
    <2>3. job' = [job EXCEPT ![j] = r]
      BY <1>7
    <2>4. /\ r.kind = job[j].kind /\ r.ref = job[j].ref /\ r.time = job[j].time
          /\ r.recorded = job[j].recorded /\ r.end = job[j].end
          /\ r.pc = "load_plan"
      BY <1>0 DEF JobType
    <2> HIDE DEF r
    <2> QED
      BY <1>6, <2>2, <2>3, <2>4
  <1>8. CASE /\ At(j, "load_plan")
             /\ job' = [job EXCEPT ![j].plan = LoadFile(j, "plan"),
                                   ![j].pc = "load_check"]
    <2> DEFINE r == [job[j] EXCEPT !.plan = LoadFile(j, "plan"), !.pc = "load_check"]
    <2>1. LoadFile(j, "plan") \in Jobs \cup {None}
      BY <1>4 DEF Parts
    <2>2. r \in JobType
      BY <1>0, <2>1 DEF JobType, Places, Loading
    <2>3. job' = [job EXCEPT ![j] = r]
      BY <1>8
    <2>4. /\ r.kind = job[j].kind /\ r.ref = job[j].ref /\ r.time = job[j].time
          /\ r.recorded = job[j].recorded /\ r.end = job[j].end
          /\ r.pc = "load_check"
      BY <1>0 DEF JobType
    <2> HIDE DEF r
    <2> QED
      BY <1>6, <2>2, <2>3, <2>4
  <1>9. CASE /\ At(j, "load_check")
             /\ job' = [job EXCEPT ![j].pc = "stamp", ![j].binding = None,
                                   ![j].plan = None]
    <2> DEFINE r == [job[j] EXCEPT !.pc = "stamp", !.binding = None, !.plan = None]
    <2>2. r \in JobType
      BY <1>0 DEF JobType, Places, Recording
    <2>3. job' = [job EXCEPT ![j] = r]
      BY <1>9
    <2>4. /\ r.kind = job[j].kind /\ r.ref = job[j].ref /\ r.time = job[j].time
          /\ r.recorded = job[j].recorded /\ r.end = job[j].end
          /\ r.pc = "stamp"
      BY <1>0 DEF JobType
    <2> HIDE DEF r
    <2> QED
      BY <1>6, <2>2, <2>3, <2>4
  <1> QED
    BY <1>5, <1>7, <1>8, <1>9 DEF Load

\* Stamp: the plan of the job stays where it was published.
LEMMA StampStep ==
    ASSUME IInv, NEW j \in Jobs, Stamp(j)
    PROVE  Worker(j)
  <1>0. /\ TypeOK /\ JobsTyped /\ job[j] \in JobType /\ PhaseOK(j) /\ FilesOK(j)
        /\ process = "up" /\ job[j].pc = "stamp" /\ UNCHANGED <<files, synced>>
        /\ UNCHANGED storage /\ UNCHANGED workerFailed
    BY DEF IInv, JobsOK, JobsTyped, Stamp, At
  <1>1. ~job[j].recorded /\ job[j].end # "Completed"
    BY <1>0 DEF PhaseOK, Removing
  <1> DEFINE r == [job[j] EXCEPT !.time = clock, !.pc = "commit"]
  <1>2. r \in JobType
    <2>1. clock \in Nat
      BY <1>0, StoreAssumption DEF TypeOK
    <2> QED
      BY <1>0, <2>1 DEF JobType, Places, Recording
  <1>3. job' = [job EXCEPT ![j] = r]
    BY DEF Stamp
  <1>4. /\ r.kind = job[j].kind /\ r.ref = job[j].ref /\ r.time = clock
        /\ r.recorded = job[j].recorded /\ r.end = job[j].end /\ r.pc = "commit"
    BY <1>0 DEF JobType
  <1> HIDE DEF r
  <1>5. Alone(j) /\ job'[j] = r
    BY <1>0, <1>2, <1>3, UpdateFacts
  <1>6. PhaseOK(j)' /\ FilesOK(j)'
    BY <1>0, <1>1, <1>4, <1>5
    DEF PhaseOK, FilesOK, Intact, Writing, Loading, Removing, Recording
  <1> QED
    BY <1>0, <1>1, <1>4, <1>5, <1>6, SameFiles DEF Worker, RowKept, TypeOK

\* Commit: the job is recorded, and its plan stays.
LEMMA CommitStep ==
    ASSUME IInv, NEW j \in Jobs, Commit(j)
    PROVE  /\ Worker(j) /\ job'[j].recorded /\ job'[j].kind = job[j].kind
           /\ job'[j].time = job[j].time
  <1>0. /\ TypeOK /\ JobsTyped /\ job[j] \in JobType /\ PhaseOK(j) /\ FilesOK(j)
        /\ process = "up" /\ job[j].pc = "commit" /\ UNCHANGED <<files, synced>>
        /\ UNCHANGED storage /\ UNCHANGED workerFailed
    BY DEF IInv, JobsOK, JobsTyped, Commit, At
  <1>1. ~job[j].recorded /\ job[j].end # "Completed"
    BY <1>0 DEF PhaseOK, Removing
  <1> DEFINE r == [job[j] EXCEPT !.recorded = TRUE, !.pc = "maintain"]
  <1>2. r \in JobType
    BY <1>0 DEF JobType, Places, Recording
  <1>3. job' = [job EXCEPT ![j] = r]
    BY DEF Commit
  <1>4. /\ r.kind = job[j].kind /\ r.ref = job[j].ref /\ r.time = job[j].time
        /\ r.recorded = TRUE /\ r.end = job[j].end /\ r.pc = "maintain"
    BY <1>0 DEF JobType
  <1> HIDE DEF r
  <1>5. Alone(j) /\ job'[j] = r
    BY <1>0, <1>2, <1>3, UpdateFacts
  <1>6. PhaseOK(j)' /\ FilesOK(j)'
    BY <1>0, <1>1, <1>4, <1>5
    DEF PhaseOK, FilesOK, Intact, Writing, Loading, Removing, Recording
  <1> QED
    BY <1>0, <1>1, <1>4, <1>5, <1>6, SameFiles DEF Worker, RowKept, TypeOK

\* End moves one worker to its last place.
LEMMA EndFacts ==
    ASSUME JobsTyped, NEW j \in Jobs, NEW end \in {"Completed", "Failed"}, End(j, end)
    PROVE  /\ Alone(j) /\ job'[j].pc = "done" /\ job'[j].end = end
           /\ job'[j].kind = job[j].kind /\ job'[j].ref = job[j].ref
           /\ job'[j].time = job[j].time /\ job'[j].recorded = job[j].recorded
           /\ job'[j].refused = job[j].refused
  <1> DEFINE r == [job[j] EXCEPT !.pc = "done", !.end = end]
  <1>1. job[j] \in JobType
    BY DEF JobsTyped
  <1>2. r \in JobType
    BY <1>1 DEF JobType, Places
  <1>3. job' = [job EXCEPT ![j] = r]
    BY DEF End
  <1>4. /\ r.pc = "done" /\ r.end = end
        /\ r.kind = job[j].kind /\ r.ref = job[j].ref
        /\ r.time = job[j].time /\ r.recorded = job[j].recorded
        /\ r.refused = job[j].refused
    BY <1>1 DEF JobType
  <1> HIDE DEF r
  <1> QED
    BY <1>2, <1>3, <1>4, UpdateFacts

\* Finish ends the job; its plan stays.
LEMMA FinishStep ==
    ASSUME IInv, NEW j \in Jobs, Finish(j)
    PROVE  Worker(j)
  <1>0. /\ TypeOK /\ JobsTyped /\ PhaseOK(j) /\ FilesOK(j)
        /\ process = "up" /\ job[j].pc = "maintain" /\ UNCHANGED <<files, synced>>
        /\ UNCHANGED storage /\ UNCHANGED workerFailed
    BY DEF IInv, JobsOK, JobsTyped, Finish, At
  <1>1. job[j].recorded
    BY <1>0 DEF PhaseOK
  <1>2. PICK end \in {"Completed", "Failed"} : End(j, end)
    BY DEF Finish
  <1>3. /\ Alone(j) /\ job'[j].pc = "done" /\ job'[j].end = end
        /\ job'[j].kind = job[j].kind /\ job'[j].ref = job[j].ref
        /\ job'[j].time = job[j].time /\ job'[j].recorded = job[j].recorded
        /\ job'[j].refused = job[j].refused
    BY <1>0, <1>2, EndFacts
  <1>4. PhaseOK(j)' /\ FilesOK(j)'
    BY <1>0, <1>1, <1>3
    DEF PhaseOK, FilesOK, Intact, Writing, Loading, Removing, Recording
  <1> QED
    BY <1>0, <1>1, <1>3, <1>4, SameFiles DEF Worker, RowKept, TypeOK

\* RemovePlan: a refused plan job removes the files it has published itself.
LEMMA RemoveStep ==
    ASSUME IInv, NEW j \in Jobs, RemovePlan(j)
    PROVE  Worker(j)
  <1>0. /\ TypeOK /\ JobsTyped /\ PhaseOK(j) /\ FilesOK(j)
        /\ process = "up" /\ job[j].pc \in Removing /\ UNCHANGED storage
        /\ workerFailed' \in BOOLEAN
    BY DEF IInv, JobsOK, RemovePlan, At, Removing, TypeOK
  <1>1. /\ job[j].kind = "plan" /\ job[j].refused /\ job[j].ref \in Refs
        /\ job[j].end # "Completed" /\ "binding" \in Parts /\ "plan" \in Parts
    BY <1>0 DEF PhaseOK, Removing, Parts
  <1> DEFINE ref == job[j].ref
  <1>2. CASE At(j, "remove_plan") /\ Put(<<"plan", ref>>, None)
             /\ Goto(j, "remove_binding") /\ UNCHANGED synced
    <2>1. "remove_binding" \in Places
      BY DEF Places, Removing
    <2>2. Alone(j) /\ Moved(j, "remove_binding")
      BY <1>0, <1>2, <2>1, GotoFacts
    <2>3. files[<<"plan", ref>>] = j /\ files[<<"binding", ref>>] = j
      BY <1>0, <1>1, <1>2 DEF FilesOK, Intact, At
    <2>4. /\ files' \in [Names -> Jobs \cup {None}] /\ Owns(j)
          /\ \A m \in Names : m # <<"plan", ref>> => files'[m] = files[m]
      BY <1>1, <1>2, <2>3, PutOwns
    <2>5. files'[<<"binding", ref>>] = j
      BY <1>1, <2>3, <2>4, NameFacts
    <2>6. PhaseOK(j)' /\ FilesOK(j)'
      BY <1>0, <1>1, <2>2, <2>5
      DEF PhaseOK, FilesOK, Moved, Writing, Loading, Removing, Recording
    <2> QED
      BY <1>0, <1>2, <2>1, <2>4, <2>6, MovedStep
  <1>3. CASE At(j, "remove_binding") /\ Put(<<"binding", ref>>, None)
             /\ Goto(j, "remove_sync") /\ UNCHANGED synced
    <2>1. "remove_sync" \in Places
      BY DEF Places, Removing
    <2>2. Alone(j) /\ Moved(j, "remove_sync")
      BY <1>0, <1>3, <2>1, GotoFacts
    <2>3. files[<<"binding", ref>>] = j
      BY <1>0, <1>3 DEF FilesOK, At
    <2>4. files' \in [Names -> Jobs \cup {None}] /\ Owns(j)
      BY <1>1, <1>3, <2>3, PutOwns
    <2>6. PhaseOK(j)' /\ FilesOK(j)'
      BY <1>0, <1>1, <2>2
      DEF PhaseOK, FilesOK, Moved, Writing, Loading, Removing, Recording
    <2> QED
      BY <1>0, <1>3, <2>1, <2>4, <2>6, MovedStep
  <1>4. CASE At(j, "remove_sync") /\ synced' = files /\ UNCHANGED files /\ End(j, "Failed")
    <2>1. /\ Alone(j) /\ job'[j].pc = "done" /\ job'[j].end = "Failed"
          /\ job'[j].kind = job[j].kind /\ job'[j].ref = job[j].ref
          /\ job'[j].time = job[j].time /\ job'[j].recorded = job[j].recorded
          /\ job'[j].refused = job[j].refused
      BY <1>0, <1>4, EndFacts
    <2>2. PhaseOK(j)' /\ FilesOK(j)'
      BY <1>0, <1>1, <2>1 DEF PhaseOK, FilesOK, Writing, Loading, Removing, Recording
    <2> QED
      BY <1>0, <1>4, <2>1, <2>2, SameFiles DEF Worker, RowKept
  <1> QED
    BY <1>2, <1>3, <1>4 DEF RemovePlan

\* Fault: an error path removes a published binding only of the job's own, and
\* an error of the history is what makes a published plan removable.
LEMMA FaultStep ==
    ASSUME IInv, NEW j \in Jobs, Fault(j)
    PROVE  Worker(j)
  <1>0. /\ TypeOK /\ JobsTyped /\ job[j] \in JobType /\ PhaseOK(j) /\ FilesOK(j)
        /\ process = "up" /\ UNCHANGED storage /\ UNCHANGED synced
        /\ workerFailed' \in BOOLEAN
    BY DEF IInv, JobsOK, JobsTyped, Fault, TypeOK
  <1>1. CASE /\ job[j].pc \in {"write_binding", "write_plan", "scan",
                               "link_binding", "unlink_binding", "sync"}
             /\ Goto(j, "cleanup") /\ UNCHANGED files
    <2>1. "cleanup" \in Places /\ Moved(j, "cleanup") /\ PhaseOK(j)' /\ ~job[j].recorded
      BY <1>1, WritingPhase DEF Writing
    <2>2. FilesOK(j)'
      BY <2>1 DEF FilesOK, Moved, Recording
    <2> QED
      BY <1>0, <1>1, <2>1, <2>2, SameFiles, MovedStep
  <1>2. CASE /\ job[j].pc \in {"link_plan", "unlink_plan"}
             /\ Put(<<"binding", job[j].ref>>, None) /\ Goto(j, "cleanup")
    <2>1. /\ "cleanup" \in Places /\ Moved(j, "cleanup") /\ PhaseOK(j)'
          /\ ~job[j].recorded /\ job[j].ref \in Refs
      BY <1>2, WritingPhase DEF Writing
    <2>2. files[<<"binding", job[j].ref>>] = j /\ "binding" \in Parts
      BY <1>0, <1>2 DEF FilesOK, Parts
    <2>3. files' \in [Names -> Jobs \cup {None}] /\ Owns(j)
      BY <1>2, <2>1, <2>2, PutOwns
    <2>4. FilesOK(j)'
      BY <2>1 DEF FilesOK, Moved, Recording
    <2> QED
      BY <1>0, <1>2, <2>1, <2>3, <2>4, MovedStep
  <1>3. CASE /\ job[j].pc \in {"commit", "maintain"} /\ UNCHANGED files
             /\ job' = [job EXCEPT ![j].refused = TRUE,
                          ![j].pc = IF Unpublished(j) THEN "remove_plan" ELSE "done",
                          ![j].end = IF Unpublished(j) THEN None ELSE "Failed"]
    <2> DEFINE r == [job[j] EXCEPT !.refused = TRUE,
                          !.pc = IF Unpublished(j) THEN "remove_plan" ELSE "done",
                          !.end = IF Unpublished(j) THEN None ELSE "Failed"]
    <2>1. r \in JobType
      BY <1>0 DEF JobType, Places, Removing
    <2>2. job' = [job EXCEPT ![j] = r]
      BY <1>3
    <2>3. /\ r.kind = job[j].kind /\ r.ref = job[j].ref /\ r.time = job[j].time
          /\ r.recorded = job[j].recorded /\ r.refused = TRUE
          /\ r.pc = IF job[j].kind = "plan" THEN "remove_plan" ELSE "done"
          /\ r.end # "Completed"
      BY <1>0, StoreAssumption DEF JobType, Unpublished
    <2> HIDE DEF r
    <2>4. Alone(j) /\ job'[j] = r
      BY <1>0, <2>1, <2>2, UpdateFacts
    <2>5. CASE job[j].kind = "plan"
      <3>1. r.pc = "remove_plan" /\ job[j].ref \in Refs
        BY <1>0, <1>3, <2>3, <2>5 DEF PhaseOK, Recording
      <3>2. Intact(files, job[j].ref, j)
        BY <1>0, <1>3, <2>5 DEF FilesOK, Recording
      <3>3. PhaseOK(j)'
        BY <2>3, <2>4, <2>5, <3>1 DEF PhaseOK, Writing, Loading, Removing, Recording
      <3>4. FilesOK(j)'
        BY <1>3, <2>3, <2>4, <3>1, <3>2 DEF FilesOK, Intact, Recording
      <3> QED
        BY <1>0, <1>3, <2>3, <2>4, <3>3, <3>4, SameFiles DEF Worker, RowKept
    <2>6. CASE job[j].kind # "plan"
      <3>1. r.pc = "done"
        BY <2>3, <2>6
      <3>2. PhaseOK(j)' /\ FilesOK(j)'
        BY <2>3, <2>4, <2>6, <3>1
        DEF PhaseOK, FilesOK, Writing, Loading, Removing, Recording
      <3> QED
        BY <1>0, <1>3, <2>3, <2>4, <3>2, SameFiles DEF Worker, RowKept
    <2> QED
      BY <2>5, <2>6
  <1>4. CASE /\ job[j].pc \in {"remove_plan", "remove_binding", "remove_sync"}
             /\ End(j, "Failed") /\ UNCHANGED files
    <2>1. /\ Alone(j) /\ job'[j].pc = "done" /\ job'[j].end = "Failed"
          /\ job'[j].kind = job[j].kind /\ job'[j].ref = job[j].ref
          /\ job'[j].time = job[j].time /\ job'[j].recorded = job[j].recorded
          /\ job'[j].refused = job[j].refused
      BY <1>0, <1>4, EndFacts
    <2>2. job[j].kind = "plan" /\ job[j].refused /\ job[j].ref \in Refs
      BY <1>0, <1>4 DEF PhaseOK, Removing
    <2>3. PhaseOK(j)' /\ FilesOK(j)'
      BY <1>0, <2>1, <2>2 DEF PhaseOK, FilesOK, Writing, Loading, Removing, Recording
    <2> QED
      BY <1>0, <1>4, <2>1, <2>3, SameFiles DEF Worker, RowKept
  <1> QED
    BY <1>1, <1>2, <1>3, <1>4 DEF Fault

\* Every step of a worker is of that kind.
LEMMA WorkerSteps ==
    ASSUME IInv, NEW j \in Jobs, Step(j)
    PROVE  Worker(j)
  BY BeginStep, ChooseStep, PendingStep, ScanStep, PublishStep, SyncStep, CleanupStep,
     LoadStep, StampStep, CommitStep, FinishStep, RemoveStep, FaultStep DEF Step

\* A listing is of names and the jobs whose writes they hold.
LEMMA ListingType ==
    ASSUME IInv
    PROVE  Listing \in SUBSET (Names \X Jobs)
  BY DEF Listing, Entries, IInv, TypeOK

\* A worker records only its own scan, and forgets it when the scan ends.
LEMMA SeenStep ==
    ASSUME IInv, NEW j \in Jobs, Step(j)
    PROVE  /\ seen' \in [Jobs -> SUBSET (Names \X Jobs)]
           /\ \A k \in Jobs \ {j} : seen'[k] = seen[k]
  <1>1. seen \in [Jobs -> SUBSET (Names \X Jobs)]
    BY DEF IInv, TypeOK
  <1>2. \/ UNCHANGED seen
        \/ seen' = [seen EXCEPT ![j] = {}]
        \/ seen' = [seen EXCEPT ![j] = Listing]
    BY DEF Step, Begin, Choose, WritePending, StartScan, EndScan, Publish, Sync, Cleanup,
           Load, Stamp, Commit, Finish, RemovePlan, Fault
  <1> QED
    BY <1>1, <1>2, ListingType

\* A step of a worker keeps the types and the files of all jobs.
LEMMA WorkerKeepsJobs ==
    ASSUME IInv, NEW j \in Jobs, Step(j), Worker(j)
    PROVE  TypeOK' /\ JobsTyped' /\ ProcessOK' /\ JobsOK'
  <1>1. JobsTyped' /\ \A k \in Jobs \ {j} : job'[k] = job[k]
    BY DEF Worker, Alone, JobsTyped
  <1>2. TypeOK'
    <2>1. synced' \in [Names -> Jobs \cup {None}]
      BY DEF Worker, IInv, TypeOK
    <2>2. \A k \in Jobs : job'[k].end \in {None, "Completed", "Failed", "lost"}
      BY <1>1 DEF JobsTyped, JobType
    <2> QED
      BY <2>1, <2>2, SeenStep DEF Worker, IInv, TypeOK, storage
  <1>3. ProcessOK'
    BY DEF Worker, ProcessOK, storage
  <1>4. PendingOK(j)'
    BY PendingKept DEF IInv, JobsOK, Worker
  <1>5. \A k \in Jobs \ {j} : PhaseOK(k)' /\ FilesOK(k)' /\ PendingOK(k)'
    BY <1>1, OthersKeep DEF Worker
  <1>6. JobsOK'
    BY <1>4, <1>5 DEF Worker, JobsOK
  <1> QED
    BY <1>1, <1>2, <1>3, <1>6

-----------------------------------------------------------------------------
(* The bound of the plan directory *)

\* There are finitely many names, jobs and entries.
LEMMA NamesFinite ==
    IsFiniteSet(Names) /\ IsFiniteSet(Pending) /\ IsFiniteSet(Parts) /\ Cardinality(Parts) = 2
  <1>1. IsFiniteSet(Parts) /\ Cardinality(Parts) = 2
    <2>1. Parts = {"binding"} \cup {"plan"} /\ "plan" \notin {"binding"}
      BY DEF Parts
    <2>2. IsFiniteSet({"binding"}) /\ Cardinality({"binding"}) = 1
      BY FS_Singleton
    <2> QED
      BY <2>1, <2>2, FS_AddElement
  <1>2. IsFiniteSet(Final) /\ IsFiniteSet(Pending)
    BY <1>1, FS_Product, StoreAssumption DEF Final, Pending
  <1> QED
    BY <1>1, <1>2, FS_Union DEF Names

\* The place a worker moves to.
LEMMA NextPlace ==
    ASSUME JobsTyped, NEW j \in Jobs
    PROVE  /\ \A pc \in Places : Goto(j, pc) => job'[j].pc = pc /\ job'[j].ref = job[j].ref
           /\ \A end \in {"Completed", "Failed"} :
                 End(j, end) => job'[j].pc = "done" /\ job'[j].ref = job[j].ref
           /\ job' = [job EXCEPT ![j] = [Rest EXCEPT !.kind = "other", !.pc = "stamp"]]
                 => job'[j].pc = "stamp"
  BY GotoFacts, EndFacts, FailedFacts DEF Moved

\* The steps that put something into the directory or look at it: a scan that
\* begins, the bound check that admits a write, the two writes and the two links.
Scans(j) == /\ job[j].pc = "check" /\ job'[j].pc = "scan"
            /\ UNCHANGED files /\ seen'[j] = Listing
Admits(j) == /\ job[j].pc = "scan" /\ job'[j].pc = "link_binding"
             /\ UNCHANGED files /\ WithinBound(Still(j))
Writes(j, part) ==
    /\ Put(<<part, j>>, j)
    /\ job[j].pc = IF part = "binding" THEN "write_binding" ELSE "write_plan"
    /\ job'[j].pc = IF part = "binding" THEN "write_plan" ELSE "check"
Links(j, part) ==
    /\ job[j].ref \in Refs
    /\ Put(<<part, job[j].ref>>, j)
    /\ job[j].pc = IF part = "binding" THEN "link_binding" ELSE "link_plan"
    /\ job'[j].pc = IF part = "binding" THEN "unlink_binding" ELSE "unlink_plan"

\* Every other step puts nothing into the directory.
Late == {"cleanup", "sync", "done"} \cup Recording \cup Removing
Quiet(j) ==
    /\ \A n \in Names : files'[n] \in {files[n], None}
    /\ \/ /\ job[j].pc \in {"new", "choose"} /\ UNCHANGED files
          /\ job'[j].pc \in {"choose", "write_binding", "load_binding", "stamp"}
       \/ /\ job[j].pc \in Loading /\ UNCHANGED files
          /\ job'[j].pc \in Loading \cup {"stamp"}
       \/ /\ job[j].pc = "unlink_binding" /\ job'[j].pc = "link_plan"
          /\ \A n \in Final : files'[n] = files[n]
       \/ job[j].pc \notin {"new", "choose", "done"} \cup Loading /\ job'[j].pc \in Late

Kind(j) ==
    \/ Scans(j) \/ Admits(j) \/ Quiet(j)
    \/ \E part \in Parts : Writes(j, part) \/ Links(j, part)

\* A job that has chosen its reference keeps it.
KeepsRef(j) ==
    job[j].pc \notin {"new", "choose"} \cup Loading => job'[j].ref = job[j].ref

\* A name is removed and nothing else changes.
LEMMA RemovalIsQuiet ==
    ASSUME TypeOK, NEW n \in Names, Put(n, None)
    PROVE  /\ \A m \in Names : files'[m] \in {files[m], None}
           /\ n \in Pending => \A m \in Final : files'[m] = files[m]
  <1>1. files'[n] = None /\ \A m \in Names : m # n => files'[m] = files[m]
    BY PutFacts
  <1>2. n \in Pending => \A m \in Final : m \in Names /\ m # n
    BY StoreAssumption DEF Final, Pending, Names
  <1> QED
    BY <1>1, <1>2

\* Steps before anything is written, loads and records.
LEMMA OutsideKinds ==
    ASSUME IInv, NEW j \in Jobs,
           Begin(j) \/ Choose(j) \/ Load(j) \/ Stamp(j) \/ Commit(j) \/ Finish(j)
    PROVE  Quiet(j) /\ KeepsRef(j)
  <1>0. TypeOK /\ JobsTyped /\ job[j] \in JobType /\ DOMAIN job = Jobs
    BY DEF IInv, JobsTyped
  <1>1. UNCHANGED files /\ \A n \in Names : files'[n] \in {files[n], None}
    BY DEF Begin, Choose, Load, Stamp, Commit, Finish
  <1>2. CASE Begin(j)
    <2>0. job[j].pc = "new"
      BY <1>2 DEF Begin, At
    <2>1. job'[j].pc \in {"choose", "load_binding", "stamp"}
      <3>1. CASE \E k \in {"plan", "other"} : \E pc \in {"choose", "stamp"} :
                   job' = [job EXCEPT ![j].kind = k, ![j].pc = pc]
        <4>1. PICK k \in {"plan", "other"} : \E pc \in {"choose", "stamp"} :
                job' = [job EXCEPT ![j].kind = k, ![j].pc = pc]
          BY <3>1
        <4>2. PICK pc \in {"choose", "stamp"} :
                job' = [job EXCEPT ![j].kind = k, ![j].pc = pc]
          BY <4>1
        <4>3. job'[j].pc = pc
          BY <1>0, <4>2 DEF JobType
        <4> QED
          BY <4>3
      <3>2. CASE \E ref \in Shown :
                   job' = [job EXCEPT ![j].kind = "dry_run", ![j].ref = ref,
                                      ![j].pc = "load_binding"]
        <4>1. PICK ref \in Shown :
                job' = [job EXCEPT ![j].kind = "dry_run", ![j].ref = ref,
                                   ![j].pc = "load_binding"]
          BY <3>2
        <4>2. job'[j].pc = "load_binding"
          BY <1>0, <4>1 DEF JobType
        <4> QED
          BY <4>2
      <3> QED
        BY <1>2, <3>1, <3>2 DEF Begin
    <2> QED
      BY <1>1, <2>0, <2>1 DEF Quiet, KeepsRef
  <1>3. CASE Choose(j)
    <2>0. job[j].pc = "choose"
      BY <1>3 DEF Choose, At
    <2>1. job'[j].pc \in {"choose", "write_binding", "stamp"}
      <3>1. CASE job' = [job EXCEPT ![j] = [Rest EXCEPT !.kind = "other", !.pc = "stamp"]]
        BY <1>0, <3>1, NextPlace
      <3>2. CASE \E ref \in Refs : job' = [job EXCEPT ![j].ref = ref, ![j].tries = 0,
                                                     ![j].pc = "write_binding"]
        BY <1>0, <3>2 DEF JobType
      <3>3. CASE job' = [job EXCEPT ![j].tries = @ + 1]
        BY <1>0, <2>0, <3>3 DEF JobType
      <3> QED
        BY <1>3, <3>1, <3>2, <3>3 DEF Choose
    <2> QED
      BY <1>1, <2>0, <2>1 DEF Quiet, KeepsRef
  <1>4. CASE Load(j)
    <2>1. job[j].pc \in Loading
      BY <1>4 DEF Load, At, Loading
    <2>2. job'[j].pc \in {"load_plan", "load_check", "stamp"}
      BY <1>0, <1>4, NextPlace DEF Load, JobsTyped, JobType
    <2> QED
      BY <1>1, <2>1, <2>2 DEF Quiet, KeepsRef, Loading
  <1>5. CASE Stamp(j) \/ Commit(j)
    <2>1. job[j].pc \in {"stamp", "commit"}
      BY <1>5 DEF Stamp, Commit, At
    <2>2. job'[j].pc \in {"commit", "maintain"} /\ job'[j].ref = job[j].ref
      BY <1>0, <1>5 DEF Stamp, Commit, JobsTyped, JobType
    <2> QED
      BY <1>1, <2>1, <2>2 DEF Quiet, KeepsRef, Late, Recording, Loading
  <1>6. CASE Finish(j)
    <2>1. job[j].pc = "maintain"
      BY <1>6 DEF Finish, At
    <2>2. job'[j].pc = "done" /\ job'[j].ref = job[j].ref
      BY <1>0, <1>6, NextPlace DEF Finish
    <2> QED
      BY <1>1, <2>1, <2>2 DEF Quiet, KeepsRef, Late, Loading
  <1> QED
    BY <1>2, <1>3, <1>4, <1>5, <1>6

\* The links, and what is removed on their error paths.
LEMMA PublishKinds ==
    ASSUME IInv, NEW j \in Jobs, Publish(j)
    PROVE  Kind(j) /\ KeepsRef(j)
  <1>0. TypeOK /\ JobsTyped /\ PhaseOK(j)
    BY DEF IInv, JobsOK
  <1>p. "binding" \in Parts /\ "plan" \in Parts
    BY DEF Parts
  <1>q. {"link_plan", "unlink_binding", "unlink_plan", "sync", "cleanup"} \subseteq Places
    BY DEF Places, Writing
  <1>w. job[j].pc \in {"link_binding", "unlink_binding", "link_plan", "unlink_plan"}
    BY DEF Publish, At
  <1>r. job[j].ref \in Refs /\ job[j].pc \notin {"new", "choose", "done"} \cup Loading
    BY <1>0, <1>w DEF PhaseOK, Writing, Loading
  <1>n. /\ <<"binding", job[j].ref>> \in Names /\ <<"binding", j>> \in Names
        /\ <<"plan", j>> \in Names /\ <<"binding", j>> \in Pending
    BY <1>p, <1>r, NameFacts
  <1>1. CASE /\ At(j, "link_binding")
             /\ Put(<<"binding", job[j].ref>>, j) /\ Goto(j, "unlink_binding")
    <2>1. job'[j].pc = "unlink_binding" /\ job'[j].ref = job[j].ref
      BY <1>0, <1>q, <1>1, NextPlace
    <2>2. Links(j, "binding")
      BY <1>r, <1>1, <2>1 DEF Links, At
    <2> QED
      BY <1>p, <2>1, <2>2 DEF Kind, KeepsRef
  <1>2. CASE /\ At(j, "link_plan")
             /\ Put(<<"plan", job[j].ref>>, j) /\ Goto(j, "unlink_plan")
    <2>1. job'[j].pc = "unlink_plan" /\ job'[j].ref = job[j].ref
      BY <1>0, <1>q, <1>2, NextPlace
    <2>2. Links(j, "plan")
      BY <1>r, <1>2, <2>1 DEF Links, At
    <2> QED
      BY <1>p, <2>1, <2>2 DEF Kind, KeepsRef
  <1>3. CASE UNCHANGED files /\ Goto(j, "cleanup")
    BY <1>0, <1>q, <1>r, <1>3, NextPlace DEF Kind, Quiet, KeepsRef, Late
  <1>4. CASE At(j, "unlink_binding") /\ Put(<<"binding", j>>, None) /\ Goto(j, "link_plan")
    <2>1. job'[j].pc = "link_plan" /\ job'[j].ref = job[j].ref /\ job[j].pc = "unlink_binding"
      BY <1>0, <1>q, <1>4, NextPlace DEF At
    <2>2. /\ \A m \in Names : files'[m] \in {files[m], None}
          /\ \A m \in Final : files'[m] = files[m]
      BY <1>0, <1>n, <1>4, RemovalIsQuiet
    <2> QED
      BY <2>1, <2>2 DEF Kind, Quiet, KeepsRef
  <1>5. CASE Put(<<"binding", job[j].ref>>, None) /\ Goto(j, "cleanup")
    <2>1. job'[j].pc = "cleanup" /\ job'[j].ref = job[j].ref
      BY <1>0, <1>q, <1>5, NextPlace
    <2>2. \A m \in Names : files'[m] \in {files[m], None}
      BY <1>0, <1>n, <1>5, RemovalIsQuiet
    <2> QED
      BY <1>r, <2>1, <2>2 DEF Kind, Quiet, KeepsRef, Late
  <1>6. CASE Put(<<"plan", j>>, None) /\ Goto(j, "sync")
    <2>1. job'[j].pc = "sync" /\ job'[j].ref = job[j].ref
      BY <1>0, <1>q, <1>6, NextPlace
    <2>2. \A m \in Names : files'[m] \in {files[m], None}
      BY <1>0, <1>n, <1>6, RemovalIsQuiet
    <2> QED
      BY <1>r, <2>1, <2>2 DEF Kind, Quiet, KeepsRef, Late
  <1> QED
    BY <1>1, <1>2, <1>3, <1>4, <1>5, <1>6 DEF Publish

\* The error paths remove names.
LEMMA RemovalKinds ==
    ASSUME IInv, NEW j \in Jobs, Cleanup(j) \/ RemovePlan(j) \/ Fault(j)
    PROVE  Quiet(j) /\ KeepsRef(j)
  <1>0. TypeOK /\ JobsTyped /\ job[j] \in JobType /\ PhaseOK(j)
    BY DEF IInv, JobsOK, JobsTyped
  <1>p. "binding" \in Parts /\ "plan" \in Parts
    BY DEF Parts
  <1>q. {"cleanup", "remove_plan", "remove_binding", "remove_sync"} \subseteq Places
    BY DEF Places, Writing, Removing
  <1>1. CASE Cleanup(j)
    <2>1. job'[j].pc = "stamp" /\ job'[j].ref = job[j].ref /\ job[j].pc = "cleanup"
      BY <1>0, <1>1, DroppedFacts DEF Cleanup, At
    <2>2. \A m \in Names : files'[m] \in {files[m], None}
      BY <1>0, <1>1 DEF Cleanup, TypeOK
    <2> QED
      BY <2>1, <2>2 DEF Quiet, KeepsRef, Late, Recording, Loading
  <1>2. CASE RemovePlan(j)
    <2>0. job[j].ref \in Refs /\ job[j].pc \in Removing
      BY <1>0, <1>2 DEF RemovePlan, At, PhaseOK, Removing
    <2>1. /\ <<"binding", job[j].ref>> \in Names /\ <<"plan", job[j].ref>> \in Names
      BY <1>p, <2>0, NameFacts
    <2>2. \A m \in Names : files'[m] \in {files[m], None}
      BY <1>0, <1>2, <2>1, RemovalIsQuiet DEF RemovePlan
    <2>3. job'[j].pc \in {"remove_binding", "remove_sync", "done"} /\ job'[j].ref = job[j].ref
      BY <1>0, <1>2, <1>q, NextPlace DEF RemovePlan
    <2> QED
      BY <2>0, <2>2, <2>3 DEF Quiet, KeepsRef, Late, Removing, Loading
  <1>3. CASE Fault(j)
    <2>0. job[j].pc \notin {"new", "choose", "done"} \cup Loading
      BY <1>3 DEF Fault, Loading
    <2>1. job'[j].pc \in {"cleanup", "remove_plan", "done"} /\ job'[j].ref = job[j].ref
      BY <1>0, <1>3, <1>q, NextPlace DEF Fault, JobsTyped, JobType
    <2>2. \A m \in Names : files'[m] \in {files[m], None}
      <3>1. CASE UNCHANGED files
        BY <3>1
      <3>2. CASE job[j].pc \in {"link_plan", "unlink_plan"}
                 /\ Put(<<"binding", job[j].ref>>, None)
        <4>1. <<"binding", job[j].ref>> \in Names
          BY <1>0, <1>p, <3>2, NameFacts DEF PhaseOK, Writing
        <4> QED
          BY <1>0, <3>2, <4>1, RemovalIsQuiet
      <3> QED
        BY <1>3, <3>1, <3>2 DEF Fault
    <2> QED
      BY <2>0, <2>1, <2>2 DEF Quiet, KeepsRef, Late, Removing
  <1> QED
    BY <1>1, <1>2, <1>3

\* Every step of a worker is of one of these kinds.
LEMMA StepKinds ==
    ASSUME IInv, NEW j \in Jobs, Step(j)
    PROVE  Kind(j) /\ KeepsRef(j)
  <1>0. TypeOK /\ JobsTyped /\ seen \in [Jobs -> SUBSET (Names \X Jobs)]
    BY DEF IInv, TypeOK
  <1>q. {"write_plan", "check", "scan", "link_binding", "cleanup", "stamp"} \subseteq Places
    BY DEF Places, Writing, Recording
  <1>1. CASE WritePending(j)
    <2>1. \E part \in Parts : Writes(j, part) /\ job'[j].ref = job[j].ref
      BY <1>0, <1>1, <1>q, NextPlace DEF WritePending, Writes, At, Parts
    <2> QED
      BY <2>1 DEF Kind, KeepsRef
  <1>2. CASE StartScan(j)
    <2>1. Scans(j) /\ job'[j].ref = job[j].ref
      BY <1>0, <1>2, <1>q, NextPlace DEF StartScan, Scans, At
    <2> QED
      BY <2>1 DEF Kind, KeepsRef
  <1>3. CASE EndScan(j)
    <2>0. UNCHANGED files /\ job[j].pc = "scan"
      BY <1>3 DEF EndScan, At
    <2>1. CASE WithinBound(Still(j)) /\ Goto(j, "link_binding")
      BY <1>0, <1>q, <2>0, <2>1, NextPlace DEF Kind, Admits, KeepsRef
    <2>2. CASE Goto(j, "cleanup")
      BY <1>0, <1>q, <2>0, <2>2, NextPlace DEF Kind, Quiet, KeepsRef, Late, Loading
    <2> QED
      BY <1>3, <2>1, <2>2 DEF EndScan
  <1>4. CASE Sync(j)
    <2>1. UNCHANGED files /\ job[j].pc = "sync" /\ Goto(j, "stamp")
      BY <1>4 DEF Sync, At
    <2> QED
      BY <1>0, <1>q, <2>1, NextPlace DEF Kind, Quiet, KeepsRef, Late, Recording, Loading
  <1> QED
    BY <1>1, <1>2, <1>3, <1>4, OutsideKinds, PublishKinds, RemovalKinds DEF Step, Kind

\* What a kind of step says about the place of its worker.
LEMMA Progress ==
    ASSUME NEW j \in Jobs, Kind(j)
    PROVE  /\ job[j].pc # "done"
           /\ job'[j].pc = "scan" => Scans(j)
           /\ job'[j].pc \in {"check", "scan"} => job[j].pc \in {"check", "write_plan"}
           /\ job'[j].pc \in Early => job[j].pc \in Early
           /\ job'[j].pc \in Early \cup {"check", "scan"} =>
                 job[j].pc \in Early \cup {"check", "scan"}
  <1>1. CASE Scans(j) \/ Admits(j)
    BY <1>1 DEF Scans, Admits, Early
  <1>2. CASE \E part \in Parts : Writes(j, part) \/ Links(j, part)
    BY <1>2 DEF Writes, Links, Early
  <1>3. CASE Quiet(j)
    BY <1>3 DEF Quiet, Early, Late, Loading, Recording, Removing
  <1> QED
    BY <1>1, <1>2, <1>3 DEF Kind

\* The write of worker j appears only where j puts it, and what other workers
\* hold stays.
LEMMA HeldBefore ==
    ASSUME IInv, NEW j \in Jobs, Worker(j), NEW k \in Jobs, NEW n \in Names
    PROVE  /\ k # j /\ files'[n] = k => files[n] = k
           /\ k # j /\ files[n] = k => files'[n] = k
           /\ k # j /\ Holds(n, k)' => Holds(n, k)
           /\ (files'[n] = k => files[n] = k) => (Holds(n, k)' => Holds(n, k))
  <1>1. files'[n] = files[n] \/ (files[n] \in {None, j} /\ files'[n] \in {None, j})
    BY DEF Worker, Owns
  <1>2. k # None /\ (synced' = synced \/ synced' = files)
    BY StoreAssumption DEF Worker
  <1> QED
    BY <1>1, <1>2 DEF Holds

\* The two steps that put a write somewhere put it under one name.
LEMMA PutHolds ==
    ASSUME IInv, NEW j \in Jobs, NEW part \in Parts, NEW n \in Names
    PROVE  /\ Writes(j, part) /\ files'[n] = j /\ files[n] # j => n = <<part, j>>
           /\ Links(j, part) /\ files'[n] = j /\ files[n] # j => n = <<part, job[j].ref>>
  <1>1. TypeOK
    BY DEF IInv
  <1>2. CASE Writes(j, part)
    <2>1. \A m \in Names : m # <<part, j>> => files'[m] = files[m]
      BY <1>1, <1>2, NameFacts, PutFacts DEF Writes
    <2>2. ~Links(j, part)
      BY <1>2 DEF Writes, Links
    <2> QED
      BY <2>1, <2>2
  <1>3. CASE Links(j, part)
    <2>1. \A m \in Names : m # <<part, job[j].ref>> => files'[m] = files[m]
      BY <1>1, <1>3, NameFacts, PutFacts DEF Links
    <2>2. ~Writes(j, part)
      BY <1>3 DEF Writes, Links
    <2> QED
      BY <2>1, <2>2
  <1> QED
    BY <1>2, <1>3

\* No write is anywhere but under the names of its job.
LEMMA PlacedStep ==
    ASSUME IInv, NEW j \in Jobs, Worker(j), Kind(j), KeepsRef(j), NEW k \in Jobs
    PROVE  PlacedOK(k)'
  <1>0. PlacedOK(k) /\ PlacedOK(j)
    BY DEF IInv, DirectoryOK
  <1>n. \A part \in Parts : /\ <<part, k>> \in Names
                            /\ \A ref \in Refs : <<part, ref>> \in Names /\ ref # k
    BY NameFacts, StoreAssumption
  <1>1. CASE k # j
    <2>1. job'[k] = job[k]
      BY <1>1 DEF Worker, Alone
    <2>2. \A part \in Parts : /\ Holds(<<part, k>>, k)' => Holds(<<part, k>>, k)
                              /\ \A ref \in Refs : Holds(<<part, ref>>, k)' =>
                                                      Holds(<<part, ref>>, k)
      BY <1>n, <1>1, HeldBefore
    <2> QED
      BY <1>0, <2>1, <2>2 DEF PlacedOK
  <1>2. CASE k = j
    <2>1. ASSUME NEW part \in Parts, NEW ref \in Refs, Holds(<<part, ref>>, j)'
          PROVE  job'[j].ref = ref /\ job'[j].pc \notin Unlinked(part)
      <3>1. CASE Holds(<<part, ref>>, j)
        <4>1. job[j].ref = ref /\ job[j].pc \notin Unlinked(part)
          BY <1>0, <3>1 DEF PlacedOK
        <4>2. job'[j].ref = ref
          BY <4>1 DEF KeepsRef, Unlinked, Early
        <4>3. job'[j].pc \notin Unlinked(part)
          <5>1. CASE Scans(j) \/ Admits(j)
            BY <4>1, <5>1 DEF Scans, Admits, Unlinked
          <5>2. CASE \E p \in Parts : Writes(j, p) \/ Links(j, p)
            BY <4>1, <5>2 DEF Writes, Links, Unlinked, Early, Parts, Loading
          <5>3. CASE Quiet(j)
            BY <4>1, <5>3 DEF Quiet, Unlinked, Early, Late, Loading, Recording, Removing, Parts
          <5> QED
            BY <5>1, <5>2, <5>3 DEF Kind
        <4> QED
          BY <4>2, <4>3
      <3>2. CASE ~Holds(<<part, ref>>, j)
        <4>1. files'[<<part, ref>>] = j /\ files[<<part, ref>>] # j
          BY <1>n, <3>2, <2>1, HeldBefore DEF Holds
        <4>2. ~Quiet(j) /\ ~Scans(j) /\ ~Admits(j)
          BY <1>n, <4>1, StoreAssumption DEF Quiet, Scans, Admits
        <4>3. PICK p \in Parts : Writes(j, p) \/ Links(j, p)
          BY <4>2 DEF Kind
        <4>4. ~Writes(j, p)
          BY <1>n, <1>2, <4>1, PutHolds
        <4>5. Links(j, p) /\ <<part, ref>> = <<p, job[j].ref>>
          BY <1>n, <4>1, <4>3, <4>4, PutHolds
        <4>6. p = part /\ job[j].ref = ref
          BY <4>5
        <4>7. job'[j].ref = ref
          BY <4>5, <4>6 DEF KeepsRef, Links, Loading
        <4> QED
          BY <4>5, <4>6, <4>7 DEF Links, Unlinked, Early, Loading, Parts
      <3> QED
        BY <3>1, <3>2
    <2>2. ASSUME NEW part \in Parts, Holds(<<part, j>>, j)'
          PROVE  job'[j].pc \notin Unwritten(part)
      <3>1. CASE Holds(<<part, j>>, j)
        <4>1. job[j].pc \notin Unwritten(part)
          BY <1>0, <3>1 DEF PlacedOK
        <4>2. CASE Scans(j) \/ Admits(j)
          BY <4>2 DEF Scans, Admits, Unwritten, Loading
        <4>3. CASE \E p \in Parts : Writes(j, p) \/ Links(j, p)
          BY <4>1, <4>3 DEF Writes, Links, Unwritten, Parts, Loading
        <4>4. CASE Quiet(j)
          BY <4>1, <4>4 DEF Quiet, Unwritten, Late, Loading, Recording, Removing, Parts
        <4> QED
          BY <4>2, <4>3, <4>4 DEF Kind
      <3>2. CASE ~Holds(<<part, j>>, j)
        <4>1. files'[<<part, j>>] = j /\ files[<<part, j>>] # j
          BY <1>n, <1>2, <3>2, <2>2, HeldBefore DEF Holds
        <4>2. ~Quiet(j) /\ ~Scans(j) /\ ~Admits(j)
          BY <1>n, <1>2, <4>1, StoreAssumption DEF Quiet, Scans, Admits
        <4>3. PICK p \in Parts : Writes(j, p) \/ Links(j, p)
          BY <4>2 DEF Kind
        <4>4. ~Links(j, p)
          <5>1. Links(j, p) => job[j].ref \in Refs
            BY DEF Links
          <5> QED
            BY <1>n, <1>2, <4>1, <5>1, PutHolds
        <4>5. Writes(j, p) /\ <<part, j>> = <<p, j>>
          BY <1>n, <1>2, <4>1, <4>3, <4>4, PutHolds
        <4> QED
          BY <4>5 DEF Writes, Unwritten, Loading, Parts
      <3> QED
        BY <3>1, <3>2
    <2> QED
      BY <1>2, <2>1, <2>2 DEF PlacedOK
  <1> QED
    BY <1>1, <1>2

\* Begin takes a free worker; no other step takes one.
LEMMA ActiveStep ==
    ASSUME IInv, NEW j \in Jobs, Step(j), Worker(j), Kind(j)
    PROVE  ActiveOK'
  <1>1. IsFiniteSet(Active) /\ Cardinality(Active) \in Nat /\ Cardinality(Active) <= Workers
    BY StoreAssumption, FS_Subset, FS_CardinalityType DEF Active, IInv, DirectoryOK, ActiveOK
  <1>2. Active' \in SUBSET (Active \cup {j})
    BY DEF Active, Worker, Alone
  <1>3. CASE job[j].pc = "new"
    <2>1. Begin(j)
      BY <1>3 DEF Step, Choose, WritePending, StartScan, EndScan, Publish, Sync, Cleanup,
                  Load, Stamp, Commit, Finish, RemovePlan, Fault, At
    <2>2. Cardinality(Active) < Workers
      BY <2>1 DEF Begin, Active
    <2>3. IsFiniteSet(Active \cup {j}) /\ Cardinality(Active \cup {j}) <= Workers
      <3>1. /\ IsFiniteSet(Active \cup {j})
            /\ Cardinality(Active \cup {j}) =
                  IF j \in Active THEN Cardinality(Active) ELSE Cardinality(Active) + 1
        BY <1>1, FS_AddElement
      <3> QED
        BY <1>1, <2>2, <3>1, StoreAssumption
    <2>4. /\ Cardinality(Active') <= Cardinality(Active \cup {j})
          /\ Cardinality(Active') \in Nat /\ Cardinality(Active \cup {j}) \in Nat
      BY <1>2, <2>3, FS_Subset, FS_CardinalityType
    <2> QED
      BY <2>3, <2>4, StoreAssumption DEF ActiveOK
  <1>4. CASE job[j].pc # "new"
    <2>1. j \in Active
      BY <1>4, Progress DEF Active
    <2>2. Active' \in SUBSET Active
      BY <1>2, <2>1
    <2>3. Cardinality(Active') <= Cardinality(Active) /\ Cardinality(Active') \in Nat
      BY <1>1, <2>2, FS_Subset, FS_CardinalityType
    <2> QED
      BY <1>1, <2>3, StoreAssumption DEF ActiveOK
  <1> QED
    BY <1>3, <1>4

\* Only the bound check claims anything, and only the two parts of its job.
LEMMA ClaimsMove ==
    ASSUME IInv, NEW j \in Jobs, Worker(j), Kind(j), NEW n \in Claims'
    PROVE  /\ n \in Pending
           /\ n \notin Claims => Admits(j) /\ n[2] = j
  <1>0. n \in Pending /\ n[1] \in Parts /\ n[2] \in Jobs /\ n[2] # None
    BY StoreAssumption DEF Claims, Published, Owed, Pending
  <1>n. \A ref \in Refs : <<n[1], ref>> \in Names /\ <<n[1], ref>> \in Final
    BY <1>0, NameFacts
  <1>1. CASE n[2] # j
    <2>1. job'[n[2]] = job[n[2]]
      BY <1>0, <1>1 DEF Worker, Alone
    <2>2. n \in Published' => n \in Published
      BY <1>0, <1>n, <1>1, HeldBefore DEF Published
    <2>3. n \in Owed' => n \in Owed
      BY <1>0, <2>1 DEF Owed
    <2> QED
      BY <1>0, <2>2, <2>3 DEF Claims
  <1>2. CASE n[2] = j /\ n \in Published'
    <2>1. PICK ref \in Refs : files'[<<n[1], ref>>] = j
      BY <1>2 DEF Published
    <2>2. CASE files[<<n[1], ref>>] = j
      BY <1>0, <1>2, <2>2 DEF Claims, Published
    <2>3. CASE files[<<n[1], ref>>] # j
      <3>1. ~Quiet(j) /\ ~Scans(j) /\ ~Admits(j)
        BY <1>0, <1>n, <1>2, <2>1, <2>3 DEF Quiet, Scans, Admits
      <3>2. PICK p \in Parts : Writes(j, p) \/ Links(j, p)
        BY <3>1 DEF Kind
      <3>3. ref # j
        BY StoreAssumption
      <3>4. Links(j, p) /\ <<n[1], ref>> = <<p, job[j].ref>>
        BY <1>n, <2>1, <2>3, <3>2, <3>3, PutHolds
      <3>5. n[1] = p
        BY <3>4
      <3>6. n \in Owed
        BY <1>0, <1>2, <3>4, <3>5 DEF Owed, Links, Parts
      <3> QED
        BY <1>0, <3>6 DEF Claims
    <2> QED
      BY <2>2, <2>3
  <1>3. CASE n[2] = j /\ n \in Owed'
    <2>1. job'[j].pc \in {"link_binding", "unlink_binding", "link_plan"}
      BY <1>3 DEF Owed
    <2>2. CASE Admits(j)
      BY <1>0, <1>3, <2>2
    <2>3. CASE Quiet(j)
      <3>1. job[j].pc = "unlink_binding" /\ job'[j].pc = "link_plan"
        BY <2>1, <2>3 DEF Quiet, Late, Loading, Recording, Removing
      <3> QED
        BY <1>0, <1>3, <3>1 DEF Owed, Claims
    <2>4. CASE \E p \in Parts : Writes(j, p) \/ Links(j, p)
      <3>1. job[j].pc = "link_binding" /\ job'[j].pc = "unlink_binding"
        BY <2>1, <2>4 DEF Writes, Links
      <3> QED
        BY <1>0, <1>3, <3>1 DEF Owed, Claims
    <2>5. CASE Scans(j)
      BY <2>1, <2>5 DEF Scans
    <2> QED
      BY <2>2, <2>3, <2>4, <2>5 DEF Kind
  <1> QED
    BY <1>1, <1>2, <1>3 DEF Claims

\* Every claim has an entry in the directory, and so has each pending file of a
\* job that waits for the bound check.
LEMMA ListedParts ==
    ASSUME IInv
    PROVE  /\ Claims \subseteq Pairs(Listing)
           /\ \A i \in Waiting : \A part \in Parts : <<<<part, i>>, i>> \in Listing
  <1>1. \A n \in Names : files[n] # None => <<n, files[n]>> \in Listing
    BY DEF Listing, Entries
  <1>2. \A i \in Waiting : \A part \in Parts : <<<<part, i>>, i>> \in Listing
    <2> SUFFICES ASSUME NEW i \in Waiting, NEW part \in Parts
                 PROVE  <<<<part, i>>, i>> \in Listing
      OBVIOUS
    <2>1. i \in Jobs /\ FilesOK(i) /\ job[i].pc \in {"check", "scan"}
      BY DEF Waiting, IInv, JobsOK
    <2>2. <<part, i>> \in Names /\ i # None
      BY <2>1, NameFacts
    <2>3. files[<<part, i>>] = i
      BY <2>1 DEF FilesOK, Parts
    <2> QED
      BY <1>1, <2>2, <2>3
  <1>3. ASSUME NEW n \in Claims
        PROVE  n \in Pairs(Listing)
    <2>0. PICK part \in Parts, o \in Jobs : n = <<part, o>>
      BY DEF Claims, Published, Owed, Pending
    <2>1. o # None /\ FilesOK(o) /\ <<part, o>> \in Names
      BY NameFacts DEF IInv, JobsOK
    <2>2. CASE n \in Published
      <3>1. PICK ref \in Refs : files[<<part, ref>>] = o
        BY <2>0, <2>2 DEF Published
      <3>2. <<<<part, ref>>, o>> \in Listing
        BY <1>1, <2>1, <3>1, NameFacts
      <3> QED
        BY <2>0, <3>2 DEF Pairs
    <2>3. CASE n \in Owed
      <3>1. files[<<part, o>>] = o
        BY <2>0, <2>1, <2>3 DEF Owed, FilesOK
      <3>2. <<<<part, o>>, o>> \in Listing
        BY <1>1, <2>1, <3>1
      <3> QED
        BY <2>0, <3>2 DEF Pairs
    <2> QED
      BY <2>2, <2>3 DEF Claims
  <1> QED
    BY <1>2, <1>3

\* A scan begins with the whole directory.
LEMMA ScanBegins ==
    ASSUME IInv, NEW j \in Jobs, Worker(j), Scans(j)
    PROVE  ScanOK(j)'
  <1>0. /\ seen'[j] = Listing /\ UNCHANGED files /\ TypeOK /\ Listing \in SUBSET (Names \X Jobs)
        /\ \A k \in Jobs \ {j} : job'[k] = job[k]
        /\ job[j].pc = "check" /\ job'[j].pc = "scan"
    BY ListingType DEF Scans, IInv, Worker, Alone
  <1>1. ASSUME NEW e \in Listing
        PROVE  /\ e[1] \in Names /\ e[2] \in Jobs /\ files[e[1]] = e[2]
    BY <1>0 DEF Listing, Entries
  <1>2. \A e \in Listing : e[1] \in Pending => /\ e[1][1] \in Parts /\ e[1][2] \in Jobs
                                             /\ e[1] = <<e[1][1], e[1][2]>> /\ e[1][2] = e[2]
    <2> SUFFICES ASSUME NEW e \in Listing, e[1] \in Pending
                 PROVE  /\ e[1][1] \in Parts /\ e[1][2] \in Jobs
                        /\ e[1] = <<e[1][1], e[1][2]>> /\ e[1][2] = e[2]
      OBVIOUS
    <2>1. PICK part \in Parts, o \in Jobs : e[1] = <<part, o>>
      BY DEF Pending
    <2>2. files[<<part, o>>] \in {None, o} /\ files[<<part, o>>] = e[2] /\ e[2] # None
      BY <1>1, <2>1, StoreAssumption DEF IInv, JobsOK, PendingOK
    <2> QED
      BY <2>1, <2>2
  <1>3. Sees(j, j)'
    <2>1. j \in Waiting
      BY <1>0 DEF Waiting
    <2> QED
      BY <1>0, <2>1, ListedParts DEF Sees
  <1>4. \A k \in Jobs : Sees(j, k)' => job'[k].pc \notin Early
    <2> SUFFICES ASSUME NEW k \in Jobs, Sees(j, k)'
                 PROVE  job'[k].pc \notin Early
      OBVIOUS
    <2>1. <<<<"plan", k>>, k>> \in Listing
      BY <1>0 DEF Sees, Parts
    <2>2. files[<<"plan", k>>] = k
      BY <1>1, <2>1
    <2>3. job[k].pc \notin Unwritten("plan")
      BY <2>2 DEF IInv, DirectoryOK, PlacedOK, Holds, Parts
    <2> QED
      BY <1>0, <2>3 DEF Unwritten, Early
  <1>5. \A e \in Listing : e[1] \in Final => job'[e[2]].pc \notin Early \cup {"check", "scan"}
    <2> SUFFICES ASSUME NEW e \in Listing, e[1] \in Final
                 PROVE  job'[e[2]].pc \notin Early \cup {"check", "scan"}
      OBVIOUS
    <2>1. PICK part \in Parts, ref \in Refs : e[1] = <<part, ref>>
      BY DEF Final
    <2>2. e[2] \in Jobs /\ Holds(<<part, ref>>, e[2])
      BY <1>1, <2>1 DEF Holds
    <2>3. job[e[2]].pc \notin Unlinked(part)
      BY <2>2 DEF IInv, DirectoryOK, PlacedOK
    <2>4. e[2] # j
      BY <1>0, <2>3 DEF Unlinked
    <2> QED
      BY <1>0, <2>2, <2>3, <2>4 DEF Unlinked
  <1>6. \E busy \in SUBSET Jobs : Cardinality(busy) <= Workers /\ Accounted(j, busy)'
    <2>1. Active \in SUBSET Jobs /\ Cardinality(Active) <= Workers
      BY DEF Active, IInv, DirectoryOK, ActiveOK
    <2>2. ASSUME NEW e \in Listing, e[1] \in Pending
          PROVE  e[2] \in Active \/ (job'[e[2]].pc = "done" /\ files'[e[1]] = e[2])
      <3>1. e[1] = <<e[1][1], e[2]>> /\ e[1][1] \in Parts /\ e[2] \in Jobs
        BY <1>1, <1>2, <2>2
      <3>2. files[<<e[1][1], e[2]>>] = e[2]
        BY <1>1, <3>1
      <3>3. job[e[2]].pc \notin Unwritten(e[1][1])
        BY <3>1, <3>2 DEF IInv, DirectoryOK, PlacedOK, Holds
      <3>4. job[e[2]].pc # "new"
        BY <3>3 DEF Unwritten
      <3>5. CASE job[e[2]].pc = "done"
        BY <1>0, <1>1, <3>1, <3>5
      <3>6. CASE job[e[2]].pc # "done"
        BY <3>1, <3>4, <3>6 DEF Active
      <3> QED
        BY <3>5, <3>6
    <2>3. Accounted(j, Active)'  <=> \A e \in Listing : e[1] \in Pending =>
               e[2] \in Active' \/ (job'[e[2]].pc = "done" /\ files'[e[1]] = e[2])
      BY <1>0 DEF Accounted
    <2>4. Active' = Active
      BY <1>0 DEF Active
    <2>5. Accounted(j, Active)'
      BY <2>2, <2>3, <2>4
    <2>6. Cardinality(Active') <= Workers /\ Active' \in SUBSET Jobs
      BY <2>1, <2>4
    <2> QED
      BY <2>5, <2>6
  <1> QED
    BY <1>0, <1>1, <1>2, <1>3, <1>4, <1>5, <1>6 DEF ScanOK

\* What a scan began from stays accounted for while other workers go on.
LEMMA ScanGoesOn ==
    ASSUME IInv, NEW j \in Jobs, Step(j), Worker(j), Kind(j), KeepsRef(j),
           NEW k \in Jobs \ {j}, ScanOK(k)
    PROVE  ScanOK(k)'
  <1>0. /\ seen'[k] = seen[k] /\ seen[k] \in SUBSET (Names \X Jobs)
        /\ \A i \in Jobs \ {j} : job'[i] = job[i]
    BY SeenStep DEF IInv, TypeOK, Worker, Alone
  <1>1. \A i \in Jobs : Sees(k, i)' <=> Sees(k, i)
    BY <1>0 DEF Sees
  <1>2. \A i \in Jobs : Sees(k, i)' => job'[i].pc \notin Early
    BY <1>0, <1>1, Progress DEF ScanOK
  <1>3. ASSUME NEW e \in seen[k], e[1] \in Final
        PROVE  /\ job'[e[2]].pc \notin Early \cup {"check", "scan"}
               /\ files'[e[1]] = e[2] \/ <<e[1][1], e[2]>> \notin Claims'
    <2>0. /\ e[1] \in Names /\ e[2] \in Jobs
          /\ job[e[2]].pc \notin Early \cup {"check", "scan"}
          /\ files[e[1]] = e[2] \/ <<e[1][1], e[2]>> \notin Claims
      BY <1>0, <1>3 DEF ScanOK
    <2>1. job'[e[2]].pc \notin Early \cup {"check", "scan"}
      BY <1>0, <2>0, Progress
    <2> DEFINE pair == <<e[1][1], e[2]>>
    <2>2. CASE pair \notin Claims
      <3>1. pair \in Claims' => Admits(j) /\ pair[2] = j
        BY <2>2, ClaimsMove
      <3>2. Admits(j) => e[2] # j
        BY <2>0 DEF Admits
      <3> QED
        BY <2>1, <3>1, <3>2
    <2>3. CASE files[e[1]] = e[2] /\ files'[e[1]] # e[2]
      <3>1. e[2] = j
        BY <2>0, <2>3, HeldBefore
      <3>2. PICK part \in Parts, ref \in Refs : e[1] = <<part, ref>>
        BY <1>3 DEF Final
      <3>3. job[j].ref = ref /\ job[j].pc \notin Unlinked(part)
        BY <2>3, <3>1, <3>2 DEF IInv, DirectoryOK, PlacedOK, Holds
      <3>4. Quiet(j)
        <4>1. ~Scans(j) /\ ~Admits(j)
          BY <2>3 DEF Scans, Admits
        <4>2. ASSUME NEW p \in Parts, Writes(j, p) \/ Links(j, p)
              PROVE  FALSE
          <5>1. TypeOK
            BY DEF IInv
          <5>2. CASE Writes(j, p)
            <6>1. <<p, j>> \in Names /\ <<p, j>> # e[1]
              BY <3>2, NameFacts, StoreAssumption
            <6> QED
              BY <2>0, <2>3, <5>1, <5>2, <6>1, PutFacts DEF Writes
          <5>3. CASE Links(j, p)
            <6>1. <<p, job[j].ref>> \in Names
              BY <5>3, NameFacts DEF Links
            <6>2. /\ files'[<<p, job[j].ref>>] = j
                  /\ \A m \in Names : m # <<p, job[j].ref>> => files'[m] = files[m]
              BY <5>1, <5>3, <6>1, PutFacts DEF Links
            <6> QED
              BY <2>0, <2>3, <3>1, <6>2
          <5> QED
            BY <4>2, <5>2, <5>3
        <4> QED
          BY <4>1, <4>2 DEF Kind
      <3>5. files'[e[1]] = None
        BY <2>0, <2>3, <3>4 DEF Quiet
      <3>6. pair \notin Published'
        <4>0. pair = <<part, j>> /\ pair[1] = part /\ pair[2] = j
          BY <3>1, <3>2
        <4> HIDE DEF pair
        <4> SUFFICES ASSUME NEW r \in Refs, files'[<<part, r>>] = j
                     PROVE  FALSE
          BY <4>0 DEF Published
        <4>1. <<part, r>> \in Names /\ j # None
          BY NameFacts
        <4>2. files[<<part, r>>] = j
          BY <3>4, <4>1 DEF Quiet
        <4>3. job[j].ref = r
          BY <4>2 DEF IInv, DirectoryOK, PlacedOK, Holds
        <4> QED
          BY <3>2, <3>3, <3>5, <4>1, <4>3
      <3>7. pair \notin Owed'
        <4>1. \/ \A n \in Final : files'[n] = files[n]
              \/ job'[j].pc \in Late
          BY <3>3, <3>4 DEF Quiet, Unlinked, Early
        <4>2. job'[j].pc \in Late
          BY <1>3, <2>3, <4>1
        <4> QED
          BY <3>1, <4>2 DEF Owed, Late, Recording, Removing
      <3> QED
        BY <2>1, <3>6, <3>7 DEF Claims
    <2> QED
      BY <2>0, <2>1, <2>2, <2>3
  <1>4. \E busy \in SUBSET Jobs : Cardinality(busy) <= Workers /\ Accounted(k, busy)'
    <2>1. PICK busy \in SUBSET Jobs : Cardinality(busy) <= Workers /\ Accounted(k, busy)
      BY DEF ScanOK
    <2>2. ASSUME NEW e \in seen[k], e[1] \in Pending
          PROVE  e[2] \in busy \/ (job'[e[2]].pc = "done" /\ files'[e[1]] = e[2])
      <3>0. e[1] \in Names /\ e[2] \in Jobs
        BY <1>0, <2>2
      <3>1. CASE e[2] \in busy
        BY <3>1
      <3>2. CASE job[e[2]].pc = "done" /\ files[e[1]] = e[2]
        <4>1. e[2] # j
          BY <3>2, Progress
        <4> QED
          BY <1>0, <3>0, <3>2, <4>1, HeldBefore
      <3> QED
        BY <2>1, <2>2, <3>1, <3>2 DEF Accounted
    <2>3. Accounted(k, busy)'
      BY <1>0, <2>2 DEF Accounted
    <2> QED
      BY <2>1, <2>3
  <1> QED
    BY <1>0, <1>1, <1>2, <1>3, <1>4 DEF ScanOK

\* A listing has no more parts than entries.
LEMMA FewerPairs ==
    ASSUME NEW found, IsFiniteSet(found)
    PROVE  /\ IsFiniteSet(Pairs(found)) /\ Cardinality(Pairs(found)) <= Cardinality(found)
           /\ Cardinality(Pairs(found)) \in Nat /\ Cardinality(found) \in Nat
  <1> DEFINE f == [e \in found |-> <<e[1][1], e[2]>>]
  <1>1. f \in Surjection(found, Pairs(found))
    BY DEF Surjection, Pairs
  <1> QED
    BY <1>1, FS_Surjection, FS_CardinalityType

\* The parts of some jobs are twice as many as the jobs.
LEMMA TwoParts ==
    ASSUME NEW A \in SUBSET Jobs
    PROVE  /\ IsFiniteSet(Parts \X A) /\ Cardinality(Parts \X A) = 2 * Cardinality(A)
           /\ IsFiniteSet(A) /\ Cardinality(A) \in Nat
  <1>1. IsFiniteSet(A) /\ Cardinality(A) \in Nat
    BY StoreAssumption, FS_Subset, FS_CardinalityType
  <1> QED
    BY <1>1, NamesFinite, FS_Product

\* What two sets cover is no more than the two together.
LEMMA Covered ==
    ASSUME NEW S, NEW T, NEW U, IsFiniteSet(S), IsFiniteSet(T), U \subseteq S \cup T
    PROVE  /\ IsFiniteSet(U) /\ Cardinality(U) <= Cardinality(S) + Cardinality(T)
           /\ Cardinality(U) \in Nat
  <1>1. /\ IsFiniteSet(S \cup T) /\ IsFiniteSet(S \cap T)
        /\ Cardinality(S \cup T) = Cardinality(S) + Cardinality(T) - Cardinality(S \cap T)
    BY FS_Union, FS_Subset
  <1>2. IsFiniteSet(U) /\ Cardinality(U) <= Cardinality(S \cup T)
    BY <1>1, FS_Subset
  <1>3. /\ Cardinality(S \cap T) \in Nat /\ Cardinality(U) \in Nat
        /\ Cardinality(S) \in Nat /\ Cardinality(T) \in Nat
    BY <1>1, <1>2, FS_CardinalityType
  <1> QED
    BY <1>1, <1>2, <1>3

\* The count behind the bound.  A scan found no more than MaximumFiles entries;
\* what is claimed and what waits is among the parts it found, or of a job that
\* was busy when the scan began and does not wait.
LEMMA Counting ==
    ASSUME NEW claims \in SUBSET Pending, NEW A \in SUBSET Jobs, A # {},
           NEW busy \in SUBSET Jobs, A \subseteq busy, Cardinality(busy) <= Workers,
           NEW found, IsFiniteSet(found), Cardinality(found) <= MaximumFiles,
           claims \cap (Parts \X A) = {},
           claims \cup (Parts \X A) \subseteq Pairs(found) \cup (Parts \X (busy \ A))
    PROVE  Cardinality(claims) + 2 * Cardinality(A) <= Ceiling
  <1>1. /\ Cardinality(A) \in Nat /\ Cardinality(A) >= 1 /\ IsFiniteSet(A)
        /\ Cardinality(busy) \in Nat
        /\ Cardinality(busy \ A) = Cardinality(busy) - Cardinality(A)
    <2>1. IsFiniteSet(A) /\ IsFiniteSet(busy)
      BY TwoParts
    <2>2. Cardinality(A) \in Nat /\ Cardinality(busy) \in Nat
      BY <2>1, FS_CardinalityType
    <2>3. Cardinality(A) # 0
      BY <2>1, FS_EmptySet
    <2>4. busy \cap A = A
      OBVIOUS
    <2>5. Cardinality(busy \ A) = Cardinality(busy) - Cardinality(A)
      BY <2>1, <2>4, FS_Difference
    <2> QED
      BY <2>1, <2>2, <2>3, <2>5
  <1>2. /\ IsFiniteSet(claims) /\ Cardinality(claims) \in Nat
        /\ Cardinality(claims \cup (Parts \X A)) = Cardinality(claims) + 2 * Cardinality(A)
    <2>1. IsFiniteSet(claims) /\ Cardinality(claims) \in Nat
      BY NamesFinite, FS_Subset, FS_CardinalityType
    <2>2. IsFiniteSet(Parts \X A) /\ Cardinality(Parts \X A) = 2 * Cardinality(A)
      BY TwoParts
    <2>3. Cardinality(claims \cup (Parts \X A)) =
             Cardinality(claims) + Cardinality(Parts \X A) - Cardinality(claims \cap (Parts \X A))
      BY <2>1, <2>2, FS_Union
    <2>4. Cardinality(claims \cap (Parts \X A)) = 0
      BY FS_EmptySet
    <2> QED
      BY <1>1, <2>1, <2>2, <2>3, <2>4
  <1>3. /\ IsFiniteSet(Pairs(found)) /\ Cardinality(Pairs(found)) \in Nat
        /\ Cardinality(Pairs(found)) <= MaximumFiles
    BY FewerPairs, StoreAssumption
  <1>4. /\ IsFiniteSet(Parts \X (busy \ A))
        /\ Cardinality(Parts \X (busy \ A)) = 2 * Cardinality(busy \ A)
    BY TwoParts
  <1>5. Cardinality(claims \cup (Parts \X A)) <=
           Cardinality(Pairs(found)) + Cardinality(Parts \X (busy \ A))
    BY <1>3, <1>4, Covered
  <1> DEFINE c == Cardinality(claims)
             a == Cardinality(A)
             b == Cardinality(busy)
             f == Cardinality(Pairs(found))
  <1>6. c + 2 * a <= f + 2 * (b - a)
    BY <1>1, <1>2, <1>4, <1>5
  <1>7. c \in Nat /\ a \in Nat /\ a >= 1 /\ b \in Nat /\ b <= Workers /\ f \in Nat
        /\ f <= MaximumFiles /\ Workers \in Nat /\ MaximumFiles \in Nat
    BY <1>1, <1>2, <1>3, StoreAssumption
  <1> HIDE DEF c, a, b, f
  <1>8. c + 2 * a <= MaximumFiles + 2 * (Workers - 1)
    BY <1>6, <1>7
  <1> QED
    BY <1>8 DEF c, a, Ceiling

\* A worker that passes the bound check leaves room for itself and for all
\* that wait under its eyes.
LEMMA AdmitRoom ==
    ASSUME IInv, NEW j \in Jobs, process = "up", Admits(j), NEW A \in Watched(j)
    PROVE  RoomFor(A)
  <1>0. /\ j \in Scanning /\ ScanOK(j) /\ RoomOK /\ TypeOK
        /\ A \in SUBSET Jobs /\ A # {} /\ A \subseteq Waiting
        /\ \A k \in A : Sees(j, k)
    BY DEF Admits, Scanning, IInv, DirectoryOK, BoundOK, ScansOK, Watched, Waiting
  <1>1. SUFFICES ASSUME Claims \subseteq Pairs(seen[j])
                 PROVE  RoomFor(A)
    BY <1>0 DEF RoomOK
  <1>2. PICK busy \in SUBSET Jobs : Cardinality(busy) <= Workers /\ Accounted(j, busy)
    BY <1>0 DEF ScanOK
  <1>3. Claims \in SUBSET Pending
    BY DEF Claims, Published, Owed
  <1>4. Claims \cap (Parts \X A) = {}
    <2> SUFFICES ASSUME NEW part \in Parts, NEW k \in A, <<part, k>> \in Claims
                 PROVE  FALSE
      OBVIOUS
    <2>1. k \in Jobs /\ job[k].pc \in {"check", "scan"} /\ PlacedOK(k)
      BY <1>0 DEF Waiting, IInv, DirectoryOK
    <2>2. <<part, k>> \notin Owed
      BY <2>1 DEF Owed
    <2>3. PICK ref \in Refs : files[<<part, ref>>] = k
      BY <2>2 DEF Claims, Published
    <2> QED
      BY <2>1, <2>3 DEF PlacedOK, Holds, Unlinked
  <1>5. A \subseteq busy
    <2> SUFFICES ASSUME NEW k \in A
                 PROVE  k \in busy
      OBVIOUS
    <2>1. k \in Jobs /\ job[k].pc \in {"check", "scan"} /\ "plan" \in Parts
      BY <1>0 DEF Waiting, Parts
    <2>2. <<<<"plan", k>>, k>> \in seen[j] /\ <<"plan", k>> \in Pending
      BY <1>0, <2>1, NameFacts DEF Sees
    <2> QED
      BY <1>2, <2>1, <2>2 DEF Accounted
  <1>6. \A part \in Parts : \A k \in A : <<part, k>> \in Pairs(Still(j))
    <2> SUFFICES ASSUME NEW part \in Parts, NEW k \in A
                 PROVE  <<part, k>> \in Pairs(Still(j))
      OBVIOUS
    <2>1. <<<<part, k>>, k>> \in Still(j)
      BY <1>0, ListedParts DEF Still, Sees
    <2> QED
      BY <2>1 DEF Pairs
  <1>7. ASSUME NEW n \in Claims
        PROVE  n \in Pairs(Still(j)) \cup (Parts \X (busy \ A))
    <2>1. PICK e \in seen[j] : n = <<e[1][1], e[2]>>
      BY <1>1 DEF Pairs
    <2>2. /\ e[1] \in Names /\ e[2] \in Jobs /\ e[1][1] \in Parts
          /\ e[1] \in Final \/ e[1] \in Pending
          /\ e = <<e[1], e[2]>>
      BY <1>0 DEF TypeOK, Names, Final, Pending
    <2>3. ASSUME files[e[1]] = e[2]
          PROVE  n \in Pairs(Still(j))
      <3>1. e \in Listing
        BY <1>0, <2>2, <2>3, StoreAssumption DEF Listing, Entries, TypeOK
      <3> QED
        BY <2>1, <3>1 DEF Still, Pairs
    <2>4. CASE e[1] \in Final
      BY <1>0, <2>1, <2>3, <2>4 DEF ScanOK
    <2>5. CASE e[1] \in Pending
      <3>1. e[2] \in busy \/ files[e[1]] = e[2]
        BY <1>2, <2>5 DEF Accounted
      <3>2. e[2] \notin A
        BY <1>4, <2>1, <2>2
      <3> QED
        BY <2>1, <2>2, <2>3, <3>1, <3>2
    <2> QED
      BY <2>2, <2>4, <2>5
  <1>8. Claims \cup (Parts \X A) \subseteq Pairs(Still(j)) \cup (Parts \X (busy \ A))
    BY <1>6, <1>7
  <1>9. IsFiniteSet(Still(j)) /\ Cardinality(Still(j)) <= MaximumFiles
    <2>1. IsFiniteSet(Names \X Jobs)
      BY NamesFinite, FS_Product, StoreAssumption
    <2>2. Still(j) \in SUBSET (Names \X Jobs)
      BY <1>0 DEF Still, TypeOK
    <2> QED
      BY <2>1, <2>2, FS_Subset DEF Admits, WithinBound
  <1>10. Cardinality(Claims) + 2 * Cardinality(A) <= Ceiling
    BY <1>0, <1>2, <1>3, <1>4, <1>5, <1>8, <1>9, Counting
  <1> QED
    BY <1>10 DEF RoomFor

\* A job that begins to wait was not seen by any scan under way.
LEMMA NewIsUnseen ==
    ASSUME NEW j \in Jobs, Kind(j), NEW k, ScanOK(k), Sees(k, j),
           job'[j].pc \in {"check", "scan"}
    PROVE  j \in Waiting
  <1>1. job[j].pc \notin Early
    BY DEF ScanOK
  <1>2. job[j].pc \in {"check", "write_plan"}
    BY Progress
  <1> QED
    BY <1>1, <1>2 DEF Waiting, Early

\* Of two scans one still sees the other, or no less than the other.
LEMMA NestStep ==
    ASSUME IInv, NEW j \in Jobs, process = "up", Step(j), Worker(j), Kind(j)
    PROVE  NestOK'
  <1>0. /\ \A i \in Jobs \ {j} : job'[i] = job[i] /\ seen'[i] = seen[i]
        /\ NestOK /\ \A i \in Scanning : ScanOK(i)
    BY SeenStep DEF Worker, Alone, IInv, DirectoryOK, BoundOK, ScansOK
  <1>1. Scans(j) => \A i \in Waiting' : Sees(j, i)'
    <2> SUFFICES ASSUME Scans(j), NEW i \in Waiting'
                 PROVE  Sees(j, i)'
      OBVIOUS
    <2>1. i \in Waiting
      BY <1>0 DEF Waiting, Scans
    <2> QED
      BY <2>1, ListedParts DEF Scans, Sees
  <1> SUFFICES ASSUME NEW a \in Scanning', NEW b \in Scanning', ~Sees(a, b)',
                      NEW i \in Waiting', Sees(a, i)'
               PROVE  Sees(b, i)'
    BY DEF NestOK
  <1>2. a \in Jobs /\ b \in Jobs /\ job'[a].pc = "scan" /\ job'[b].pc = "scan" /\ i \in Jobs
        /\ a \in Waiting' /\ b \in Waiting' /\ job'[i].pc \in {"check", "scan"}
    BY DEF Scanning, Waiting
  <1>3. CASE a = j \/ b = j
    BY <1>1, <1>2, <1>3, Progress
  <1>4. CASE a # j /\ b # j
    <2>1. /\ a \in Scanning /\ b \in Scanning /\ ~Sees(a, b) /\ Sees(a, i) /\ ScanOK(a)
          /\ Sees(b, i)' <=> Sees(b, i)
      BY <1>0, <1>2, <1>4 DEF Scanning, Sees
    <2>2. i \in Waiting
      <3>1. CASE i = j
        BY <1>2, <2>1, <3>1, NewIsUnseen
      <3>2. CASE i # j
        BY <1>0, <1>2, <3>2 DEF Waiting
      <3> QED
        BY <3>1, <3>2
    <2> QED
      BY <1>0, <2>1, <2>2 DEF NestOK
  <1> QED
    BY <1>3, <1>4

\* The number of claims.
LEMMA ClaimsFinite ==
    /\ IsFiniteSet(Claims) /\ Cardinality(Claims) \in Nat
    /\ MaximumFiles \in Nat /\ Workers \in Nat /\ Ceiling \in Int
  <1>1. Claims \in SUBSET Pending
    BY DEF Claims, Published, Owed
  <1> QED
    BY <1>1, NamesFinite, FS_Subset, FS_CardinalityType, StoreAssumption DEF Ceiling

\* A step grows the claims by the two parts of its job, if it passes the check.
LEMMA ClaimsCount ==
    ASSUME IInv, NEW j \in Jobs, Worker(j), Kind(j)
    PROVE  /\ Cardinality(Claims') \in Nat
           /\ ~Admits(j) => Cardinality(Claims') <= Cardinality(Claims)
           /\ Cardinality(Claims') <= Cardinality(Claims) + 2
  <1>1. \A n \in Claims' : n \in Pending /\ (n \notin Claims => Admits(j) /\ n[2] = j)
    BY ClaimsMove
  <1>2. \A n \in Claims' : n \notin Claims => n \in Parts \X {j}
    BY <1>1 DEF Pending
  <1>3. IsFiniteSet(Claims) /\ Cardinality(Claims) \in Nat
    BY ClaimsFinite
  <1>4. IsFiniteSet(Parts \X {j}) /\ Cardinality(Parts \X {j}) = 2
    <2>1. {j} \in SUBSET Jobs /\ Cardinality({j}) = 1
      BY FS_Singleton
    <2>2. IsFiniteSet(Parts \X {j}) /\ Cardinality(Parts \X {j}) = 2 * Cardinality({j})
      BY <2>1, TwoParts
    <2> QED
      BY <2>1, <2>2
  <1>5. Claims' \subseteq Claims \cup (Parts \X {j})
    BY <1>2
  <1>6. IsFiniteSet(Claims') /\ Cardinality(Claims') \in Nat
        /\ Cardinality(Claims') <= Cardinality(Claims) + 2
    BY <1>3, <1>4, <1>5, Covered
  <1>7. ASSUME ~Admits(j)
        PROVE  Cardinality(Claims') <= Cardinality(Claims)
    <2>1. Claims' \in SUBSET Claims
      BY <1>1, <1>7
    <2> QED
      BY <1>3, <2>1, FS_Subset
  <1> QED
    BY <1>6, <1>7

\* One job more that waits.
LEMMA OneMore ==
    ASSUME NEW A \in SUBSET Jobs, NEW j \in Jobs \ A
    PROVE  /\ Cardinality(A) \in Nat /\ Cardinality(A \cup {j}) = Cardinality(A) + 1
           /\ A \cup {j} \in SUBSET Jobs
  <1>1. IsFiniteSet(A) /\ Cardinality(A) \in Nat
    BY TwoParts
  <1> QED
    BY <1>1, FS_AddElement

\* Room for one more is room for the parts it comes to claim.
LEMMA RoomTaken ==
    ASSUME IInv, NEW j \in Jobs, Worker(j), Kind(j), NEW A \in SUBSET Jobs, j \notin A,
           RoomFor(A \cup {j})
    PROVE  RoomFor(A)'
  <1> DEFINE c == Cardinality(Claims)
             d == Cardinality(Claims')
             a == Cardinality(A)
  <1>1. Cardinality(A \cup {j}) = a + 1 /\ a \in Nat
    BY OneMore
  <1>2. c + 2 * (a + 1) <= Ceiling
    BY <1>1 DEF RoomFor
  <1>3. c \in Nat /\ d \in Nat /\ d <= c + 2 /\ Ceiling \in Int
    BY ClaimsCount, ClaimsFinite
  <1> HIDE DEF c, d, a
  <1>4. d + 2 * a <= Ceiling
    BY <1>1, <1>2, <1>3
  <1> QED
    BY <1>4 DEF RoomFor, c, d, a, Ceiling

\* A step that claims nothing takes no room.
LEMMA RoomLeft ==
    ASSUME IInv, NEW j \in Jobs, Worker(j), Kind(j), ~Admits(j), NEW A \in SUBSET Jobs,
           RoomFor(A)
    PROVE  RoomFor(A)'
  <1> DEFINE c == Cardinality(Claims)
             d == Cardinality(Claims')
             a == Cardinality(A)
  <1>1. c \in Nat /\ d \in Nat /\ d <= c /\ Ceiling \in Int /\ a \in Nat
    BY ClaimsCount, ClaimsFinite, TwoParts
  <1>2. c + 2 * a <= Ceiling
    BY DEF RoomFor
  <1> HIDE DEF c, d, a
  <1>3. d + 2 * a <= Ceiling
    BY <1>1, <1>2
  <1> QED
    BY <1>3 DEF RoomFor, c, d, a, Ceiling

\* Room remains for all that wait under the eyes of a scan that missed a claim.
LEMMA RoomStep ==
    ASSUME IInv, NEW j \in Jobs, process = "up", Step(j), Worker(j), Kind(j)
    PROVE  RoomOK' /\ RoomFor({})'
  <1>0. /\ \A i \in Jobs \ {j} : job'[i] = job[i] /\ seen'[i] = seen[i]
        /\ NestOK /\ RoomOK /\ RoomFor({}) /\ \A i \in Scanning : ScanOK(i)
    BY SeenStep DEF Worker, Alone, IInv, DirectoryOK, BoundOK, ScansOK
  <1>1. Admits(j) => j \in Scanning /\ j \in Waiting /\ Sees(j, j) /\ j \notin Waiting'
    BY <1>0 DEF Admits, Scanning, Waiting, ScanOK
  <1>2. RoomFor({})'
    <2>1. CASE Admits(j)
      <3>1. {} \cup {j} \in Watched(j)
        BY <1>1, <2>1 DEF Watched
      <3>2. RoomFor({} \cup {j})
        BY <2>1, <3>1, AdmitRoom
      <3> QED
        BY <3>2, RoomTaken
    <2>2. CASE ~Admits(j)
      BY <1>0, <2>2, RoomLeft
    <2> QED
      BY <2>1, <2>2
  <1>3. RoomOK'
    <2> SUFFICES ASSUME NEW a \in Scanning', NEW A \in Watched(a)', ~RoomFor(A)'
                 PROVE  Claims' \subseteq Pairs(seen'[a])
      BY DEF RoomOK
    <2>0. /\ a \in Jobs /\ job'[a].pc = "scan" /\ a \in A
          /\ A \subseteq Waiting' /\ A \in SUBSET Jobs /\ \A k \in A : Sees(a, k)'
      BY DEF Scanning, Watched, Waiting
    <2>1. CASE a = j
      <3>1. Scans(j) /\ ~Admits(j)
        BY <2>0, <2>1, Progress DEF Scans, Admits
      <3>2. Claims' \subseteq Claims
        BY <3>1, ClaimsMove
      <3> QED
        BY <2>1, <3>1, <3>2, ListedParts DEF Scans
    <2>2. CASE a # j
      <3>1. /\ a \in Scanning /\ seen'[a] = seen[a] /\ ScanOK(a)
            /\ \A k \in Jobs : Sees(a, k)' <=> Sees(a, k)
        BY <1>0, <2>0, <2>2 DEF Scanning, Sees
      <3>2. A \subseteq Waiting
        <4> SUFFICES ASSUME NEW k \in A
                     PROVE  k \in Waiting
          OBVIOUS
        <4>1. k \in Jobs /\ Sees(a, k) /\ job'[k].pc \in {"check", "scan"}
          BY <2>0, <3>1 DEF Waiting
        <4>2. CASE k = j
          BY <3>1, <4>1, <4>2, NewIsUnseen
        <4>3. CASE k # j
          BY <1>0, <4>1, <4>3 DEF Waiting
        <4> QED
          BY <4>2, <4>3
      <3>3. A \in Watched(a)
        BY <2>0, <3>1, <3>2 DEF Watched
      <3>4. CASE ~Admits(j)
        <4>1. ~RoomFor(A)
          BY <2>0, <3>4, RoomLeft
        <4>2. Claims \subseteq Pairs(seen[a])
          BY <1>0, <3>1, <3>3, <4>1 DEF RoomOK
        <4>3. Claims' \subseteq Claims
          BY <3>4, ClaimsMove
        <4> QED
          BY <3>1, <4>2, <4>3
      <3>5. CASE Admits(j)
        <4>0. j \notin A /\ A \cup {j} \in SUBSET Waiting
          BY <1>1, <2>0, <3>2, <3>5
        <4>1. ~RoomFor(A \cup {j})
          BY <2>0, <4>0, RoomTaken
        <4>2. A \cup {j} \notin Watched(j)
          BY <3>5, <4>1, AdmitRoom
        <4>3. Sees(a, j)
          <5> SUFFICES ASSUME ~Sees(a, j)
                       PROVE  FALSE
            OBVIOUS
          <5>1. \A i \in Waiting : Sees(a, i) => Sees(j, i)
            BY <1>0, <1>1, <3>1, <3>5 DEF NestOK
          <5>2. \A k \in A : Sees(j, k)
            BY <2>0, <3>1, <3>2, <5>1
          <5>3. A \cup {j} \in Watched(j)
            BY <1>1, <3>5, <4>0, <5>2 DEF Watched
          <5> QED
            BY <4>2, <5>3
        <4>4. A \cup {j} \in Watched(a)
          BY <2>0, <3>1, <4>0, <4>3 DEF Watched
        <4>5. Claims \subseteq Pairs(seen[a])
          BY <1>0, <3>1, <4>1, <4>4 DEF RoomOK
        <4>6. ASSUME NEW n \in Claims'
              PROVE  n \in Pairs(seen[a])
          <5>1. CASE n \in Claims
            BY <4>5, <5>1
          <5>2. CASE n \notin Claims
            <6>1. n \in Pending /\ n[2] = j
              BY <5>2, ClaimsMove
            <6>2. PICK part \in Parts : n = <<part, j>>
              BY <6>1 DEF Pending
            <6>3. <<<<part, j>>, j>> \in seen[a]
              BY <4>3 DEF Sees
            <6> QED
              BY <6>2, <6>3 DEF Pairs
          <5> QED
            BY <5>1, <5>2
        <4> QED
          BY <3>1, <4>6
      <3> QED
        BY <3>4, <3>5
    <2> QED
      BY <2>1, <2>2
  <1> QED
    BY <1>2, <1>3

\* A step of a worker keeps what is said of the directory.
LEMMA WorkerKeepsDirectory ==
    ASSUME IInv, NEW j \in Jobs, Step(j), Worker(j)
    PROVE  DirectoryOK'
  <1>0. Kind(j) /\ KeepsRef(j) /\ process = "up"
    BY StepKinds DEF Worker
  <1>1. ActiveOK' /\ \A k \in Jobs : PlacedOK(k)'
    BY <1>0, ActiveStep, PlacedStep
  <1>2. NestOK' /\ RoomOK' /\ RoomFor({})'
    BY <1>0, NestStep, RoomStep
  <1>3. ASSUME NEW k \in Scanning'
        PROVE  ScanOK(k)'
    <2>0. k \in Jobs /\ job'[k].pc = "scan"
      BY DEF Scanning
    <2>1. CASE k = j
      BY <1>0, <2>0, <2>1, Progress, ScanBegins
    <2>2. CASE k # j
      <3>1. job'[k] = job[k]
        BY <2>0, <2>2 DEF Worker, Alone
      <3>2. ScanOK(k)
        BY <1>0, <2>0, <3>1 DEF Scanning, IInv, DirectoryOK, BoundOK, ScansOK
      <3> QED
        BY <1>0, <2>0, <2>2, <3>2, ScanGoesOn
    <2> QED
      BY <2>1, <2>2
  <1> QED
    BY <1>1, <1>2, <1>3 DEF DirectoryOK, BoundOK, ScansOK

-----------------------------------------------------------------------------
(* The receipts *)

\* Receipts are rows.
LEMMA ReceiptsAreRows ==
    ASSUME IInv
    PROVE  \A x \in receipts : IsRow(x)
  BY DEF IInv, ReceiptsOK, ReceiptsTyped, IsRow, JobsTyped, JobType

\* When the jobs keep their rows and receipts are only added, every dry run
\* that was recorded is as well off as before.
LEMMA ReceiptStays ==
    ASSUME IInv, NEW k \in Jobs, clock' \in Nat, clock' >= clock,
           job[k].recorded, job'[k].kind = job[k].kind, job'[k].time = job[k].time,
           receipts \subseteq receipts', IsFiniteSet(receipts')
    PROVE  ReceiptKept(k)'
  <1>0. /\ ReceiptKept(k) /\ clock \in Nat /\ job[k].time \in Nat /\ IsFiniteSet(receipts)
    BY StoreAssumption
    DEF IInv, ReceiptsOK, ReceiptsTyped, TypeOK, JobsTyped, JobType
  <1> DEFINE t == job[k].time
  <1>1. Later(receipts, t) \subseteq Later(receipts', t) /\ IsFiniteSet(Later(receipts', t))
    BY FS_Subset DEF Later
  <1>2. /\ Cardinality(Later(receipts, t)) <= Cardinality(Later(receipts', t))
        /\ Cardinality(Later(receipts, t)) \in Nat /\ Cardinality(Later(receipts', t)) \in Nat
    BY <1>1, FS_Subset, FS_CardinalityType
  <1>3. Cardinality(Later(receipts, t)) >= RetainedRows =>
           Cardinality(Later(receipts', t)) >= RetainedRows
    BY <1>2, StoreAssumption
  <1>4. clock > t + Retention => clock' > t + Retention
    BY <1>0, StoreAssumption
  <1> QED
    BY <1>0, <1>3, <1>4 DEF ReceiptKept

\* Maintenance at a time that has come removes a receipt only for a reason.
LEMMA MaintenanceKeeps ==
    ASSUME IInv, NEW k \in Jobs, NEW now \in Nat, now <= clock, UNCHANGED clock,
           job[k].recorded, job'[k].kind = job[k].kind, job'[k].time = job[k].time,
           receipts' = RetainedReceipts(receipts, now)
    PROVE  ReceiptKept(k)'
  <1>0. /\ ReceiptKept(k) /\ clock \in Nat /\ job[k].time \in Nat /\ IsFiniteSet(receipts)
        /\ \A x \in receipts : IsRow(x)
    BY StoreAssumption, ReceiptsAreRows
    DEF IInv, ReceiptsOK, ReceiptsTyped, TypeOK, JobsTyped, JobType
  <1> DEFINE t == job[k].time
             reason == \/ clock > t + Retention
                       \/ Cardinality(Later(receipts', t)) >= RetainedRows
  <1>1. SUFFICES ASSUME job[k].kind = "dry_run"
                 PROVE  reason \/ \E x \in receipts' : x.job = k
    BY DEF ReceiptKept
  <1>2. ASSUME NEW x \in receipts, x.time >= t, x \notin receipts'
        PROVE  reason
    <2>1. \/ now > t + Retention
          \/ Cardinality(Later(receipts', t)) >= RetainedRows
      BY <1>0, <1>2, RemovalHasReason
    <2> QED
      BY <1>0, <2>1, StoreAssumption
  <1>3. CASE \E x \in receipts : x.job = k
    <2> PICK x \in receipts : x.job = k
      BY <1>3
    <2>1. x.time = t
      BY DEF IInv, ReceiptsOK, ReceiptsTyped
    <2>2. x.time >= t
      BY <1>0, <2>1
    <2> QED
      BY <1>2, <2>2
  <1>4. CASE clock > t + Retention
    BY <1>4
  <1>5. CASE Cardinality(Later(receipts, t)) >= RetainedRows
    <2>1. CASE \A x \in receipts : x.time >= t => x \in receipts'
      <3>1. Later(receipts, t) = Later(receipts', t)
        BY <2>1 DEF Later, RetainedReceipts, Fresh
      <3> QED
        BY <1>5, <3>1
    <2>2. CASE \E x \in receipts : x.time >= t /\ x \notin receipts'
      BY <1>2, <2>2
    <2> QED
      BY <2>1, <2>2
  <1> QED
    BY <1>0, <1>1, <1>3, <1>4, <1>5 DEF ReceiptKept

\* Only a commit records a job.
LEMMA OnlyCommitRecords ==
    ASSUME IInv, NEW j \in Jobs, Step(j), ~Commit(j)
    PROVE  job'[j].recorded => job[j].recorded
  <1>0. JobsTyped /\ job[j] \in JobType
    BY DEF IInv, JobsTyped
  <1>1. \A pc : Goto(j, pc) => job'[j].recorded = job[j].recorded
    BY <1>0 DEF Goto, JobsTyped, JobType
  <1>2. \A end : End(j, end) => job'[j].recorded = job[j].recorded
    BY <1>0 DEF End, JobsTyped, JobType
  <1>3. job' = [job EXCEPT ![j] = [Rest EXCEPT !.kind = "other", !.pc = "stamp"]]
           => job'[j].recorded = FALSE
    BY <1>0, FailedFacts
  <1>4. CASE Begin(j)
    <2>1. CASE job' = [job EXCEPT ![j].kind = "plan", ![j].pc = "choose"]
      BY <1>0, <2>1 DEF JobsTyped, JobType
    <2>2. ASSUME NEW ref, job' = [job EXCEPT ![j].kind = "dry_run", ![j].ref = ref,
                                             ![j].pc = "load_binding"]
          PROVE  job'[j].recorded = job[j].recorded
      BY <1>0, <2>2 DEF JobsTyped, JobType
    <2>3. CASE job' = [job EXCEPT ![j].kind = "other", ![j].pc = "stamp"]
      BY <1>0, <2>3 DEF JobsTyped, JobType
    <2> QED
      BY <1>4, <2>1, <2>2, <2>3 DEF Begin
  <1>5. CASE Choose(j)
    BY <1>0, <1>3, <1>5 DEF Choose, JobsTyped, JobType
  <1>6. CASE Load(j)
    BY <1>0, <1>3, <1>6 DEF Load, JobsTyped, JobType
  <1>7. CASE Stamp(j)
    BY <1>0, <1>7 DEF Stamp, JobsTyped, JobType
  <1>8. CASE Cleanup(j)
    BY <1>0, <1>8, DroppedFacts DEF Cleanup
  <1>9. CASE WritePending(j) \/ StartScan(j) \/ EndScan(j) \/ Publish(j) \/ Sync(j)
    BY <1>1, <1>9 DEF WritePending, StartScan, EndScan, Publish, Sync
  <1>10. CASE Finish(j) \/ RemovePlan(j)
    BY <1>1, <1>2, <1>10 DEF Finish, RemovePlan
  <1>11. CASE Fault(j)
    <2>1. CASE job' = [job EXCEPT ![j].refused = TRUE,
                          ![j].pc = IF Unpublished(j) THEN "remove_plan" ELSE "done",
                          ![j].end = IF Unpublished(j) THEN None ELSE "Failed"]
      BY <1>0, <2>1 DEF JobsTyped, JobType
    <2> QED
      BY <1>1, <1>2, <1>11, <2>1 DEF Fault
  <1> QED
    BY <1>4, <1>5, <1>6, <1>7, <1>8, <1>9, <1>10, <1>11 DEF Step

\* A step of a worker that moves no table row keeps the receipts.
LEMMA RowsStay ==
    ASSUME IInv, NEW j \in Jobs, Worker(j), NEW x \in receipts
    PROVE  /\ x.job \in Jobs /\ x.row \in Nat
           /\ job'[x.job].recorded /\ x.time = job'[x.job].time
  <1>1. /\ x.job \in Jobs /\ x.row \in Nat
        /\ job[x.job].recorded /\ x.time = job[x.job].time
    BY DEF IInv, ReceiptsOK, ReceiptsTyped
  <1>2. CASE x.job = j
    BY <1>1, <1>2 DEF Worker, RowKept
  <1>3. CASE x.job # j
    BY <1>1, <1>3 DEF Worker, Alone
  <1> QED
    BY <1>1, <1>2, <1>3

\* A step of a worker keeps the receipts that have a right to stay.
LEMMA WorkerKeepsReceipts ==
    ASSUME IInv, NEW j \in Jobs, Step(j), Worker(j)
    PROVE  ReceiptsOK'
  <1>0. /\ UNCHANGED clock /\ clock \in Nat /\ IsFiniteSet(receipts) /\ TimesOK
        /\ \A k \in Jobs : job[k].time \in Nat
        /\ \A k \in Jobs \ {j} : job'[k] = job[k]
    BY StoreAssumption
    DEF Worker, storage, IInv, TypeOK, ReceiptsOK, ReceiptsTyped, Alone, JobsTyped, JobType
  <1>1. TimesOK'
    <2> SUFFICES ASSUME NEW k \in Jobs
                 PROVE  job'[k].time <= clock'
      BY DEF TimesOK
    <2>1. CASE k = j
      BY <1>0, <2>1 DEF Worker, TimesOK
    <2>2. CASE k # j
      BY <1>0, <2>2 DEF TimesOK
    <2> QED
      BY <2>1, <2>2
  <1>2. ASSUME NEW k \in Jobs, job[k].recorded
        PROVE  job'[k].kind = job[k].kind /\ job'[k].time = job[k].time
    <2>1. CASE k = j
      BY <1>2, <2>1 DEF Worker, RowKept
    <2>2. CASE k # j
      BY <1>0, <2>2
    <2> QED
      BY <2>1, <2>2
  <1>3. CASE Commit(j)
    <2>0. job[j].pc = "commit" /\ ~job[j].recorded /\ job'[j].recorded
          /\ job'[j].kind = job[j].kind /\ job'[j].time = job[j].time
      BY <1>3, CommitStep DEF Commit, At, IInv, JobsOK, PhaseOK, Removing
    <2> DEFINE row == TerminalRow(j)
    <2>1. row.job = j /\ row.time = job[j].time /\ row.row \in Nat
      <3>1. IsFiniteSet({k \in Jobs : job[k].recorded})
        BY StoreAssumption, FS_Subset
      <3>2. NextRow \in Nat
        BY <3>1, FS_CardinalityType DEF NextRow
      <3> QED
        BY <3>2 DEF TerminalRow
    <2> HIDE DEF row
    <2>2. receipts' = IF job[j].kind = "dry_run" THEN receipts \cup {row} ELSE receipts
      BY <1>3 DEF Commit, row
    <2>3. IsFiniteSet(receipts') /\ receipts \subseteq receipts'
      BY <1>0, <2>2, FS_AddElement
    <2>4. ReceiptsTyped'
      BY <2>0, <2>1, <2>2, <2>3, RowsStay DEF ReceiptsTyped
    <2>5. ReceiptKept(j)'
      BY <2>0, <2>1, <2>2 DEF ReceiptKept
    <2>6. ASSUME NEW k \in Jobs \ {j}
          PROVE  ReceiptKept(k)'
      <3>1. CASE job[k].recorded
        BY <1>0, <1>2, <2>3, <3>1, ReceiptStays
      <3>2. CASE ~job[k].recorded
        BY <1>0, <3>2 DEF ReceiptKept
      <3> QED
        BY <3>1, <3>2
    <2> QED
      BY <1>1, <2>4, <2>5, <2>6 DEF ReceiptsOK
  <1>4. CASE ~Commit(j)
    <2>0. \A k \in Jobs : job'[k].recorded => job[k].recorded
      BY <1>0, <1>4, OnlyCommitRecords
    <2>1. CASE UNCHANGED receipts
      <3>1. ReceiptsTyped'
        BY <1>0, <2>1, RowsStay DEF ReceiptsTyped
      <3>2. ASSUME NEW k \in Jobs
            PROVE  ReceiptKept(k)'
        <4>1. CASE job[k].recorded
          BY <1>0, <1>2, <2>1, <4>1, ReceiptStays
        <4>2. CASE ~job[k].recorded
          BY <2>0, <4>2 DEF ReceiptKept
        <4> QED
          BY <4>1, <4>2
      <3> QED
        BY <1>1, <3>1, <3>2 DEF ReceiptsOK
    <2>2. CASE receipts' = RetainedReceipts(receipts, job[j].time)
      <3>0. receipts' \subseteq receipts
        BY <2>2 DEF RetainedReceipts, Fresh
      <3>1. ReceiptsTyped'
        BY <1>0, <3>0, RowsStay, FS_Subset DEF ReceiptsTyped
      <3>2. ASSUME NEW k \in Jobs
            PROVE  ReceiptKept(k)'
        <4>1. CASE job[k].recorded
          <5>1. job[j].time \in Nat /\ job[j].time <= clock
            BY <1>0 DEF TimesOK
          <5> QED
            BY <1>0, <1>2, <2>2, <4>1, <5>1, MaintenanceKeeps
        <4>2. CASE ~job[k].recorded
          BY <2>0, <4>2 DEF ReceiptKept
        <4> QED
          BY <4>1, <4>2
      <3> QED
        BY <1>1, <3>1, <3>2 DEF ReceiptsOK
    <2> QED
      BY <1>4, <2>1, <2>2
      DEF Step, Begin, Choose, WritePending, StartScan, EndScan, Publish, Sync, Cleanup,
          Load, Stamp, Finish, Maintain, RemovePlan, Fault
  <1> QED
    BY <1>3, <1>4

-----------------------------------------------------------------------------
(* Opening, crashes and time *)

\* A step that leaves the jobs and the directory alone keeps their invariants.
LEMMA StoreUntouched ==
    ASSUME IInv, UNCHANGED <<files, synced, job, seen>>
    PROVE  JobsTyped' /\ JobsOK' /\ ActiveOK' /\ (\A j \in Jobs : PlacedOK(j)')
           /\ (ScansOK => ScansOK') /\ Claims' = Claims
  <1>1. JobsTyped' /\ ActiveOK' /\ \A j \in Jobs : PlacedOK(j)'
    BY DEF IInv, JobsTyped, DirectoryOK, ActiveOK, Active, PlacedOK, Holds
  <1>3. Claims' = Claims
    BY DEF Claims, Published, Owed
  <1>4. /\ Scanning' = Scanning /\ Waiting' = Waiting
        /\ \A j, k \in Jobs : Sees(j, k)' <=> Sees(j, k)
    BY DEF Scanning, Waiting, Sees
  <1>5. ScansOK => ScansOK'
    <2> HAVE ScansOK
    <2>1. RoomFor({})'
      BY <1>3 DEF ScansOK, RoomFor, Ceiling
    <2>2. NestOK'
      BY DEF ScansOK, NestOK, Scanning, Waiting, Sees
    <2>3. RoomOK'
      BY <1>3 DEF ScansOK, RoomOK, Scanning, Watched, Waiting, Sees, RoomFor, Pairs, Ceiling
    <2>4. ASSUME NEW j \in Scanning'
          PROVE  ScanOK(j)'
      <3>1. ScanOK(j)
        BY <1>4 DEF ScansOK
      <3> QED
        BY <1>3, <3>1 DEF ScanOK, Sees, Accounted
    <2> QED
      BY <2>1, <2>2, <2>3, <2>4 DEF ScansOK
  <1>2. ASSUME NEW j \in Jobs
        PROVE  PhaseOK(j)' /\ FilesOK(j)' /\ PendingOK(j)'
    BY DEF IInv, JobsOK, PhaseOK, FilesOK, PendingOK, Intact
  <1> QED
    BY <1>1, <1>2, <1>3, <1>5 DEF JobsOK

\* The same for the receipts, when the clock does not go back.
LEMMA ReceiptsUntouched ==
    ASSUME IInv, UNCHANGED <<job, receipts>>, clock' \in Nat, clock' >= clock
    PROVE  ReceiptsOK'
  <1>0. clock \in Nat /\ \A j \in Jobs : job[j].time \in Nat
    BY StoreAssumption DEF IInv, TypeOK, JobsTyped, JobType
  <1>1. ReceiptsTyped'
    BY DEF IInv, ReceiptsOK, ReceiptsTyped
  <1>2. TimesOK'
    BY <1>0 DEF IInv, ReceiptsOK, TimesOK
  <1>3. ASSUME NEW k \in Jobs
        PROVE  ReceiptKept(k)'
    <2>1. CASE job[k].recorded
      BY <2>1, ReceiptStays DEF IInv, ReceiptsOK, ReceiptsTyped
    <2>2. CASE ~job[k].recorded
      BY <2>2 DEF ReceiptKept
    <2> QED
      BY <2>1, <2>2
  <1> QED
    BY <1>1, <1>2, <1>3 DEF ReceiptsOK

\* A crash loses what was not synced, and keeps what a recorded plan consists of.
LEMMA CrashStep ==
    ASSUME IInv, Crash
    PROVE  IInv'
  <1>0. /\ TypeOK /\ JobsTyped /\ process' = "down" /\ UNCHANGED <<receipts, clock, schema>>
        /\ workerFailed' = FALSE /\ synced' = files' /\ seen' = [j \in Jobs |-> {}]
    BY DEF IInv, Crash
  <1>1. /\ files' \in [Names -> Jobs \cup {None}]
        /\ \A n \in Names : files'[n] \in {files[n], synced[n]}
    <2> PICK lost \in SUBSET {n \in Names : files[n] # synced[n]} :
               files' = [n \in Names |-> IF n \in lost THEN synced[n] ELSE files[n]]
      BY DEF Crash
    <2> QED
      BY <1>0 DEF TypeOK
  <1>2. ASSUME NEW j \in Jobs
        PROVE  /\ job'[j] \in JobType
               /\ job'[j].pc \in {"new", "done"}
               /\ job'[j].pc = "new" => job'[j] = job[j]
               /\ job'[j].kind = job[j].kind /\ job'[j].ref = job[j].ref
               /\ job'[j].time = job[j].time /\ job'[j].recorded = job[j].recorded
               /\ job'[j].refused = job[j].refused
               /\ job'[j].end = "Completed" => job[j].end = "Completed"
    <2>1. job[j] \in JobType
      BY <1>0 DEF JobsTyped
    <2>2. job'[j] = IF job[j].pc \in {"new", "done"} THEN job[j]
                    ELSE [job[j] EXCEPT !.pc = "done", !.end = "lost",
                                        !.binding = None, !.plan = None, !.tries = 0]
      BY DEF Crash
    <2>3. CASE job[j].pc \in {"new", "done"}
      BY <2>1, <2>2, <2>3
    <2>4. CASE job[j].pc \notin {"new", "done"}
      <3> DEFINE r == [job[j] EXCEPT !.pc = "done", !.end = "lost",
                                     !.binding = None, !.plan = None, !.tries = 0]
      <3>1. r \in JobType
        BY <2>1 DEF JobType, Places
      <3>2. /\ r.pc = "done" /\ r.kind = job[j].kind /\ r.ref = job[j].ref
            /\ r.time = job[j].time /\ r.recorded = job[j].recorded
            /\ r.refused = job[j].refused /\ r.end = "lost"
        BY <2>1 DEF JobType
      <3>3. job'[j] = r
        BY <2>2, <2>4
      <3> HIDE DEF r
      <3> QED
        BY <3>1, <3>2, <3>3
    <2> QED
      BY <2>3, <2>4
  <1>3. JobsTyped'
    BY <1>2 DEF JobsTyped, Crash
  <1>4. TypeOK'
    <2>1. \A j \in Jobs : job'[j].end \in {None, "Completed", "Failed", "lost"}
      BY <1>2 DEF JobType
    <2>2. seen' \in [Jobs -> SUBSET (Names \X Jobs)]
      BY <1>0
    <2> QED
      BY <1>0, <1>1, <2>1, <2>2 DEF TypeOK
  <1>5. ProcessOK' /\ DirectoryOK'
    <2>1. ProcessOK' /\ BoundOK'
      BY <1>0, <1>2 DEF ProcessOK, BoundOK
    <2>2. Active' = {}
      BY <1>2 DEF Active
    <2>3. ActiveOK'
      BY <2>2, FS_EmptySet, StoreAssumption DEF ActiveOK
    <2>4. ASSUME NEW k \in Jobs
          PROVE  PlacedOK(k)'
      <3>1. PlacedOK(k) /\ job'[k].ref = job[k].ref /\ job'[k].pc \in {"new", "done"}
            /\ (job'[k].pc = "new" => job[k].pc = "new")
        BY <1>2 DEF IInv, DirectoryOK
      <3>2. \A part \in Parts : /\ Holds(<<part, k>>, k)' => Holds(<<part, k>>, k)
                                /\ \A ref \in Refs : Holds(<<part, ref>>, k)' =>
                                                        Holds(<<part, ref>>, k)
        BY <1>0, <1>1, NameFacts DEF Holds
      <3>3. \A part : "done" \notin Unlinked(part) /\ "done" \notin Unwritten(part)
                      /\ "new" \in Unlinked(part) /\ "new" \in Unwritten(part)
        BY DEF Unlinked, Unwritten, Early, Loading
      <3> QED
        BY <3>1, <3>2, <3>3 DEF PlacedOK
    <2> QED
      BY <2>1, <2>3, <2>4 DEF DirectoryOK
  <1>6. JobsOK'
    <2> SUFFICES ASSUME NEW j \in Jobs
                 PROVE  PhaseOK(j)' /\ FilesOK(j)' /\ PendingOK(j)'
      BY DEF JobsOK
    <2>1. PhaseOK(j) /\ FilesOK(j) /\ PendingOK(j)
      BY DEF IInv, JobsOK
    <2>2. PhaseOK(j)'
      <3>1. job'[j].end = "Completed" => job'[j].pc = "done" /\ job'[j].recorded
        BY <1>2, <2>1 DEF PhaseOK
      <3>2. (job'[j].kind = "plan" /\ job'[j].recorded) => job'[j].ref \in Refs
        BY <1>2, <2>1 DEF PhaseOK
      <3>3. job'[j].recorded => job'[j].pc = "done"
        BY <1>2, <2>1, StoreAssumption DEF PhaseOK, Removing
      <3>4. job'[j].pc = "new" => job'[j] = Rest
        BY <1>2, <2>1 DEF PhaseOK
      <3> QED
        BY <1>2, <3>1, <3>2, <3>3, <3>4 DEF PhaseOK, Writing, Loading, Removing, Recording
    <2>3. FilesOK(j)'
      <3>1. ASSUME job[j].kind = "plan", job[j].recorded, ~job[j].refused
            PROVE  Intact(files, job[j].ref, j)' /\ Intact(synced, job[j].ref, j)'
        <4>1. job[j].ref \in Refs /\ job'[j].ref = job[j].ref
          BY <1>2, <2>1, <3>1 DEF PhaseOK
        <4>2. Intact(files, job[j].ref, j) /\ Intact(synced, job[j].ref, j)
          BY <2>1, <3>1 DEF FilesOK
        <4> QED
          BY <1>0, <1>1, <4>1, <4>2, NameFacts DEF Intact
      <3> QED
        BY <1>2, <3>1 DEF FilesOK, Recording
    <2>4. PendingOK(j)'
      BY <1>0, <1>1, <2>1, NameFacts DEF PendingOK
    <2> QED
      BY <2>2, <2>3, <2>4
  <1>7. ReceiptsOK'
    <2>0. clock \in Nat
      BY <1>0, StoreAssumption DEF TypeOK
    <2>1. ReceiptsTyped'
      BY <1>0, <1>2 DEF IInv, ReceiptsOK, ReceiptsTyped
    <2>2. TimesOK'
      BY <1>0, <1>2 DEF IInv, ReceiptsOK, TimesOK
    <2>3. ASSUME NEW k \in Jobs
          PROVE  ReceiptKept(k)'
      <3>1. CASE job[k].recorded
        BY <1>0, <1>2, <2>0, <3>1, ReceiptStays DEF IInv, ReceiptsOK, ReceiptsTyped
      <3>2. CASE ~job[k].recorded
        BY <1>2, <3>2 DEF ReceiptKept
      <3> QED
        BY <3>1, <3>2
    <2> QED
      BY <2>1, <2>2, <2>3 DEF ReceiptsOK
  <1> QED
    BY <1>3, <1>4, <1>5, <1>6, <1>7 DEF IInv

\* Open: maintenance at the present time, and a directory within its bound.
LEMMA OpenStep ==
    ASSUME IInv, Open
    PROVE  IInv'
  <1>0. /\ TypeOK /\ process = "opening" /\ UNCHANGED <<files, synced, job, seen>>
        /\ UNCHANGED <<clock, schema, workerFailed>>
        /\ receipts' = RetainedReceipts(receipts, clock)
        /\ process' = IF WithinBound(Listing) THEN "up" ELSE "refused"
    BY DEF IInv, Open, Maintain
  <1>1. JobsTyped' /\ JobsOK' /\ ActiveOK' /\ \A j \in Jobs : PlacedOK(j)'
    BY <1>0, StoreUntouched
  <1>2. TypeOK' /\ ProcessOK'
    BY <1>0 DEF IInv, TypeOK, ProcessOK
  <1>3. DirectoryOK'
    <2>1. ASSUME WithinBound(Listing)
          PROVE  ScansOK
      <3>1. Scanning = {}
        BY <1>0 DEF Scanning, IInv, ProcessOK
      <3>2. IsFiniteSet(Listing)
        <4>1. IsFiniteSet(Names \X Jobs)
          BY NamesFinite, FS_Product, StoreAssumption
        <4> QED
          BY <4>1, ListingType, FS_Subset
      <3>3. /\ IsFiniteSet(Pairs(Listing)) /\ Cardinality(Pairs(Listing)) \in Nat
            /\ Cardinality(Pairs(Listing)) <= MaximumFiles
        <4>1. /\ Cardinality(Pairs(Listing)) <= Cardinality(Listing)
              /\ Cardinality(Pairs(Listing)) \in Nat /\ Cardinality(Listing) \in Nat
              /\ IsFiniteSet(Pairs(Listing))
          BY <3>2, FewerPairs
        <4> QED
          BY <2>1, <4>1, StoreAssumption DEF WithinBound
      <3>4. Cardinality(Claims) <= Cardinality(Pairs(Listing)) /\ Cardinality(Claims) \in Nat
        BY <3>3, ListedParts, FS_Subset, ClaimsFinite
      <3>5. Cardinality({}) = 0
        BY FS_EmptySet
      <3>6. RoomFor({})
        BY <3>3, <3>4, <3>5, StoreAssumption DEF RoomFor, Ceiling
      <3> QED
        BY <3>1, <3>6 DEF ScansOK, NestOK, RoomOK
    <2>2. WithinBound(Listing) => ScansOK'
      BY <1>0, <2>1, StoreUntouched
    <2>3. BoundOK'
      BY <1>0, <2>2 DEF BoundOK
    <2> QED
      BY <1>1, <2>3 DEF DirectoryOK
  <1>4. ReceiptsOK'
    <2>0. clock \in Nat /\ clock <= clock
      BY <1>0, StoreAssumption DEF TypeOK
    <2>1. receipts' \subseteq receipts
      BY <1>0 DEF RetainedReceipts, Fresh
    <2>2. ReceiptsTyped'
      BY <1>0, <2>1, FS_Subset DEF IInv, ReceiptsOK, ReceiptsTyped
    <2>3. TimesOK'
      BY <1>0 DEF IInv, ReceiptsOK, TimesOK
    <2>4. ASSUME NEW k \in Jobs
          PROVE  ReceiptKept(k)'
      <3>1. CASE job[k].recorded
        BY <1>0, <2>0, <3>1, MaintenanceKeeps
      <3>2. CASE ~job[k].recorded
        BY <1>0, <3>2 DEF ReceiptKept
      <3> QED
        BY <3>1, <3>2
    <2> QED
      BY <2>2, <2>3, <2>4 DEF ReceiptsOK
  <1> QED
    BY <1>1, <1>2, <1>3, <1>4 DEF IInv

\* Migrations, restarts and time touch neither the directory nor the receipts.
LEMMA OtherSteps ==
    ASSUME IInv, Migrate \/ Restart \/ Tick \/ UNCHANGED vars
    PROVE  IInv'
  <1>0. /\ TypeOK /\ UNCHANGED <<files, synced, job, seen, receipts, workerFailed>>
    BY DEF IInv, Migrate, Restart, Tick, vars
  <1>1. /\ JobsTyped' /\ JobsOK' /\ ActiveOK' /\ \A j \in Jobs : PlacedOK(j)'
        /\ ScansOK => ScansOK'
    BY <1>0, StoreUntouched
  <1>2. /\ clock' \in 0..MaxTime /\ clock \in 0..MaxTime /\ clock' >= clock
        /\ schema' \in 0..2
        /\ process' = process \/ (process = "down" /\ process' = "opening")
    BY <1>0, StoreAssumption DEF TypeOK, Migrate, Restart, Tick, vars
  <1>3. TypeOK' /\ ProcessOK' /\ DirectoryOK'
    BY <1>0, <1>1, <1>2 DEF IInv, TypeOK, ProcessOK, DirectoryOK, BoundOK
  <1>4. ReceiptsOK'
    <2>1. clock' \in Nat
      BY <1>2, StoreAssumption
    <2> QED
      BY <1>0, <1>2, <2>1, ReceiptsUntouched
  <1> QED
    BY <1>1, <1>3, <1>4 DEF IInv

\* The invariant holds of a store that has never been opened.
LEMMA InitHolds ==
    ASSUME Init
    PROVE  IInv
  <1>1. Rest \in JobType /\ Rest.recorded = FALSE /\ Rest.end = None /\ Rest.pc = "new"
        /\ Rest.time = 0 /\ Rest.kind = None
    BY DEF Rest, JobType, Places
  <1>2. job \in [Jobs -> JobType] /\ \A j \in Jobs : job[j] = Rest
    BY <1>1 DEF Init
  <1>3. TypeOK
    <2>1. /\ files \in [Names -> Jobs \cup {None}] /\ synced \in [Names -> Jobs \cup {None}]
          /\ process \in {"down", "opening", "up", "refused"} /\ workerFailed \in BOOLEAN
      BY DEF Init
    <2>2. schema \in 0..2 /\ clock \in 0..MaxTime
      BY StoreAssumption DEF Init
    <2>3. \A j \in Jobs : job[j].end \in {None, "Completed", "Failed", "lost"}
      BY <1>1, <1>2
    <2>4. seen \in [Jobs -> SUBSET (Names \X Jobs)]
      BY DEF Init
    <2> QED
      BY <2>1, <2>2, <2>3, <2>4 DEF TypeOK
  <1>4. JobsTyped /\ ProcessOK /\ DirectoryOK
    <2>1. JobsTyped /\ ProcessOK /\ BoundOK
      BY <1>1, <1>2 DEF Init, JobsTyped, ProcessOK, BoundOK
    <2>2. Active = {}
      BY <1>1, <1>2 DEF Active
    <2>3. ActiveOK
      BY <2>2, FS_EmptySet, StoreAssumption DEF ActiveOK
    <2>4. \A n \in Names : files[n] = None /\ synced[n] = None
      BY DEF Init
    <2>5. \A k \in Jobs : PlacedOK(k)
      BY <2>4, NameFacts DEF PlacedOK, Holds
    <2> QED
      BY <2>1, <2>3, <2>5 DEF DirectoryOK
  <1>5. JobsOK
    <2> SUFFICES ASSUME NEW j \in Jobs
                 PROVE  PhaseOK(j) /\ FilesOK(j) /\ PendingOK(j)
      BY DEF JobsOK
    <2>1. PhaseOK(j) /\ FilesOK(j)
      BY <1>1, <1>2, StoreAssumption
      DEF PhaseOK, FilesOK, Writing, Loading, Removing, Recording
    <2>2. PendingOK(j)
      BY NameFacts DEF PendingOK, Init
    <2> QED
      BY <2>1, <2>2
  <1>6. ReceiptsOK
    <2>1. ReceiptsTyped
      BY FS_EmptySet DEF ReceiptsTyped, Init
    <2> QED
      BY <1>1, <1>2, <2>1 DEF ReceiptsOK, TimesOK, ReceiptKept, Init
  <1> QED
    BY <1>3, <1>4, <1>5, <1>6 DEF IInv

-----------------------------------------------------------------------------
(* The theorems *)

\* The inductive invariant: every name a worker changes in the plan directory
\* (write_new, publish_new, remove) is free or its own, a scan that missed what
\* another worker published leaves room for all that wait with it, and a
\* receipt missing from the table has expired or given way to enough newer ones.
THEOREM Invariance == Spec => []IInv
  <1>1. Init => IInv
    BY InitHolds
  <1>2. IInv /\ [Next]_vars => IInv'
    <2> SUFFICES ASSUME IInv, [Next]_vars
                 PROVE  IInv'
      OBVIOUS
    <2>1. ASSUME NEW j \in Jobs, Step(j)
          PROVE  IInv'
      <3>1. Worker(j)
        BY <2>1, WorkerSteps
      <3> QED
        BY <2>1, <3>1, WorkerKeepsJobs, WorkerKeepsDirectory, WorkerKeepsReceipts DEF IInv
    <2> QED
      BY <2>1, OpenStep, CrashStep, OtherSteps DEF Next
  <1> QED
    BY <1>1, <1>2, PTL DEF Spec

\* The types of the store's state.
THEOREM TypeCorrect == Spec => []TypeOK
  <1>1. IInv => TypeOK
    BY DEF IInv
  <1> QED
    BY <1>1, Invariance, PTL

\* A plan whose terminal row was committed stays complete in the directory and
\* on disk, for any number of workers that write, clean up, remove and crash:
\* PlanStore::write links only free names, and its error paths and the removal
\* after a failed record touch only files of the job's own write.
THEOREM PlansDoLast == Spec => []PlansLast
  <1>1. IInv => PlansLast
    BY DEF IInv, JobsOK, FilesOK, PlansLast
  <1> QED
    BY <1>1, Invariance, PTL

\* The published files never exceed the directory's bound by more than the two
\* files of each other worker while the console runs, however the unlocked
\* scans of check_store_bound overlap with links and removals.  A scan counts
\* each entry that stays, so it misses only files of jobs that were busy when it
\* began; and a scan that began later and passed has itself left room for the
\* jobs that the earlier one saw waiting.
THEOREM PublishedIsBounded == Spec => []PublishedWithinBound
  <1>1. IInv => PublishedWithinBound
    <2> SUFFICES ASSUME IInv, process = "up"
                 PROVE  Cardinality(Entries \cap Final) <= Ceiling
      BY DEF PublishedWithinBound, Ceiling
    <2>1. Cardinality(Claims) <= Ceiling /\ Cardinality(Claims) \in Nat
      <3>1. RoomFor({}) /\ Cardinality({}) = 0
        BY FS_EmptySet DEF IInv, DirectoryOK, BoundOK, ScansOK
      <3> QED
        BY <3>1, ClaimsFinite DEF RoomFor
    <2> DEFINE f == [n \in Entries \cap Final |-> <<n[1], files[n]>>]
    <2>2. ASSUME NEW n \in Entries \cap Final
          PROVE  /\ files[n] \in Jobs /\ n = <<n[1], job[files[n]].ref>>
                 /\ <<n[1], files[n]>> \in Claims
      <3>1. PICK part \in Parts, ref \in Refs : n = <<part, ref>>
        BY DEF Final
      <3>2. files[n] \in Jobs
        BY DEF IInv, TypeOK, Entries
      <3>3. job[files[n]].ref = ref
        BY <3>1, <3>2 DEF IInv, DirectoryOK, PlacedOK, Holds
      <3> QED
        BY <3>1, <3>2, <3>3 DEF Claims, Published, Pending
    <2>3. f \in Injection(Entries \cap Final, Claims)
      <3>1. f \in [Entries \cap Final -> Claims]
        BY <2>2
      <3>2. ASSUME NEW m \in Entries \cap Final, NEW n \in Entries \cap Final, f[m] = f[n]
            PROVE  m = n
        <4>1. m[1] = n[1] /\ files[m] = files[n]
          BY <3>2
        <4> QED
          BY <2>2, <4>1
      <3> QED
        BY <3>1, <3>2 DEF Injection, IsInjective
    <2>4. /\ IsFiniteSet(Entries \cap Final)
          /\ Cardinality(Entries \cap Final) <= Cardinality(Claims)
      BY <2>3, ClaimsFinite, FS_Injection
    <2> QED
      BY <2>1, <2>4, ClaimsFinite, FS_CardinalityType
  <1> QED
    BY <1>1, Invariance, PTL

\* The receipt of a completed dry run is stored until it expires or as many
\* receipts that completed no earlier are stored as the table retains, although
\* workers commit and maintain in orders that differ from their timestamps.
THEOREM ReceiptsDoLast == Spec => []ReceiptsAreNewest
  <1>1. IInv => ReceiptsAreNewest
    <2> SUFFICES ASSUME IInv, NEW j \in Jobs, job[j].kind = "dry_run",
                        job[j].end = "Completed", {x \in receipts : x.job = j} = {}
                 PROVE  \/ clock > job[j].time + Retention
                        \/ Cardinality({x \in receipts : x.time >= job[j].time})
                              >= RetainedRows
      BY DEF ReceiptsAreNewest
    <2>1. job[j].recorded /\ ReceiptKept(j)
      BY DEF IInv, JobsOK, PhaseOK, ReceiptsOK
    <2> QED
      BY <2>1 DEF ReceiptKept, Later
  <1> QED
    BY <1>1, Invariance, PTL

=============================================================================
