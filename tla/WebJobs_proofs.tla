--------------------------- MODULE WebJobs_proofs ---------------------------
(***************************************************************************)
(* Proofs about WebJobs, for any number of jobs and plans, all limits that *)
(* WebLimits::validate accepts and any number of faults and panics.  The   *)
(* invariant ties three things together that different critical sections   *)
(* write: the public status of a job, the place of its worker thread, and  *)
(* what the worker has recorded so far.                                    *)
(***************************************************************************)
EXTENDS WebJobs, FiniteSetTheorems, TLAPS

-----------------------------------------------------------------------------
(* The inductive invariant *)

\* Where the thread of a running job is; a panicked one keeps its slot.
Busy == {"started", "executing", "recording", "finishing", "panicked"}

\* Status and thread of a job agree, and tell whether it may be cancelled.
PlaceOK(j) ==
    /\ thread[j] = "none" => /\ status[j] = "unknown"
                             /\ j \notin cancelRequested /\ j \notin cancelling
    /\ status[j] = "Queued" => thread[j] \in {"begin", "waiting"}
                               /\ j \notin cancelRequested
    /\ status[j] = "Running" <=> thread[j] \in Busy
    /\ j \in cancelling => status[j] \in {"Cancelled", "unknown"} /\ outcome[j] = None
    /\ Unfinished(j) => ((kind[j] = "apply") <=> (target[j] # None))

\* The outcome, the row and the plan of a job at every place of its thread.
RecordOK(j) ==
    /\ thread[j] \in {"none", "begin", "waiting", "started", "executing"} =>
          outcome[j] = None /\ j \notin unrecorded
    /\ thread[j] \in {"recording", "finishing"} => outcome[j] \in Terminal
    /\ thread[j] = "recording" => j \notin unrecorded
    /\ thread[j] = "finishing" =>
          IF j \in unrecorded THEN outcome[j] = "Failed" ELSE history[j] = outcome[j]
    /\ (thread[j] \in {"recording", "finishing"} /\ kind[j] = "plan"
           /\ outcome[j] = "Completed") => j \in artifacts
    /\ j \in artifacts => outcome[j] \in {"Completed", "Failed"} /\ kind[j] = "plan"
    /\ (thread[j] = "exited" /\ outcome[j] # None) =>
          /\ status[j] \in {outcome[j], "unknown"}
          /\ IF j \in unrecorded THEN outcome[j] = "Failed" ELSE history[j] = outcome[j]

JobsOK == \A j \in Jobs : PlaceOK(j) /\ RecordOK(j)

\* The queue of identifiers and the map of jobs hold the same jobs.
OrderAgrees == order = {j \in Jobs : status[j] # "unknown"}

\* shutdown() takes the handles and drops the queue in one critical section.
ShutdownOK ==
    /\ shuttingDown <=> joining # None
    /\ shuttingDown => \A j \in Jobs : status[j] # "Queued"

\* What an operator sees as completed has its plan.
PlansShown == \A j \in Jobs : (status[j] = "Completed" /\ kind[j] = "plan") => j \in artifacts

\* Plans of failed jobs, from the step that makes them stray.
Strays == {j \in artifacts : outcome[j] = "Failed"}

\* Every failed history write and every stray plan has cost a fault of its own.
FaultsOK == Cardinality(Strays) + Cardinality(unrecorded) + faults <= MaxFaults

IInv ==
    /\ TypeOK
    /\ JobsOK
    /\ OrderAgrees
    /\ ShutdownOK
    /\ AccountingExact
    /\ ApplyJobsExclusive
    /\ HistoryAgrees
    /\ PlansShown
    /\ FaultsOK

-----------------------------------------------------------------------------
(* Counting *)

RunningSet == {j \in Jobs : status[j] = "Running"}
QueuedSet == {j \in Jobs : status[j] = "Queued"}
LiveSet == {j \in Jobs : Live(j)}

\* Who owns the thread of a live worker: the manager, or shutdown().
Owned(j) == j \in handles \/ (joining # None /\ j \in joining)

\* Every set of jobs is finite, and its size is a number.
LEMMA JobSets ==
  ASSUME NEW S \in SUBSET Jobs
  PROVE  IsFiniteSet(S) /\ Cardinality(S) \in Nat
  <1>1. IsFiniteSet(Jobs)
    BY BoundsAssumption, FS_Interval DEF Jobs
  <1>. QED
    BY <1>1, FS_Subset, FS_CardinalityType

\* The accounting in terms of these sets.
LEMMA AccountingDef ==
  AccountingExact <=>
    /\ running = Cardinality(RunningSet)
    /\ queued = Cardinality(QueuedSet)
    /\ running <= ConcurrentJobs
    /\ Cardinality(LiveSet) <= WorkerLimit
    /\ Cardinality(order) <= RetainedJobs
    /\ \A j \in Jobs : Live(j) => Owned(j)
  BY DEF AccountingExact, CountersExact, LimitsHold, RunningSet, QueuedSet, LiveSet,
         Owned

\* The same in the next state.
LEMMA AccountingDefNext ==
  AccountingExact' <=>
    /\ running' = Cardinality(RunningSet')
    /\ queued' = Cardinality(QueuedSet')
    /\ running' <= ConcurrentJobs
    /\ Cardinality(LiveSet') <= WorkerLimit
    /\ Cardinality(order') <= RetainedJobs
    /\ \A j \in Jobs : Live(j)' => Owned(j)'
  BY DEF AccountingExact, CountersExact, LimitsHold, RunningSet, QueuedSet, LiveSet,
         Owned

\* Fewer live threads and fewer retained jobs keep within the limits.
LEMMA FewerOK ==
  ASSUME IInv, LiveSet' \subseteq LiveSet, order' \subseteq order
  PROVE  Cardinality(LiveSet') <= WorkerLimit /\ Cardinality(order') <= RetainedJobs
  <1>1. LiveSet \in SUBSET Jobs /\ order \in SUBSET Jobs
    BY DEF LiveSet, IInv, TypeOK
  <1>2. IsFiniteSet(LiveSet) /\ IsFiniteSet(order)
    BY <1>1, JobSets
  <1>3. Cardinality(LiveSet') <= Cardinality(LiveSet) /\ Cardinality(order') <= Cardinality(order)
    BY <1>2, FS_Subset
  <1>4. /\ Cardinality(LiveSet') \in Nat /\ Cardinality(order') \in Nat
        /\ Cardinality(LiveSet) \in Nat /\ Cardinality(order) \in Nat
    BY <1>1, JobSets
  <1>5. Cardinality(LiveSet) <= WorkerLimit /\ Cardinality(order) <= RetainedJobs
    BY AccountingDef DEF IInv
  <1>6. WorkerLimit \in Nat /\ RetainedJobs \in Nat
    BY LimitsAssumption DEF WorkerLimit
  <1>. QED
    BY <1>3, <1>4, <1>5, <1>6

\* A step that leaves the status of every job and the counters alone, starts
\* no thread and keeps the threads owned.
LEMMA AccountingFrame ==
  ASSUME IInv,
         UNCHANGED <<status, order, running, queued>>,
         \A i \in Jobs : Live(i)' => Live(i) /\ Owned(i)'
  PROVE  OrderAgrees' /\ AccountingExact'
  <1>1. OrderAgrees'
    BY DEF IInv, OrderAgrees
  <1>2. LiveSet' \subseteq LiveSet /\ RunningSet' = RunningSet /\ QueuedSet' = QueuedSet
    BY DEF LiveSet, RunningSet, QueuedSet
  <1>3. Cardinality(LiveSet') <= WorkerLimit /\ Cardinality(order') <= RetainedJobs
    BY <1>2, FewerOK
  <1>. QED
    BY <1>1, <1>2, <1>3, AccountingDef, AccountingDefNext DEF IInv

\* The same for what the apply jobs hold.
LEMMA ApplyFrame ==
  ASSUME IInv,
         UNCHANGED <<status, shuttingDown, capabilities, active, kind, target>>,
         \A i \in Jobs : thread'[i] = "started" => thread[i] = "started"
  PROVE  ApplyJobsExclusive'
  BY DEF IInv, ApplyJobsExclusive, OneApplyPerPlan, CheckpointsExact, CapabilityHeld,
         Unfinished

\* The same for the faults spent.
LEMMA FaultsFrame ==
  ASSUME IInv, UNCHANGED <<artifacts, outcome, unrecorded>>,
         faults' \in Nat, faults' <= faults
  PROVE  FaultsOK'
  <1>1. Strays' = Strays /\ Strays \in SUBSET Jobs /\ unrecorded \in SUBSET Jobs
    BY DEF Strays, IInv, TypeOK
  <1>2. Cardinality(Strays) \in Nat /\ Cardinality(unrecorded) \in Nat
    BY <1>1, JobSets
  <1>3. /\ Cardinality(Strays) + Cardinality(unrecorded) + faults <= MaxFaults
        /\ faults \in Nat /\ MaxFaults \in Nat
    BY BoundsAssumption DEF IInv, TypeOK, FaultsOK
  <1>4. Cardinality(Strays) + Cardinality(unrecorded) + faults' <= MaxFaults
    BY <1>2, <1>3
  <1>. QED
    BY <1>1, <1>4 DEF FaultsOK

-----------------------------------------------------------------------------
(* Steps that leave the status of every job alone *)

\* A turn of begin's loop that ends the thread or puts it to sleep.
LEMMA BeginTurnStep ==
  ASSUME IInv, NEW j \in Jobs, BeginGivesUp(j) \/ BeginWaits(j)
  PROVE  IInv'
  <1>1. /\ thread[j] = "begin" /\ UNCHANGED <<locked, kind, target, outcome, unrecorded, stores>>
        /\ UNCHANGED <<faults, panics>>
        /\ \/ thread' = [thread EXCEPT ![j] = "exited"] /\ (status[j] # "Queued" \/ shuttingDown)
           \/ thread' = [thread EXCEPT ![j] = "waiting"]
    BY DEF BeginGivesUp, BeginWaits
  <1>. USE DEF locked, stores
  <1>2. TypeOK'
    BY <1>1 DEF IInv, TypeOK, ThreadStates
  <1>3. JobsOK' /\ ShutdownOK'
    BY <1>1 DEF IInv, TypeOK, JobsOK, PlaceOK, RecordOK, Busy, Unfinished, ShutdownOK
  <1>4. OrderAgrees' /\ AccountingExact'
    <2>1. \A i \in Jobs : Live(i)' => Live(i) /\ Owned(i)'
      BY <1>1, AccountingDef DEF IInv, TypeOK, Live, Owned
    <2>. QED
      BY <1>1, <2>1, AccountingFrame
  <1>5. ApplyJobsExclusive'
    BY <1>1, ApplyFrame DEF IInv, TypeOK
  <1>6. HistoryAgrees'
    BY <1>1 DEF IInv, HistoryAgrees
  <1>7. PlansShown' /\ FaultsOK'
    BY <1>1, FaultsFrame DEF IInv, TypeOK, PlansShown
  <1>. QED
    BY <1>2, <1>3, <1>4, <1>5, <1>6, <1>7 DEF IInv

\* One more stray plan or one more failed write than before costs a fault.
LEMMA FaultsStep ==
  ASSUME IInv, NEW j \in Jobs, NEW n \in {0, 1}, NEW m \in {0, 1},
         Strays' \subseteq IF n = 1 THEN Strays \cup {j} ELSE Strays,
         unrecorded' \subseteq IF m = 1 THEN unrecorded \cup {j} ELSE unrecorded,
         faults' \in Nat, faults' + n + m <= faults
  PROVE  FaultsOK'
  <1>1. Strays \in SUBSET Jobs /\ unrecorded \in SUBSET Jobs
    BY DEF Strays, IInv, TypeOK
  <1>2. \A S, T \in SUBSET Jobs : T \subseteq S => Cardinality(T) <= Cardinality(S)
    BY JobSets, FS_Subset
  <1>3. \A S \in SUBSET Jobs : Cardinality(S \cup {j}) <= Cardinality(S) + 1
    <2>. SUFFICES ASSUME NEW S \in SUBSET Jobs PROVE Cardinality(S \cup {j}) <= Cardinality(S) + 1
      OBVIOUS
    <2>1. CASE j \in S
      <3>1. S \cup {j} = S /\ Cardinality(S) \in Nat
        BY <2>1, JobSets
      <3>. DEFINE c == Cardinality(S)
      <3>2. Cardinality(S \cup {j}) = c /\ c \in Nat
        BY <3>1
      <3>. HIDE DEF c
      <3>3. Cardinality(S \cup {j}) <= c + 1
        BY <3>2
      <3>. QED
        BY <3>3 DEF c
    <2>2. CASE j \notin S
      <3>1. Cardinality(S \cup {j}) = Cardinality(S) + 1
        BY <2>2, JobSets, FS_AddElement
      <3>. QED
        BY <3>1, JobSets
    <2>. QED
      BY <2>1, <2>2
  <1>4. Strays \cup {j} \in SUBSET Jobs /\ unrecorded \cup {j} \in SUBSET Jobs
    BY <1>1
  <1>5. Strays' \in SUBSET Jobs /\ unrecorded' \in SUBSET Jobs
    BY <1>1
  <1>6. Cardinality(Strays') <= Cardinality(Strays) + n
    <2>1. CASE n = 1
      <3>1. Cardinality(Strays') <= Cardinality(Strays \cup {j})
        BY <2>1, <1>2, <1>4, <1>5
      <3>2. Cardinality(Strays \cup {j}) <= Cardinality(Strays) + 1
        BY <1>1, <1>3
      <3>3. Cardinality(Strays \cup {j}) \in Nat /\ Cardinality(Strays') \in Nat
            /\ Cardinality(Strays) \in Nat
        BY <1>1, <1>4, <1>5, JobSets
      <3>. QED
        BY <2>1, <3>1, <3>2, <3>3
    <2>2. CASE n = 0
      <3>1. Cardinality(Strays') <= Cardinality(Strays) /\ Cardinality(Strays) \in Nat
        BY <2>2, <1>1, <1>2, <1>5, JobSets
      <3>. QED
        BY <2>2, <3>1
    <2>. QED
      BY <2>1, <2>2
  <1>7. Cardinality(unrecorded') <= Cardinality(unrecorded) + m
    <2>1. CASE m = 1
      <3>1. Cardinality(unrecorded') <= Cardinality(unrecorded \cup {j})
        BY <2>1, <1>2, <1>4, <1>5
      <3>2. Cardinality(unrecorded \cup {j}) <= Cardinality(unrecorded) + 1
        BY <1>1, <1>3
      <3>3. Cardinality(unrecorded \cup {j}) \in Nat /\ Cardinality(unrecorded') \in Nat
            /\ Cardinality(unrecorded) \in Nat
        BY <1>1, <1>4, <1>5, JobSets
      <3>. QED
        BY <2>1, <3>1, <3>2, <3>3
    <2>2. CASE m = 0
      <3>1. Cardinality(unrecorded') <= Cardinality(unrecorded) /\ Cardinality(unrecorded) \in Nat
        BY <2>2, <1>1, <1>2, <1>5, JobSets
      <3>. QED
        BY <2>2, <3>1
    <2>. QED
      BY <2>1, <2>2
  <1>8. /\ Cardinality(Strays) \in Nat /\ Cardinality(unrecorded) \in Nat
        /\ Cardinality(Strays') \in Nat /\ Cardinality(unrecorded') \in Nat
        /\ faults \in Nat /\ MaxFaults \in Nat
        /\ Cardinality(Strays) + Cardinality(unrecorded) + faults <= MaxFaults
    BY <1>1, <1>5, JobSets, BoundsAssumption DEF IInv, TypeOK, FaultsOK
  <1>9. \A a, b, c, d, p, q, x \in Nat :
          (a <= b + n /\ c <= d + m /\ p + n + m <= q /\ b + d + q <= x) => a + c + p <= x
    <2>1. n \in Nat /\ m \in Nat
      OBVIOUS
    <2>. QED
      BY <2>1
  <1>10. Cardinality(Strays') + Cardinality(unrecorded') + faults' <= MaxFaults
    BY <1>6, <1>7, <1>8, <1>9
  <1>. QED
    BY <1>10 DEF FaultsOK

\* A worker that leaves a stray plan, or fails to write its row, spends a fault
\* on each.
LEMMA FaultsSpent ==
  ASSUME IInv, NEW j \in Jobs,
         \/ \E result \in Terminal : Execute(j, result)
         \/ Panic(j)
         \/ RecordTerminal(j)
         \/ \E committed, removed \in BOOLEAN : RecordFails(j, committed, removed)
  PROVE  FaultsOK'
  <1>1. /\ faults \in Nat /\ artifacts \subseteq Jobs
        /\ outcome \in [Jobs -> Terminal \cup {None}]
    BY DEF IInv, TypeOK
  <1>2. ASSUME NEW result \in Terminal, Execute(j, result) PROVE FaultsOK'
    <2>1. outcome[j] = None /\ j \notin artifacts
      BY <1>2, BoundsAssumption DEF Execute, IInv, JobsOK, RecordOK
    <2>2. outcome' = [outcome EXCEPT ![j] = result] /\ unrecorded' = unrecorded
      BY <1>2 DEF Execute
    <2>3. CASE result = "Failed" /\ Fault /\ artifacts' = artifacts \cup {j}
      <3>1. Strays' \subseteq Strays \cup {j}
        BY <1>1, <2>2, <2>3 DEF Strays
      <3>2. faults' \in Nat /\ faults' + 1 + 0 <= faults
        BY <1>1, <2>3 DEF Fault, Faults
      <3>. QED
        BY <2>2, <3>1, <3>2, FaultsStep
    <2>4. CASE ~(result = "Failed" /\ Fault /\ artifacts' = artifacts \cup {j})
      <3>1. /\ artifacts' = IF kind[j] = "plan" /\ result = "Completed"
                            THEN artifacts \cup {j} ELSE artifacts
            /\ faults' = faults
        BY <1>2, <2>4 DEF Execute
      <3>2. Strays' \subseteq Strays
        BY <1>1, <2>1, <2>2, <3>1 DEF Strays
      <3>3. faults' \in Nat /\ faults' + 0 + 0 <= faults
        BY <1>1, <3>1
      <3>. QED
        BY <2>2, <3>2, <3>3, FaultsStep
    <2>. QED
      BY <2>3, <2>4
  <1>3. ASSUME Panic(j) \/ RecordTerminal(j) PROVE FaultsOK'
    <2>1. UNCHANGED <<artifacts, outcome, unrecorded, faults>>
      BY <1>3 DEF Panic, RecordTerminal, stores
    <2>. QED
      BY <1>1, <2>1, FaultsFrame
  <1>4. ASSUME NEW committed \in BOOLEAN, NEW removed \in BOOLEAN, RecordFails(j, committed, removed)
        PROVE  FaultsOK'
    <2>1. /\ outcome' = [outcome EXCEPT ![j] = "Failed"]
          /\ unrecorded' = unrecorded \cup {j}
          /\ artifacts' = IF Published(j) /\ removed THEN artifacts \ {j} ELSE artifacts
          /\ ~removed => Published(j)
          /\ Faults(IF removed THEN 1 ELSE 2)
      BY <1>4 DEF RecordFails
    <2>2. j \in artifacts => outcome[j] \in {"Completed", "Failed"} /\ kind[j] = "plan"
      BY DEF IInv, JobsOK, RecordOK
    <2>3. CASE removed
      <3>1. Strays' \subseteq Strays
        BY <1>1, <2>1, <2>2, <2>3 DEF Strays, Published
      <3>2. faults' \in Nat /\ faults' + 0 + 1 <= faults
        BY <1>1, <2>1, <2>3 DEF Faults
      <3>. QED
        BY <2>1, <3>1, <3>2, FaultsStep
    <2>4. CASE ~removed
      <3>1. Strays' \subseteq Strays \cup {j}
        BY <1>1, <2>1, <2>4 DEF Strays
      <3>2. faults' \in Nat /\ faults' + 1 + 1 <= faults
        BY <1>1, <2>1, <2>4 DEF Faults
      <3>. QED
        BY <2>1, <3>1, <3>2, FaultsStep
    <2>. QED
      BY <2>3, <2>4
  <1>. QED
    BY <1>2, <1>3, <1>4

\* The worker runs its job, panics, or writes its row.
LEMMA WorkerStepOK ==
  ASSUME IInv, NEW j \in Jobs,
         \/ \E result \in Terminal : Execute(j, result)
         \/ Panic(j)
         \/ RecordTerminal(j)
         \/ \E committed, removed \in BOOLEAN : RecordFails(j, committed, removed)
  PROVE  IInv'
  <1>1. /\ thread[j] \in {"executing", "recording"}
        /\ UNCHANGED <<locked, kind, target, cancelling, joining>>
        /\ \/ thread' = [thread EXCEPT ![j] = "recording"]
           \/ thread' = [thread EXCEPT ![j] = "panicked"]
           \/ thread' = [thread EXCEPT ![j] = "finishing"]
    BY DEF Execute, Panic, RecordTerminal, RecordFails, stores
  <1>. USE DEF locked, stores
  <1>2. thread[j] = "recording" => outcome[j] \in Terminal
    BY DEF IInv, JobsOK, RecordOK
  <1>3. TypeOK'
    <2>1. /\ outcome' \in [Jobs -> Terminal \cup {None}]
          /\ history' \in [Jobs -> Terminal \cup {None}]
          /\ artifacts' \subseteq Jobs /\ unrecorded' \subseteq Jobs
      BY <1>2 DEF IInv, TypeOK, Execute, Panic, RecordTerminal, RecordFails, Terminal
    <2>2. faults' \in Nat /\ panics' \in Nat
      BY DEF IInv, TypeOK, Execute, Panic, RecordTerminal, RecordFails, Fault, Faults
    <2>3. thread' \in [Jobs -> ThreadStates]
      BY <1>1 DEF IInv, TypeOK, ThreadStates
    <2>. QED
      BY <1>1, <2>1, <2>2, <2>3 DEF IInv, TypeOK
  <1>4. status[j] = "Running" /\ ShutdownOK'
    BY <1>1 DEF IInv, JobsOK, PlaceOK, Busy, ShutdownOK
  <1>5. \A i \in Jobs : PlaceOK(i)'
    <2>1. ASSUME NEW i \in Jobs PROVE i \in cancelling => outcome'[i] = outcome[i]
      BY <1>4 DEF IInv, TypeOK, JobsOK, PlaceOK, Execute, Panic, RecordTerminal, RecordFails
    <2>. QED
      BY <1>1, <1>4, <2>1 DEF IInv, TypeOK, JobsOK, PlaceOK, Busy, Unfinished
  <1>6. \A i \in Jobs : RecordOK(i)'
    <2>1. CASE \E result \in Terminal : Execute(j, result)
      BY <2>1, BoundsAssumption DEF Execute, IInv, TypeOK, JobsOK, RecordOK, Terminal
    <2>2. CASE Panic(j)
      BY <2>2, BoundsAssumption DEF Panic, IInv, TypeOK, JobsOK, RecordOK, Terminal
    <2>3. CASE RecordTerminal(j)
      BY <2>3, BoundsAssumption DEF RecordTerminal, IInv, TypeOK, JobsOK, RecordOK, Terminal
    <2>4. CASE \E committed, removed \in BOOLEAN : RecordFails(j, committed, removed)
      BY <2>4, BoundsAssumption DEF RecordFails, IInv, TypeOK, JobsOK, RecordOK, Terminal
    <2>. QED
      BY <2>1, <2>2, <2>3, <2>4
  <1>7. OrderAgrees' /\ AccountingExact'
    <2>1. \A i \in Jobs : Live(i)' => Live(i) /\ Owned(i)'
      BY <1>1, AccountingDef DEF IInv, TypeOK, Live, Owned
    <2>. QED
      BY <1>1, <2>1, AccountingFrame
  <1>8. ApplyJobsExclusive'
    BY <1>1, ApplyFrame DEF IInv, TypeOK
  <1>9. \A i \in Jobs : i # j => /\ history'[i] = history[i] /\ outcome'[i] = outcome[i]
                                 /\ (i \in artifacts' <=> i \in artifacts)
                                 /\ thread'[i] = thread[i]
    BY <1>1 DEF IInv, TypeOK, Execute, Panic, RecordTerminal, RecordFails
  <1>10. HistoryAgrees'
    BY <1>1, <1>4, <1>9 DEF IInv, HistoryAgrees, Terminal
  <1>11. PlansShown' /\ FaultsOK'
    <2>1. PlansShown'
      BY <1>1, <1>4, <1>9 DEF IInv, PlansShown
    <2>2. FaultsOK'
      BY FaultsSpent
    <2>. QED
      BY <2>1, <2>2
  <1>. QED
    BY <1>3, <1>4, <1>5, <1>6, <1>7, <1>8, <1>10, <1>11 DEF IInv, JobsOK

\* The manager joins threads that have ended, in snapshot() or shutdown().
LEMMA JoinStep ==
  ASSUME IInv, Snapshot \/ \E j \in Jobs : Join(j)
  PROVE  IInv'
  <1>1. /\ UNCHANGED <<status, order, running, queued, shuttingDown, cancelRequested,
                       capabilities, active, worker, history, artifacts, cancelling>>
        /\ UNCHANGED <<faults, panics>>
        /\ workerFailed => workerFailed'
    <2>1. CASE Snapshot
      BY <2>1 DEF Snapshot, stores, FailedAfterReap
    <2>2. CASE \E j \in Jobs : Join(j)
      BY <2>2 DEF Join, locked
    <2>. QED
      BY <2>1, <2>2
  <1>. USE DEF worker
  <1>2. /\ handles' \subseteq Jobs /\ workerFailed' \in BOOLEAN
        /\ joining' \in (SUBSET Jobs) \cup {None} /\ (joining' = None <=> joining = None)
    <2>1. CASE Snapshot
      BY <2>1 DEF Snapshot, Reaped, FailedAfterReap, IInv, TypeOK, stores
    <2>2. CASE \E j \in Jobs : Join(j)
      <3>1. PICK j \in Jobs : Join(j)
        BY <2>2
      <3>2. joining \in SUBSET Jobs /\ joining' = joining \ {j}
        <4>1. joining \in (SUBSET Jobs) \cup {None}
          BY DEF IInv, TypeOK
        <4>. QED
          BY <3>1, <4>1 DEF Join
      <3>3. joining' \in SUBSET Jobs
        BY <3>2
      <3>4. joining' # None /\ joining # None
        BY <3>2, <3>3, BoundsAssumption DEF Jobs
      <3>. QED
        BY <3>1, <3>3, <3>4 DEF Join, locked, IInv, TypeOK
    <2>. QED
      BY <2>1, <2>2
  <1>3. TypeOK'
    BY <1>1, <1>2 DEF IInv, TypeOK
  <1>4. JobsOK' /\ ShutdownOK'
    BY <1>1, <1>2 DEF IInv, JobsOK, PlaceOK, RecordOK, Unfinished, ShutdownOK
  <1>5. OrderAgrees' /\ AccountingExact'
    <2>1. \A i \in Jobs : Live(i)' => Live(i)
      BY <1>1 DEF Live
    <2>2. \A i \in Jobs : Live(i) => Owned(i) /\ ~Ended(i)
      BY AccountingDef DEF IInv, Live, Ended
    <2>3. \A i \in Jobs : Live(i) => Owned(i)'
      BY <1>2, <2>2 DEF Snapshot, Join, locked, stores, Owned, Reaped
    <2>. QED
      BY <1>1, <2>1, <2>3, AccountingFrame
  <1>6. ApplyJobsExclusive'
    BY <1>1, ApplyFrame
  <1>7. HistoryAgrees' /\ PlansShown' /\ FaultsOK'
    BY <1>1, FaultsFrame DEF IInv, TypeOK, HistoryAgrees, PlansShown
  <1>. QED
    BY <1>3, <1>4, <1>5, <1>6, <1>7 DEF IInv

\* cancel() of a running job, and the row of a job that was cancelled queued.
LEMMA CancelRunningStep ==
  ASSUME IInv, NEW j \in Jobs, CancelRunning(j) \/ RecordCancelled(j)
  PROVE  IInv'
  <1>1. /\ UNCHANGED <<status, order, handles, running, queued, shuttingDown, capabilities,
                       active, kind, target, outcome, unrecorded, artifacts, joining, panics>>
        /\ thread' = thread \/ thread' = Notified(thread)
        /\ workerFailed => workerFailed'
    BY DEF CancelRunning, RecordCancelled, stores, worker
  <1>2. TypeOK'
    <2>1. thread' \in [Jobs -> ThreadStates]
      BY <1>1 DEF IInv, TypeOK, Notified, ThreadStates
    <2>2. /\ cancelRequested' \subseteq Jobs /\ cancelling' \subseteq Jobs
          /\ history' \in [Jobs -> Terminal \cup {None}] /\ workerFailed' \in BOOLEAN
          /\ faults' \in Nat
      <3>1. CASE CancelRunning(j)
        BY <3>1 DEF IInv, TypeOK, CancelRunning, stores
      <3>2. CASE RecordCancelled(j)
        <4>1. history' \in [Jobs -> Terminal \cup {None}]
          BY <3>2 DEF IInv, TypeOK, RecordCancelled, Terminal
        <4>2. faults' \in Nat
          BY <3>2 DEF IInv, TypeOK, RecordCancelled, Fault, Faults
        <4>3. workerFailed' \in BOOLEAN
          BY <3>2 DEF IInv, TypeOK, RecordCancelled
        <4>. QED
          BY <3>2, <4>1, <4>2, <4>3 DEF IInv, TypeOK, RecordCancelled
      <3>. QED
        BY <3>1, <3>2
    <2>. QED
      BY <1>1, <2>1, <2>2 DEF IInv, TypeOK
  <1>3. \A i \in Jobs : /\ thread'[i] = thread[i] \/ (thread[i] = "waiting" /\ thread'[i] = "begin")
                        /\ i \in cancelling' => i \in cancelling
                        /\ i \in cancelRequested' => i \in cancelRequested \/ status[i] = "Running"
    BY <1>1 DEF IInv, TypeOK, Notified, CancelRunning, RecordCancelled, stores
  <1>4. \A i \in Jobs : PlaceOK(i)'
    BY <1>1, <1>3 DEF IInv, JobsOK, PlaceOK, Busy, Unfinished
  <1>5. \A i \in Jobs : history'[i] = history[i] \/ (i \in cancelling /\ history'[i] = "Cancelled")
    BY DEF IInv, TypeOK, CancelRunning, RecordCancelled, stores
  <1>6. \A i \in Jobs : i \in cancelling =>
            outcome[i] = None /\ thread[i] \notin Busy /\ i \notin artifacts
                /\ status[i] \in {"Cancelled", "unknown"}
    BY BoundsAssumption DEF IInv, JobsOK, PlaceOK, RecordOK, Terminal
  <1>7. \A i \in Jobs : RecordOK(i)'
    BY <1>1, <1>3, <1>5, <1>6 DEF IInv, JobsOK, RecordOK, Busy
  <1>8. OrderAgrees' /\ AccountingExact'
    <2>1. \A i \in Jobs : Live(i)' => Live(i) /\ Owned(i)'
      BY <1>1, <1>3, AccountingDef DEF IInv, Live, Owned
    <2>. QED
      BY <1>1, <2>1, AccountingFrame
  <1>9. ApplyJobsExclusive' /\ ShutdownOK'
    <2>1. \A i \in Jobs : thread'[i] = "started" => thread[i] = "started"
      BY <1>3
    <2>. QED
      BY <1>1, <2>1, ApplyFrame DEF IInv, ShutdownOK
  <1>10. HistoryAgrees'
    <2>1. \A i \in Jobs : i \in cancelling /\ i \notin cancelling' /\ ~workerFailed' =>
              history'[i] = "Cancelled"
      BY DEF IInv, TypeOK, CancelRunning, RecordCancelled, stores
    <2>. QED
      BY <1>1, <1>5, <1>6, <2>1 DEF IInv, HistoryAgrees, Terminal
  <1>11. PlansShown' /\ FaultsOK'
    <2>1. PlansShown'
      BY <1>1 DEF IInv, PlansShown
    <2>2. faults' \in Nat /\ faults' <= faults
      BY DEF IInv, TypeOK, CancelRunning, RecordCancelled, Fault, Faults
    <2>. QED
      BY <1>1, <2>1, <2>2, FaultsFrame
  <1>. QED
    BY <1>2, <1>4, <1>7, <1>8, <1>9, <1>10, <1>11 DEF IInv, JobsOK

\* The worker takes the apply capability of its job.
LEMMA JobInputsStep ==
  ASSUME IInv, NEW j \in Jobs, JobInputs(j)
  PROVE  IInv'
  <1>. USE DEF JobInputs, stores
  <1>1. TypeOK'
    BY DEF IInv, TypeOK, ThreadStates
  <1>2. JobsOK' /\ ShutdownOK' /\ status[j] = "Running"
    BY DEF IInv, TypeOK, JobsOK, PlaceOK, RecordOK, Busy, Unfinished, ShutdownOK
  <1>3. OrderAgrees' /\ AccountingExact'
    <2>1. \A i \in Jobs : Live(i)' => Live(i) /\ Owned(i)'
      BY AccountingDef DEF IInv, TypeOK, Live, Owned
    <2>. QED
      BY <2>1, AccountingFrame
  <1>4. ApplyJobsExclusive'
    BY <1>2 DEF IInv, TypeOK, ApplyJobsExclusive, OneApplyPerPlan, CheckpointsExact,
           CapabilityHeld, Unfinished
  <1>5. HistoryAgrees' /\ PlansShown' /\ FaultsOK'
    BY FaultsFrame DEF IInv, TypeOK, HistoryAgrees, PlansShown
  <1>. QED
    BY <1>1, <1>2, <1>3, <1>4, <1>5 DEF IInv

-----------------------------------------------------------------------------
(* Steps that change the status of a job *)

\* One job out of a set of jobs makes it smaller by one; another in it larger.
LEMMA JobOut ==
  ASSUME NEW S \in SUBSET Jobs, NEW j \in S
  PROVE  Cardinality(S) > 0 /\ Cardinality(S \ {j}) = Less(Cardinality(S), 1)
  <1>1. IsFiniteSet(S) /\ Cardinality(S) \in Nat /\ Cardinality(S \ {j}) \in Nat
    BY JobSets
  <1>2. Cardinality(S \ {j}) = Cardinality(S) - 1
    BY <1>1, FS_RemoveElement
  <1>. QED
    BY <1>1, <1>2 DEF Less

\* A job added to a set of jobs.
LEMMA JobIn ==
  ASSUME NEW S \in SUBSET Jobs, NEW j \in Jobs \ S
  PROVE  Cardinality(S \cup {j}) = Cardinality(S) + 1
  BY JobSets, FS_AddElement

\* begin() gives a queued job a slot.
LEMMA BeginStep ==
  ASSUME IInv, NEW j \in Jobs, Begin(j)
  PROVE  IInv'
  <1>. USE DEF Begin, stores
  <1>1. running' = running + 1 /\ queued' = Less(queued, 1) /\ running < ConcurrentJobs
    BY DEF CanStart
  <1>2. /\ j \in QueuedSet /\ j \notin RunningSet
        /\ QueuedSet \in SUBSET Jobs /\ RunningSet \in SUBSET Jobs
        /\ QueuedSet' = QueuedSet \ {j} /\ RunningSet' = RunningSet \cup {j}
    BY DEF QueuedSet, RunningSet, IInv, TypeOK
  <1>3. running = Cardinality(RunningSet) /\ queued = Cardinality(QueuedSet)
    BY AccountingDef DEF IInv
  <1>4. running' = Cardinality(RunningSet') /\ queued' = Cardinality(QueuedSet')
    BY <1>1, <1>2, <1>3, JobIn, JobOut
  <1>5. running' \in Nat /\ queued' \in Nat /\ running' <= ConcurrentJobs
    BY <1>1, LimitsAssumption DEF IInv, TypeOK, Less
  <1>6. TypeOK'
    <2>1. /\ status' \in [Jobs -> {"unknown", "Queued", "Running"} \cup Terminal]
          /\ thread' \in [Jobs -> ThreadStates]
      BY DEF IInv, TypeOK, ThreadStates
    <2>. QED
      BY <1>5, <2>1 DEF IInv, TypeOK
  <1>7. JobsOK' /\ ShutdownOK'
    BY DEF IInv, TypeOK, JobsOK, PlaceOK, RecordOK, Busy, Unfinished, ShutdownOK
  <1>8. OrderAgrees'
    BY DEF IInv, TypeOK, OrderAgrees
  <1>9. AccountingExact'
    <2>1. \A i \in Jobs : Live(i)' => Live(i) /\ Owned(i)'
      BY AccountingDef DEF IInv, TypeOK, Live, Owned
    <2>2. LiveSet' \subseteq LiveSet
      BY <2>1 DEF LiveSet
    <2>. QED
      BY <1>4, <1>5, <2>1, <2>2, FewerOK, AccountingDefNext
  <1>10. ApplyJobsExclusive'
    <2>1. \A i \in Jobs : /\ Unfinished(i)' <=> Unfinished(i)
                          /\ status'[i] = "Queued" => status[i] = "Queued"
                          /\ thread'[i] = "started" => thread[i] = "started" \/ status[i] = "Queued"
      BY DEF Unfinished, IInv, TypeOK
    <2>2. OneApplyPerPlan'
      BY <2>1 DEF IInv, ApplyJobsExclusive, OneApplyPerPlan
    <2>3. CheckpointsExact'
      BY <2>1 DEF IInv, ApplyJobsExclusive, CheckpointsExact
    <2>4. CapabilityHeld'
      BY <2>1 DEF IInv, TypeOK, ApplyJobsExclusive, CapabilityHeld
    <2>. QED
      BY <2>2, <2>3, <2>4 DEF ApplyJobsExclusive
  <1>11. HistoryAgrees' /\ PlansShown' /\ FaultsOK'
    BY FaultsFrame DEF IInv, TypeOK, HistoryAgrees, PlansShown, Terminal
  <1>. QED
    BY <1>6, <1>7, <1>8, <1>9, <1>10, <1>11 DEF IInv

\* An apply job that ends gives its plan back, and only its own.
LEMMA PlanReturned ==
  ASSUME IInv, NEW j \in Jobs, Unfinished(j), ~Unfinished(j)',
         \A i \in Jobs : i # j => (Unfinished(i)' <=> Unfinished(i)),
         active' = active \ {target[j]}, UNCHANGED <<kind, target, shuttingDown>>
  PROVE  OneApplyPerPlan' /\ CheckpointsExact'
  <1>1. OneApplyPerPlan'
    BY DEF IInv, ApplyJobsExclusive, OneApplyPerPlan
  <1>2. CheckpointsExact'
    <2>. DEFINE Applying == {i \in Jobs : Unfinished(i) /\ kind[i] = "apply"}
    <2>1. SUFFICES ASSUME ~shuttingDown
                   PROVE  active' = {target[i] : i \in Applying'}
      BY DEF CheckpointsExact
    <2>2. active = {target[i] : i \in Applying}
      BY <2>1 DEF IInv, ApplyJobsExclusive, CheckpointsExact
    <2>3. Applying' = Applying \ {j}
      OBVIOUS
    <2>4. \A i \in Applying : target[i] # None /\ (target[i] = target[j] => i = j)
      BY DEF IInv, JobsOK, PlaceOK, ApplyJobsExclusive, OneApplyPerPlan
    <2>5. j \notin Applying => target[j] = None
      BY DEF IInv, JobsOK, PlaceOK
    <2>. HIDE DEF Applying
    <2>. QED
      BY <2>2, <2>3, <2>4, <2>5
  <1>. QED
    BY <1>1, <1>2

\* finish() under the lock.
LEMMA FinishStep ==
  ASSUME IInv, NEW j \in Jobs, Finish(j)
  PROVE  IInv'
  <1>. USE DEF Finish, stores
  <1>1. /\ status[j] = "Running" /\ outcome[j] \in Terminal
        /\ j \notin cancelling
        /\ (kind[j] = "plan" /\ outcome[j] = "Completed") => j \in artifacts
        /\ IF j \in unrecorded THEN outcome[j] = "Failed" ELSE history[j] = outcome[j]
    BY BoundsAssumption DEF IInv, JobsOK, PlaceOK, RecordOK, Busy, Terminal
  <1>2. \A i \in Jobs : /\ status'[i] = IF i = j THEN outcome[j] ELSE status[i]
                        /\ thread'[i] = IF i = j THEN "exited" ELSE
                               IF thread[i] = "waiting" THEN "begin" ELSE thread[i]
    BY DEF IInv, TypeOK, Notified
  <1>3. /\ j \in RunningSet /\ RunningSet \in SUBSET Jobs
        /\ QueuedSet' = QueuedSet /\ RunningSet' = RunningSet \ {j}
    BY <1>1, <1>2 DEF QueuedSet, RunningSet, Terminal
  <1>4. running' = Cardinality(RunningSet') /\ queued' = Cardinality(QueuedSet')
    BY <1>3, JobOut, AccountingDef DEF IInv
  <1>5. running' \in Nat /\ running' <= ConcurrentJobs
    BY AccountingDef, LimitsAssumption DEF IInv, TypeOK, Less
  <1>6. TypeOK'
    <2>1. status' \in [Jobs -> {"unknown", "Queued", "Running"} \cup Terminal]
      BY <1>1 DEF IInv, TypeOK
    <2>2. thread' \in [Jobs -> ThreadStates]
      BY <1>2 DEF IInv, TypeOK, ThreadStates, Notified
    <2>3. workerFailed' \in BOOLEAN
      BY DEF IInv, TypeOK
    <2>. QED
      BY <1>5, <2>1, <2>2, <2>3 DEF IInv, TypeOK
  <1>7. \A i \in Jobs : PlaceOK(i)'
    <2>1. ASSUME NEW i \in Jobs, i # j PROVE PlaceOK(i)'
      BY <1>2, <2>1 DEF IInv, JobsOK, PlaceOK, Busy, Unfinished
    <2>2. PlaceOK(j)'
      BY <1>1, <1>2 DEF PlaceOK, Busy, Unfinished, Terminal
    <2>. QED
      BY <2>1, <2>2
  <1>8. \A i \in Jobs : RecordOK(i)'
    BY <1>2 DEF IInv, JobsOK, RecordOK
  <1>9. OrderAgrees' /\ ShutdownOK'
    BY <1>1, <1>2 DEF IInv, OrderAgrees, ShutdownOK, Terminal
  <1>10. AccountingExact'
    <2>1. \A i \in Jobs : Live(i)' => Live(i) /\ Owned(i)'
      BY <1>2, AccountingDef DEF IInv, Live, Owned
    <2>2. LiveSet' \subseteq LiveSet
      BY <2>1 DEF LiveSet
    <2>. QED
      BY <1>4, <1>5, <2>1, <2>2, FewerOK, AccountingDefNext
  <1>11. ApplyJobsExclusive'
    <2>1. /\ Unfinished(j) /\ ~Unfinished(j)'
          /\ \A i \in Jobs : i # j => (Unfinished(i)' <=> Unfinished(i))
      BY <1>1, <1>2 DEF Unfinished, Terminal
    <2>2. OneApplyPerPlan' /\ CheckpointsExact'
      BY <2>1, PlanReturned
    <2>3. CapabilityHeld'
      BY <1>1, <1>2, <2>1 DEF IInv, TypeOK, ApplyJobsExclusive, CapabilityHeld, Terminal
    <2>. QED
      BY <2>2, <2>3 DEF ApplyJobsExclusive
  <1>12. HistoryAgrees'
    BY <1>1, <1>2 DEF IInv, HistoryAgrees
  <1>13. PlansShown' /\ FaultsOK'
    BY <1>1, <1>2, FaultsFrame DEF IInv, TypeOK, PlansShown
  <1>. QED
    BY <1>6, <1>7, <1>8, <1>9, <1>10, <1>11, <1>12, <1>13 DEF IInv, JobsOK

\* cancel() of a job that has not started.
LEMMA CancelQueuedStep ==
  ASSUME IInv, NEW j \in Jobs, CancelQueued(j)
  PROVE  IInv'
  <1>. USE DEF CancelQueued
  <1>1. /\ status[j] = "Queued" /\ thread[j] \in {"begin", "waiting"}
        /\ outcome[j] = None /\ j \notin artifacts
    BY BoundsAssumption DEF IInv, JobsOK, PlaceOK, RecordOK, Terminal
  <1>2. \A i \in Jobs : /\ status'[i] = IF i = j THEN "Cancelled" ELSE status[i]
                        /\ thread'[i] = IF thread[i] = "waiting" THEN "begin" ELSE thread[i]
    BY DEF IInv, TypeOK, Notified
  <1>3. /\ j \in QueuedSet /\ QueuedSet \in SUBSET Jobs
        /\ QueuedSet' = QueuedSet \ {j} /\ RunningSet' = RunningSet
    BY <1>1, <1>2 DEF QueuedSet, RunningSet
  <1>4. running' = Cardinality(RunningSet') /\ queued' = Cardinality(QueuedSet')
    BY <1>3, JobOut, AccountingDef DEF IInv
  <1>5. queued' \in Nat /\ running' <= ConcurrentJobs
    BY AccountingDef DEF IInv, TypeOK, Less
  <1>6. TypeOK'
    <2>1. status' \in [Jobs -> {"unknown", "Queued", "Running"} \cup Terminal]
      BY DEF IInv, TypeOK, Terminal
    <2>2. thread' \in [Jobs -> ThreadStates]
      BY DEF IInv, TypeOK, ThreadStates, Notified
    <2>. QED
      BY <1>5, <2>1, <2>2 DEF IInv, TypeOK
  <1>7. \A i \in Jobs : PlaceOK(i)'
    BY <1>1, <1>2 DEF IInv, JobsOK, PlaceOK, Busy, Unfinished
  <1>8. \A i \in Jobs : RecordOK(i)'
    BY <1>1, <1>2 DEF IInv, JobsOK, RecordOK
  <1>9. OrderAgrees' /\ ShutdownOK'
    BY <1>1, <1>2 DEF IInv, OrderAgrees, ShutdownOK
  <1>10. AccountingExact'
    <2>1. \A i \in Jobs : Live(i)' => Live(i) /\ Owned(i)'
      BY <1>2, AccountingDef DEF IInv, Live, Owned
    <2>2. LiveSet' \subseteq LiveSet
      BY <2>1 DEF LiveSet
    <2>. QED
      BY <1>4, <1>5, <2>1, <2>2, FewerOK, AccountingDefNext
  <1>11. ApplyJobsExclusive'
    <2>1. /\ Unfinished(j) /\ ~Unfinished(j)'
          /\ \A i \in Jobs : i # j => (Unfinished(i)' <=> Unfinished(i))
      BY <1>1, <1>2 DEF Unfinished
    <2>2. OneApplyPerPlan' /\ CheckpointsExact'
      BY <2>1, PlanReturned
    <2>3. CapabilityHeld'
      BY <1>1, <1>2, <2>1 DEF IInv, TypeOK, ApplyJobsExclusive, CapabilityHeld
    <2>. QED
      BY <2>2, <2>3 DEF ApplyJobsExclusive
  <1>12. HistoryAgrees'
    BY <1>1, <1>2 DEF IInv, HistoryAgrees
  <1>13. PlansShown' /\ FaultsOK'
    BY <1>1, <1>2, FaultsFrame DEF IInv, TypeOK, PlansShown
  <1>. QED
    BY <1>6, <1>7, <1>8, <1>9, <1>10, <1>11, <1>12, <1>13 DEF IInv, JobsOK

\* shutdown() under the lock.
LEMMA ShutdownStep ==
  ASSUME IInv, Shutdown
  PROVE  IInv'
  <1>1. /\ shuttingDown' /\ shuttingDown' \in BOOLEAN
        /\ joining = None /\ joining' = handles /\ handles' = {}
        /\ thread' = Notified(thread)
        /\ UNCHANGED <<order, running, workerFailed, capabilities, active, kind, target,
                       outcome, unrecorded, history, artifacts, cancelling, faults, panics>>
    BY DEF Shutdown
  <1>2. \A j \in Jobs : /\ status[j] = "Queued" => j \notin cancelRequested
                        /\ status[j] = "Queued" => thread[j] \in {"begin", "waiting"}
                        /\ thread[j] = "none" => status[j] = "unknown"
    BY DEF IInv, JobsOK, PlaceOK
  <1>3. {j \in {i \in Jobs : status[i] \in {"Queued", "Running"} /\ i \notin cancelRequested} :
            status[j] = "Queued"} = QueuedSet
    BY <1>2 DEF QueuedSet
  <1>4. /\ status' = [j \in Jobs |-> IF j \in QueuedSet THEN "Cancelled" ELSE status[j]]
        /\ queued' = Less(queued, Cardinality(QueuedSet))
    BY <1>3 DEF Shutdown
  <1>5. \A j \in Jobs : /\ status'[j] = IF status[j] = "Queued" THEN "Cancelled" ELSE status[j]
                        /\ thread'[j] = IF thread[j] = "waiting" THEN "begin" ELSE thread[j]
    BY <1>1, <1>4 DEF QueuedSet, Notified
  <1>6. /\ \A j \in Jobs : j \in cancelRequested' => j \in cancelRequested \/ status[j] \in {"Queued", "Running"}
        /\ cancelRequested' \subseteq Jobs
    BY DEF Shutdown, IInv, TypeOK
  <1>7. queued' = 0 /\ queued' = Cardinality(QueuedSet') /\ running' = Cardinality(RunningSet')
    <2>1. queued = Cardinality(QueuedSet) /\ queued \in Nat /\ running = Cardinality(RunningSet)
      BY AccountingDef DEF IInv, TypeOK
    <2>2. QueuedSet' = {} /\ RunningSet' = RunningSet
      BY <1>5 DEF QueuedSet, RunningSet
    <2>3. queued' = 0
      BY <1>4, <2>1 DEF Less
    <2>. QED
      BY <1>1, <2>1, <2>2, <2>3, FS_EmptySet
  <1>8. TypeOK'
    <2>1. status' \in [Jobs -> {"unknown", "Queued", "Running"} \cup Terminal]
      BY <1>4 DEF IInv, TypeOK, Terminal
    <2>2. thread' \in [Jobs -> ThreadStates]
      BY <1>1 DEF IInv, TypeOK, ThreadStates, Notified
    <2>3. joining' \in (SUBSET Jobs) \cup {None} /\ handles' \subseteq Jobs
      BY <1>1 DEF IInv, TypeOK
    <2>. QED
      BY <1>1, <1>6, <1>7, <2>1, <2>2, <2>3 DEF IInv, TypeOK
  <1>9. \A j \in Jobs : PlaceOK(j)'
    BY <1>1, <1>2, <1>5, <1>6 DEF IInv, JobsOK, PlaceOK, Busy, Unfinished
  <1>10. \A j \in Jobs : RecordOK(j)'
    BY <1>1, <1>2, <1>5 DEF IInv, JobsOK, RecordOK
  <1>11. OrderAgrees' /\ ShutdownOK'
    <2>1. joining' # None
      BY <1>1, BoundsAssumption DEF IInv, TypeOK, Jobs
    <2>. QED
      BY <1>1, <1>5, <2>1 DEF IInv, OrderAgrees, ShutdownOK
  <1>12. AccountingExact'
    <2>1. \A i \in Jobs : Live(i)' => Live(i) /\ Owned(i)'
      <3>1. \A i \in Jobs : Live(i) => i \in handles
        BY <1>1, AccountingDef DEF IInv, Owned
      <3>2. \A i \in Jobs : Live(i)' => Live(i)
        BY <1>5 DEF Live
      <3>3. joining' # None
        BY <1>1, BoundsAssumption DEF IInv, TypeOK, Jobs
      <3>. QED
        BY <1>1, <3>1, <3>2, <3>3 DEF Owned
    <2>2. LiveSet' \subseteq LiveSet
      BY <2>1 DEF LiveSet
    <2>3. running' <= ConcurrentJobs
      BY <1>1, AccountingDef DEF IInv
    <2>4. order' \subseteq order
      BY <1>1
    <2>5. Cardinality(LiveSet') <= WorkerLimit /\ Cardinality(order') <= RetainedJobs
      BY <2>2, <2>4, FewerOK
    <2>. QED
      BY <1>7, <2>1, <2>3, <2>5, AccountingDefNext
  <1>13. ApplyJobsExclusive'
    <2>1. \A i \in Jobs : /\ Unfinished(i)' => Unfinished(i)
                          /\ status'[i] # "Queued"
                          /\ thread'[i] = "started" => thread[i] = "started"
      BY <1>5 DEF Unfinished
    <2>2. OneApplyPerPlan'
      BY <1>1, <2>1 DEF IInv, ApplyJobsExclusive, OneApplyPerPlan
    <2>3. CheckpointsExact'
      BY <1>1 DEF CheckpointsExact
    <2>4. CapabilityHeld'
      BY <1>1, <2>1 DEF IInv, ApplyJobsExclusive, CapabilityHeld
    <2>. QED
      BY <2>2, <2>3, <2>4 DEF ApplyJobsExclusive
  <1>14. HistoryAgrees'
    <2>1. \A i \in Jobs : status[i] = "Queued" => outcome[i] = None
      BY <1>2 DEF IInv, JobsOK, RecordOK
    <2>. QED
      BY <1>1, <1>5, <2>1 DEF IInv, HistoryAgrees
  <1>15. PlansShown' /\ FaultsOK'
    BY <1>1, <1>5, FaultsFrame DEF IInv, TypeOK, PlansShown
  <1>. QED
    BY <1>8, <1>9, <1>10, <1>11, <1>12, <1>13, <1>14, <1>15 DEF IInv, JobsOK

-----------------------------------------------------------------------------
(* Admission, granted or refused *)

\* Eviction takes finished jobs only, and the queue and the map stay one.
LEMMA Eviction ==
  ASSUME IInv
  PROVE  /\ Kept \subseteq order
         /\ \A i \in Jobs : Retained[i] # status[i] =>
                Retained[i] = "unknown" /\ status[i] \in Terminal
         /\ Kept = {i \in Jobs : Retained[i] # "unknown"}
         /\ Retained \in [Jobs -> {"unknown", "Queued", "Running"} \cup Terminal]
  <1>1. Evicted \subseteq {i \in order : status[i] \in Terminal}
    BY DEF Evicted, Oldest, IsTerminal
  <1>2. order = {i \in Jobs : status[i] # "unknown"}
    BY DEF IInv, OrderAgrees
  <1>3. Retained = [i \in Jobs |-> IF i \in Evicted THEN "unknown" ELSE status[i]]
    BY DEF Retained
  <1>. QED
    BY <1>1, <1>2, <1>3 DEF Kept, IInv, TypeOK

\* Every live thread is among the handles that reaping leaves.
LEMMA ReapKeepsLive ==
  ASSUME IInv
  PROVE  /\ Reaped \subseteq Jobs
         /\ \A i \in Jobs : Live(i) => i \in Reaped \/ (joining # None /\ i \in joining)
  BY AccountingDef DEF IInv, TypeOK, Owned, Reaped, Ended, Live

\* A refused admission still reaps ended workers and evicts old jobs.
LEMMA AdmitRefusedStep ==
  ASSUME IInv, NEW plan \in Plans \cup {None}, AdmitRefused(plan)
  PROVE  IInv'
  <1>1. /\ handles' = Reaped /\ workerFailed' = FailedAfterReap
        /\ status' = Retained /\ order' = Kept
        /\ UNCHANGED <<running, queued, shuttingDown, cancelRequested, capabilities,
                       active, worker, stores, panics>>
    BY DEF AdmitRefused
  <1>. USE DEF worker, stores
  <1>2. \A i \in Jobs : status'[i] # status[i] => status'[i] = "unknown" /\ status[i] \in Terminal
    BY <1>1, Eviction
  <1>3. TypeOK'
    <2>1. faults' \in Nat
      BY DEF AdmitRefused, Fault, Faults, IInv, TypeOK
    <2>2. workerFailed' \in BOOLEAN
      BY <1>1 DEF FailedAfterReap, IInv, TypeOK
    <2>3. handles' \subseteq Jobs /\ order' \subseteq Jobs
      BY <1>1, Eviction, ReapKeepsLive DEF IInv, TypeOK
    <2>4. status' \in [Jobs -> {"unknown", "Queued", "Running"} \cup Terminal]
      BY <1>1, Eviction
    <2>. QED
      BY <1>1, <2>1, <2>2, <2>3, <2>4 DEF IInv, TypeOK
  <1>4. \A i \in Jobs : PlaceOK(i)'
    BY <1>1, <1>2 DEF IInv, JobsOK, PlaceOK, Busy, Unfinished, Terminal
  <1>5. \A i \in Jobs : RecordOK(i)'
    BY <1>1, <1>2 DEF IInv, JobsOK, RecordOK
  <1>6. OrderAgrees' /\ ShutdownOK'
    BY <1>1, <1>2, Eviction DEF IInv, OrderAgrees, ShutdownOK
  <1>7. AccountingExact'
    <2>1. LiveSet' = LiveSet /\ RunningSet' = RunningSet /\ QueuedSet' = QueuedSet
      BY <1>1, <1>2 DEF LiveSet, Live, RunningSet, QueuedSet, Terminal
    <2>2. \A i \in Jobs : Live(i)' => Owned(i)'
      BY <1>1, ReapKeepsLive DEF Live, Owned
    <2>3. order' \subseteq order
      BY <1>1, Eviction
    <2>4. Cardinality(LiveSet') <= WorkerLimit /\ Cardinality(order') <= RetainedJobs
      BY <2>1, <2>3, FewerOK
    <2>. QED
      BY <1>1, <2>1, <2>2, <2>4, AccountingDef, AccountingDefNext DEF IInv
  <1>8. ApplyJobsExclusive'
    <2>1. \A i \in Jobs : /\ Unfinished(i)' <=> Unfinished(i)
                          /\ status'[i] = "Queued" <=> status[i] = "Queued"
      BY <1>2 DEF Unfinished, Terminal
    <2>2. OneApplyPerPlan'
      BY <1>1, <2>1 DEF IInv, ApplyJobsExclusive, OneApplyPerPlan
    <2>3. CheckpointsExact'
      BY <1>1, <2>1 DEF IInv, ApplyJobsExclusive, CheckpointsExact
    <2>4. CapabilityHeld'
      BY <1>1, <2>1 DEF IInv, TypeOK, ApplyJobsExclusive, CapabilityHeld
    <2>. QED
      BY <2>2, <2>3, <2>4 DEF ApplyJobsExclusive
  <1>9. HistoryAgrees'
    <2>1. workerFailed => workerFailed'
      BY <1>1 DEF FailedAfterReap
    <2>. QED
      BY <1>1, <1>2, <2>1 DEF IInv, HistoryAgrees, Terminal
  <1>10. PlansShown' /\ FaultsOK'
    <2>1. PlansShown'
      BY <1>1, <1>2 DEF IInv, PlansShown
    <2>2. faults' \in Nat /\ faults' <= faults
      BY DEF IInv, TypeOK, AdmitRefused, Fault, Faults
    <2>. QED
      BY <1>1, <2>1, <2>2, FaultsFrame
  <1>. QED
    BY <1>3, <1>4, <1>5, <1>6, <1>7, <1>8, <1>9, <1>10 DEF IInv, JobsOK

\* An admission: the new job takes a place that was free.
LEMMA AdmitStep ==
  ASSUME IInv, NEW j \in Jobs, NEW k \in Kinds, NEW plan \in Plans \cup {None},
         Admit(j, k, plan)
  PROVE  IInv'
  <1>1. /\ handles' = Reaped \cup {j}
        /\ status' = [Retained EXCEPT ![j] = "Queued"]
        /\ order' = Kept \cup {j}
        /\ queued' = queued + 1
        /\ kind' = [kind EXCEPT ![j] = k]
        /\ target' = [target EXCEPT ![j] = plan]
        /\ thread' = [thread EXCEPT ![j] = "begin"]
        /\ capabilities' = IF k = "apply" THEN capabilities \cup {j} ELSE capabilities
        /\ active' = IF k = "apply" THEN active \cup {plan} ELSE active
        /\ UNCHANGED <<running, shuttingDown, workerFailed, cancelRequested,
                       outcome, unrecorded, stores, faults, panics>>
    BY DEF Admit
  <1>. USE DEF stores
  <1>2. thread[j] = "none" /\ ~shuttingDown /\ ((k = "apply") = (plan # None))
    BY DEF Admit, Unavailable
  <1>3. /\ plan \notin active
        /\ ~(Cardinality(Reaped) >= WorkerLimit) /\ ~(Cardinality(Kept) >= RetainedJobs)
    BY DEF Admit, Full
  <1>4. /\ status[j] = "unknown" /\ j \notin cancelRequested /\ j \notin cancelling
        /\ outcome[j] = None /\ j \notin unrecorded /\ j \notin artifacts
    BY <1>2, BoundsAssumption DEF IInv, JobsOK, PlaceOK, RecordOK, Terminal
  <1>5. k \in {"read", "plan", "apply"}
    BY BoundsAssumption
  <1>6. \A i \in Jobs : i # j =>
            /\ status'[i] # status[i] => status'[i] = "unknown" /\ status[i] \in Terminal
            /\ thread'[i] = thread[i] /\ kind'[i] = kind[i] /\ target'[i] = target[i]
            /\ i \in capabilities' <=> i \in capabilities
    BY <1>1, Eviction DEF IInv, TypeOK
  <1>7. status'[j] = "Queued" /\ thread'[j] = "begin" /\ kind'[j] = k /\ target'[j] = plan
    BY <1>1, Eviction DEF IInv, TypeOK
  <1>8. j \notin Kept /\ j \notin RunningSet /\ j \notin QueuedSet /\ j \notin LiveSet
    BY <1>2, <1>4, Eviction DEF IInv, OrderAgrees, RunningSet, QueuedSet, LiveSet, Live
  <1>9. RunningSet' = RunningSet /\ QueuedSet' = QueuedSet \cup {j} /\ LiveSet' = LiveSet \cup {j}
    BY <1>4, <1>6, <1>7 DEF RunningSet, QueuedSet, LiveSet, Live, Terminal
  <1>10. TypeOK'
    <2>1. status' \in [Jobs -> {"unknown", "Queued", "Running"} \cup Terminal]
      BY <1>1, Eviction
    <2>2. handles' \subseteq Jobs /\ order' \subseteq Jobs /\ capabilities' \subseteq Jobs
      BY <1>1, Eviction, ReapKeepsLive DEF IInv, TypeOK
    <2>3. active' \subseteq Plans
      BY <1>1, <1>2 DEF IInv, TypeOK
    <2>4. kind' \in [Jobs -> {"read", "plan", "apply"} \cup {None}]
      BY <1>1, <1>5 DEF IInv, TypeOK
    <2>5. target' \in [Jobs -> Plans \cup {None}] /\ thread' \in [Jobs -> ThreadStates]
      BY <1>1 DEF IInv, TypeOK, ThreadStates
    <2>6. queued' \in Nat
      BY <1>1 DEF IInv, TypeOK
    <2>. QED
      BY <1>1, <2>1, <2>2, <2>3, <2>4, <2>5, <2>6 DEF IInv, TypeOK
  <1>11. \A i \in Jobs : PlaceOK(i)'
    <2>1. ASSUME NEW i \in Jobs, i # j PROVE PlaceOK(i)'
      BY <1>1, <1>6, <2>1 DEF IInv, JobsOK, PlaceOK, Busy, Unfinished, Terminal
    <2>2. PlaceOK(j)'
      BY <1>1, <1>2, <1>4, <1>7 DEF PlaceOK, Busy, Unfinished
    <2>. QED
      BY <2>1, <2>2
  <1>12. \A i \in Jobs : RecordOK(i)'
    <2>1. ASSUME NEW i \in Jobs, i # j PROVE RecordOK(i)'
      BY <1>1, <1>6, <2>1 DEF IInv, JobsOK, RecordOK
    <2>2. RecordOK(j)'
      BY <1>1, <1>4, <1>7 DEF RecordOK
    <2>. QED
      BY <2>1, <2>2
  <1>13. OrderAgrees' /\ ShutdownOK'
    <2>1. OrderAgrees'
      BY <1>1, <1>7, Eviction DEF OrderAgrees
    <2>2. ShutdownOK'
      BY <1>1, <1>2 DEF IInv, ShutdownOK
    <2>. QED
      BY <2>1, <2>2
  <1>14. AccountingExact'
    <2>1. joining = None
      BY <1>2 DEF IInv, ShutdownOK
    <2>2. LiveSet \subseteq Reaped /\ Reaped \in SUBSET Jobs
      BY <2>1, ReapKeepsLive DEF LiveSet
    <2>3. Cardinality(LiveSet) <= Cardinality(Reaped)
      BY <2>2, JobSets, FS_Subset
    <2>4. Cardinality(Reaped) \in Nat /\ Cardinality(LiveSet) \in Nat /\ Cardinality(Kept) \in Nat
      BY <2>2, JobSets, Eviction DEF IInv, TypeOK
    <2>5. /\ Cardinality(LiveSet') = Cardinality(LiveSet) + 1
          /\ Cardinality(order') = Cardinality(Kept) + 1
          /\ Cardinality(QueuedSet') = Cardinality(QueuedSet) + 1
      <3>1. LiveSet \in SUBSET Jobs /\ Kept \in SUBSET Jobs /\ QueuedSet \in SUBSET Jobs
        BY Eviction DEF LiveSet, QueuedSet, IInv, TypeOK
      <3>. QED
        BY <1>1, <1>8, <1>9, <3>1, JobIn
    <2>6. WorkerLimit \in Nat /\ RetainedJobs \in Nat
      BY LimitsAssumption DEF WorkerLimit
    <2>7. Cardinality(LiveSet') <= WorkerLimit /\ Cardinality(order') <= RetainedJobs
      BY <1>3, <2>3, <2>4, <2>5, <2>6
    <2>8. \A i \in Jobs : Live(i)' => Owned(i)'
      <3>1. \A i \in Jobs : Live(i)' => Live(i) \/ i = j
        BY <1>6 DEF Live
      <3>. QED
        BY <1>1, <2>1, <3>1, ReapKeepsLive DEF Owned
    <2>9. /\ running' = Cardinality(RunningSet') /\ queued' = Cardinality(QueuedSet')
          /\ running' <= ConcurrentJobs
      BY <1>1, <1>9, <2>5, AccountingDef DEF IInv
    <2>. QED
      BY <2>7, <2>8, <2>9, AccountingDefNext
  <1>15. ApplyJobsExclusive'
    <2>1. /\ Unfinished(j)' /\ ~Unfinished(j)
          /\ \A i \in Jobs : i # j => /\ Unfinished(i)' <=> Unfinished(i)
                                      /\ status'[i] = "Queued" <=> status[i] = "Queued"
      BY <1>4, <1>6, <1>7 DEF Unfinished, Terminal
    <2>. DEFINE Applying == {i \in Jobs : Unfinished(i) /\ kind[i] = "apply"}
    <2>2. active = {target[i] : i \in Applying}
      BY <1>2 DEF IInv, ApplyJobsExclusive, CheckpointsExact
    <2>3. OneApplyPerPlan'
      <3>1. \A i \in Jobs : Unfinished(i) /\ target[i] # None => target[i] \in active
        BY <2>2 DEF IInv, JobsOK, PlaceOK
      <3>2. \A i, m \in Jobs : (Unfinished(i) /\ Unfinished(m) /\ target[i] = target[m]
                                  /\ target[i] # None) => i = m
        BY DEF IInv, ApplyJobsExclusive, OneApplyPerPlan
      <3>. QED
        BY <1>3, <1>6, <1>7, <2>1, <3>1, <3>2 DEF OneApplyPerPlan
    <2>4. CheckpointsExact'
      <3>1. Applying' = IF k = "apply" THEN Applying \cup {j} ELSE Applying
        BY <1>6, <1>7, <2>1
      <3>2. j \notin Applying /\ \A i \in Applying : target'[i] = target[i]
        BY <1>6, <2>1
      <3>. HIDE DEF Applying
      <3>3. active' = {target'[i] : i \in Applying'}
        BY <1>1, <1>7, <2>2, <3>1, <3>2
      <3>. QED
        BY <3>3 DEF CheckpointsExact, Applying
    <2>5. CapabilityHeld'
      <3>1. j \in capabilities' <=> (k = "apply" \/ j \in capabilities)
        BY <1>1
      <3>. QED
        BY <1>1, <1>2, <1>6, <1>7, <2>1, <3>1 DEF IInv, TypeOK, ApplyJobsExclusive, CapabilityHeld
    <2>. QED
      BY <2>3, <2>4, <2>5 DEF ApplyJobsExclusive
  <1>16. HistoryAgrees'
    BY <1>1, <1>6, <1>7 DEF IInv, HistoryAgrees, Terminal
  <1>17. PlansShown' /\ FaultsOK'
    BY <1>1, <1>4, <1>6, <1>7, FaultsFrame DEF IInv, TypeOK, PlansShown
  <1>. QED
    BY <1>10, <1>11, <1>12, <1>13, <1>14, <1>15, <1>16, <1>17 DEF IInv, JobsOK

-----------------------------------------------------------------------------
(* The results *)

\* The invariant holds when the manager starts.
LEMMA InitOK == Init => IInv
  <1>. SUFFICES ASSUME Init PROVE IInv
    OBVIOUS
  <1>1. TypeOK
    BY BoundsAssumption DEF Init, TypeOK, ThreadStates
  <1>2. JobsOK /\ OrderAgrees /\ ShutdownOK
    BY BoundsAssumption DEF Init, JobsOK, PlaceOK, RecordOK, Busy, Unfinished, OrderAgrees,
       ShutdownOK, Terminal
  <1>3. AccountingExact
    <2>1. RunningSet = {} /\ QueuedSet = {} /\ LiveSet = {} /\ \A j \in Jobs : ~Live(j)
      BY DEF Init, RunningSet, QueuedSet, LiveSet, Live
    <2>2. WorkerLimit \in Nat /\ RetainedJobs \in Nat /\ ConcurrentJobs \in Nat
      BY LimitsAssumption DEF WorkerLimit
    <2>3. running = 0 /\ queued = 0 /\ order = {}
      BY DEF Init
    <2>. QED
      BY <2>1, <2>2, <2>3, FS_EmptySet, AccountingDef
  <1>4. ApplyJobsExclusive
    BY DEF Init, ApplyJobsExclusive, OneApplyPerPlan, CheckpointsExact, CapabilityHeld, Unfinished
  <1>5. HistoryAgrees /\ PlansShown
    BY DEF Init, HistoryAgrees, PlansShown, Terminal
  <1>6. FaultsOK
    <2>1. Strays = {} /\ unrecorded = {} /\ faults = MaxFaults
      BY DEF Init, Strays
    <2>. QED
      BY <2>1, FS_EmptySet, BoundsAssumption DEF FaultsOK
  <1>. QED
    BY <1>1, <1>2, <1>3, <1>4, <1>5, <1>6 DEF IInv

\* A stuttering step.
LEMMA StutterOK ==
  ASSUME IInv, UNCHANGED vars
  PROVE  IInv'
  <1>. USE DEF vars, locked, worker, stores
  <1>1. TypeOK' /\ JobsOK' /\ ShutdownOK'
    BY DEF IInv, TypeOK, JobsOK, PlaceOK, RecordOK, ShutdownOK, Unfinished
  <1>2. OrderAgrees' /\ AccountingExact'
    <2>1. \A i \in Jobs : Live(i)' => Live(i) /\ Owned(i)'
      BY AccountingDef DEF IInv, Live, Owned
    <2>. QED
      BY <2>1, AccountingFrame
  <1>3. ApplyJobsExclusive' /\ HistoryAgrees' /\ PlansShown' /\ FaultsOK'
    BY ApplyFrame, FaultsFrame DEF IInv, HistoryAgrees, TypeOK, PlansShown
  <1>. QED
    BY <1>1, <1>2, <1>3 DEF IInv

\* Every step keeps the invariant.
LEMMA StepOK == IInv /\ [Next]_vars => IInv'
  <1>. SUFFICES ASSUME IInv, [Next]_vars PROVE IInv'
    OBVIOUS
  <1>1. ASSUME NEW j \in Jobs, WorkerStep(j) PROVE IInv'
    BY <1>1, BeginTurnStep, BeginStep, JobInputsStep, WorkerStepOK, FinishStep DEF WorkerStep
  <1>2. ASSUME NEW j \in Jobs,
               \/ \E result \in Terminal : Execute(j, result)
               \/ Panic(j)
               \/ \E committed, removed \in BOOLEAN : RecordFails(j, committed, removed)
        PROVE  IInv'
    BY <1>2, WorkerStepOK
  <1>3. ASSUME NEW j \in Jobs, CancelQueued(j) \/ CancelRunning(j) \/ RecordCancelled(j) \/ Join(j)
        PROVE  IInv'
    BY <1>3, CancelQueuedStep, CancelRunningStep, JoinStep
  <1>4. CASE Snapshot \/ Shutdown
    BY <1>4, JoinStep, ShutdownStep
  <1>5. CASE UNCHANGED vars
    BY <1>5, StutterOK
  <1>. QED
    BY <1>1, <1>2, <1>3, <1>4, <1>5, AdmitStep, AdmitRefusedStep DEF Next

\* The invariant holds in every reachable state of the job manager.
THEOREM Invariance == Spec => []IInv
  BY InitOK, StepOK, PTL DEF Spec

\* The counters are the true numbers of running and queued jobs and the limits
\* hold, for all limits that validate() accepts: no path that ends a job
\* (finish, cancel, shutdown, eviction) loses or repeats a decrement, so the
\* saturating subtractions never saturate.
THEOREM AccountingIsExact == Spec => []AccountingExact
  BY Invariance, PTL DEF IInv

\* Two unfinished jobs never apply one plan, the set of locked plans is that of
\* the unfinished apply jobs, and an apply job holds its capability until its
\* worker takes it.
THEOREM ApplyIsExclusive == Spec => []ApplyJobsExclusive
  BY Invariance, PTL DEF IInv

\* What an operator sees as ended is what the history says.
THEOREM HistoryMatchesStatus == Spec => []HistoryAgrees
  BY Invariance, PTL DEF IInv

\* The plans in the store in terms of the invariant.
LEMMA PlansOK == IInv => ArtifactsAgree
  <1>. SUFFICES ASSUME IInv PROVE ArtifactsAgree
    OBVIOUS
  <1>1. ASSUME NEW j \in StrayPlans
        PROVE  outcome[j] = "Failed" /\ status[j] \in {"Failed", "unknown"} /\ j \in Strays
    <2>1. j \in Jobs /\ j \in artifacts /\ thread[j] = "exited" /\ history[j] # "Completed"
      BY <1>1 DEF StrayPlans, IInv, TypeOK
    <2>2. RecordOK(j)
      BY <2>1 DEF IInv, JobsOK
    <2>3. outcome[j] \in {"Completed", "Failed"} /\ outcome[j] # None
      BY <2>1, <2>2, BoundsAssumption DEF RecordOK
    <2>4. outcome[j] = "Failed" /\ status[j] \in {"Failed", "unknown"}
      BY <2>1, <2>2, <2>3 DEF RecordOK
    <2>. QED
      BY <2>1, <2>4 DEF Strays
  <1>2. Cardinality(StrayPlans) <= Cardinality(Strays) /\ Cardinality(StrayPlans) \in Nat
    <2>1. StrayPlans \subseteq Strays /\ Strays \in SUBSET Jobs
      BY <1>1 DEF Strays, IInv, TypeOK
    <2>. QED
      BY <2>1, JobSets, FS_Subset
  <1>3. /\ Cardinality(Strays) \in Nat /\ Cardinality(unrecorded) \in Nat
        /\ faults \in Nat /\ MaxFaults \in Nat
        /\ Cardinality(Strays) + Cardinality(unrecorded) + faults <= MaxFaults
    <2>1. Strays \in SUBSET Jobs /\ unrecorded \in SUBSET Jobs
      BY DEF Strays, IInv, TypeOK
    <2>. QED
      BY <2>1, JobSets, BoundsAssumption DEF IInv, TypeOK, FaultsOK
  <1>4. Cardinality(StrayPlans) + Cardinality(unrecorded) + faults <= MaxFaults
    BY <1>2, <1>3
  <1>. QED
    BY <1>1, <1>4 DEF ArtifactsAgree, IInv, PlansShown

\* A completed plan job has its plan, and a plan left behind by any other job is
\* that of a failed one and has cost a failure of the plan store of its own.
THEOREM PlansMatchHistory == Spec => []ArtifactsAgree
  BY Invariance, PlansOK, PTL

\* No step of a worker, of cancel() or of shutdown() changes the end of a job;
\* only eviction forgets it.
THEOREM EndsAreFinal == Spec => TerminalIsFinal
  <1>1. IInv /\ [Next]_vars =>
          [\A j \in Jobs : status[j] \in Terminal => status'[j] \in {status[j], "unknown"}]_vars
    <2>. SUFFICES ASSUME IInv, Next, NEW i \in Jobs, status[i] \in Terminal
                  PROVE  status'[i] \in {status[i], "unknown"}
      BY DEF TerminalIsFinal
    <2>1. /\ thread[i] # "none" /\ thread[i] \notin Busy /\ status[i] # "Queued"
          /\ status[i] # "Running" /\ status \in [Jobs -> {"unknown", "Queued", "Running"} \cup Terminal]
      BY DEF IInv, TypeOK, JobsOK, PlaceOK, Terminal
    <2>2. ASSUME NEW j \in Jobs, NEW k \in Kinds, NEW plan \in Plans \cup {None}, Admit(j, k, plan)
          PROVE  status'[i] \in {status[i], "unknown"}
      <3>1. i # j /\ status' = [Retained EXCEPT ![j] = "Queued"]
        BY <2>1, <2>2 DEF Admit
      <3>. QED
        BY <3>1, Eviction
    <2>3. ASSUME NEW j \in Jobs, Finish(j) \/ Begin(j) \/ CancelQueued(j)
          PROVE  status'[i] \in {status[i], "unknown"}
      BY <2>1, <2>3 DEF Finish, Begin, CancelQueued, Busy
    <2>4. ASSUME NEW plan \in Plans \cup {None}, AdmitRefused(plan)
          PROVE  status'[i] \in {status[i], "unknown"}
      BY <2>4, Eviction DEF AdmitRefused
    <2>5. CASE Shutdown
      BY <2>1, <2>5 DEF Shutdown
    <2>6. CASE Snapshot
      BY <2>6 DEF Snapshot
    <2>7. ASSUME NEW j \in Jobs,
                 \/ BeginGivesUp(j) \/ BeginWaits(j) \/ JobInputs(j) \/ RecordTerminal(j)
                 \/ \E result \in Terminal : Execute(j, result)
                 \/ Panic(j)
                 \/ \E committed, removed \in BOOLEAN : RecordFails(j, committed, removed)
                 \/ CancelRunning(j) \/ RecordCancelled(j) \/ Join(j)
          PROVE  status'[i] \in {status[i], "unknown"}
      BY <2>7 DEF BeginGivesUp, BeginWaits, JobInputs, RecordTerminal, Execute, Panic,
         RecordFails, CancelRunning, RecordCancelled, Join, locked
    <2>. QED
      BY <2>2, <2>3, <2>4, <2>5, <2>6, <2>7 DEF Next, WorkerStep
  <1>. QED
    BY <1>1, Invariance, PTL DEF Spec, TerminalIsFinal
=============================================================================
