----------------------------- MODULE ApplyGrants -----------------------------
(***************************************************************************)
(* How the web console authorises the apply jobs of one stored plan: a     *)
(* completed dry run leaves a receipt; an operator confirms the receipt    *)
(* and gets a short-lived grant with an idempotency key; the grant admits  *)
(* one job; the job creates the plan's checkpoint, or resumes it           *)
(* (crates/immich-web/src/grants.rs, state_store.rs, jobs/apply.rs, and    *)
(* how crates/immich-executor/src/journal.rs opens the checkpoint).        *)
(*                                                                         *)
(* Receipts and the checkpoint file are durable, grants and spent receipts *)
(* are not.  prepare() reads the stores before confirm() takes the grant   *)
(* lock, and both confirm() and admit_with() look at the monotonic clock   *)
(* before they do.  The wall clock and the monotonic clock advance         *)
(* together; what is stored or compared of the wall clock is its second,   *)
(* while deadlines are instants of the monotonic clock.                    *)
(***************************************************************************)
EXTENDS Naturals, Sequences, FiniteSets

CONSTANTS
    Owners,         \* bindings of authenticated sessions
    Receipts,       \* references of dry-run receipts of the plan
    ReceiptSeconds, \* limits.dry_run_receipt_seconds
    GrantSeconds,   \* limits.production_grant_seconds
    SpentLimit,     \* limits.history_retained_rows
    Second,         \* instants the clocks tell apart in a second
    Start,          \* the instant at which the console is first started
    MaxTime,        \* bound on the clock, in instants
    MaxKeys,        \* bound on the grants given
    MaxCalls,       \* bound on the confirmations, and on the admissions, in flight
    MaxRestarts,    \* bound on the restarts of the console
    None

ASSUME GrantLimits ==
    /\ ReceiptSeconds \in Nat \ {0}
    /\ GrantSeconds \in Nat \ {0}
    /\ SpentLimit \in Nat \ {0}
    /\ Second \in Nat \ {0}
    /\ Start \in Nat
    /\ MaxTime \in Nat
    /\ MaxKeys \in Nat
    /\ MaxCalls \in Nat
    /\ MaxRestarts \in Nat
    /\ None \notin Nat

VARIABLES
    now,        \* the instant
    \* --- durable ---
    receipt,    \* receipt -> completed_unix, a second; None before its dry run
    current,    \* receipts that binding_is_current still accepts
    checkpoint, \* the second the plan's checkpoint file was modified, or None
    runs,       \* receipts of the runs that opened the checkpoint, in order
    settled,    \* positions of the runs that changed the time of the file
    restarts,
    \* --- one process ---
    calls,      \* calls of confirm() before prepare(): [owner, receipt, since]
    preparing,  \* confirmations between prepare() and the lock
    entries,    \* GrantState.entries: owner -> grant or None
    spent,      \* GrantState.spent_receipts
    keys,       \* idempotency keys given so far
    admitting,  \* calls of admit_with() before the lock, with their since
    admitted,   \* apply jobs this process admitted: [job, receipt, at]
    active      \* the plan's unfinished apply job: None or [receipt, phase]

durable == <<receipt, current, checkpoint, runs, settled, restarts>>
process == <<calls, preparing, entries, spent, keys, admitting, admitted, active>>
vars == <<now, durable, process>>

Grant == [receipt : Receipts, key : Nat, deadline : Nat, job : Nat \cup {None}]
Phases == {"queued", "verifying", "opening", "running"}

TypeOK ==
    /\ now \in Nat
    /\ receipt \in [Receipts -> Nat \cup {None}]
    /\ current \subseteq Receipts
    /\ checkpoint \in Nat \cup {None}
    /\ runs \in Seq(Receipts)
    /\ settled \subseteq Nat
    /\ restarts \in Nat
    /\ calls \subseteq [owner : Owners, receipt : Receipts, since : Nat]
    /\ preparing \subseteq [owner : Owners, receipt : Receipts, deadline : Nat]
    /\ entries \in [Owners -> Grant \cup {None}]
    /\ spent \subseteq Receipts
    /\ keys \in Nat
    /\ admitting \subseteq [owner : Owners, receipt : Receipts, key : Nat, since : Nat]
    /\ admitted \subseteq [job : Nat, receipt : Receipts, at : Nat]
    /\ active \in [receipt : Receipts, phase : Phases] \cup {None}

-----------------------------------------------------------------------------
(* The durable stores *)

\* now_unix, and as_secs of a file's time: the second of an instant.
Unix(t) == t \div Second

\* The clocks advance.
Tick ==
    /\ now < MaxTime
    /\ now' = now + 1
    /\ UNCHANGED <<durable, process>>

\* A dry run ended in the second s and its worker has now recorded the receipt.
DryRun(r, s) ==
    /\ receipt[r] = None
    /\ s <= Unix(now)
    /\ receipt' = [receipt EXCEPT ![r] = s]
    /\ current' = current \cup {r}
    /\ UNCHANGED <<now, checkpoint, runs, settled, restarts, process>>

\* Retention drops the row, or the plan, the source or a profile changes.
Drift(r) ==
    /\ r \in current
    /\ current' = current \ {r}
    /\ UNCHANGED <<now, receipt, checkpoint, runs, settled, restarts,
                   process>>

\* Mutant: a receipt of the second in which the checkpoint changed is newer.
NotOlderThanCheckpoint(r) ==
    checkpoint # None => receipt[r] >= checkpoint

\* receipt_is_newer_than_checkpoint
NewerThanCheckpoint(r) ==
    checkpoint # None => receipt[r] > checkpoint

\* validate_receipt_age
AgeValid(r) == receipt[r] <= Unix(now) /\ Unix(now) - receipt[r] <= ReceiptSeconds

-----------------------------------------------------------------------------
(* GrantStore *)

\* confirm is called with a receipt that was shown to the operator.
CallConfirm(o, r) ==
    /\ Cardinality(calls) + Cardinality(preparing) < MaxCalls
    /\ receipt[r] # None
    /\ calls' = calls \cup {[owner |-> o, receipt |-> r, since |-> now]}
    /\ UNCHANGED <<now, durable, preparing, entries, spent, keys, admitting,
                   admitted, active>>

Acceptable(r) == r \in current /\ AgeValid(r) /\ NewerThanCheckpoint(r)

\* confirm_at up to the lock: prepare() accepts the receipt.  The deadline is
\* counted from the instant t at which the call looked at the clock.
Prepare(c, t) ==
    /\ c \in calls
    /\ Acceptable(c.receipt)
    /\ calls' = calls \ {c}
    /\ preparing' = preparing \cup
           {[owner |-> c.owner, receipt |-> c.receipt,
             deadline |-> t + GrantSeconds * Second]}
    /\ UNCHANGED <<now, durable, entries, spent, keys, admitting, admitted, active>>

PrepareRefused(c) ==
    /\ c \in calls
    /\ ~Acceptable(c.receipt)
    /\ calls' = calls \ {c}
    /\ UNCHANGED <<now, durable, preparing, entries, spent, keys, admitting,
                   admitted, active>>

\* confirm_at under the lock: the owner's previous grant is replaced.
Confirm(c) ==
    /\ c \in preparing
    /\ keys < MaxKeys
    /\ preparing' = preparing \ {c}
    /\ \/ /\ c.receipt \in spent
          /\ UNCHANGED <<entries, keys>>
       \/ /\ c.receipt \notin spent
          /\ keys' = keys + 1
          /\ entries' = [entries EXCEPT ![c.owner] =
                 [receipt |-> c.receipt, key |-> keys', deadline |-> c.deadline,
                  job |-> None]]
    /\ UNCHANGED <<now, durable, calls, spent, admitting, admitted, active>>

\* admit_with is called with the receipt and the key that confirm answered.
CallAdmit(o) ==
    /\ entries[o] # None
    /\ Cardinality(admitting) < MaxCalls
    /\ admitting' = admitting \cup
           {[owner |-> o, receipt |-> entries[o].receipt, key |-> entries[o].key,
             since |-> now]}
    /\ UNCHANGED <<now, durable, calls, preparing, entries, spent, keys, admitted,
                   active>>

Remove(o) == entries' = [entries EXCEPT ![o] = None]

\* The call a presents the receipt and the key of its owner's grant.
Presented(a) ==
    /\ entries[a.owner] # None
    /\ entries[a.owner].receipt = a.receipt
    /\ entries[a.owner].key = a.key

\* At the instant t, at which the call looked at the clock.
InTime(a, t) == t < entries[a.owner].deadline

Consumed(a) == entries[a.owner].job # None

\* Mutant: the set of spent receipts is consulted by confirm alone.
SpendableUnchecked(r) == Cardinality(spent) < SpentLimit
Spendable(r) == r \notin spent /\ Cardinality(spent) < SpentLimit

\* admit_locked finds another receipt or key, or answers with the job that the
\* grant admitted before.
AdmitUnchanged(a, t) ==
    /\ a \in admitting
    /\ Presented(a) => InTime(a, t) /\ Consumed(a)
    /\ admitting' = admitting \ {a}
    /\ UNCHANGED <<now, durable, calls, preparing, entries, spent, keys, admitted,
                   active>>

\* The grant is over its deadline, or pending and no longer good for a job,
\* or the job manager refuses the job: it is removed.
AdmitRefused(a, t) ==
    /\ a \in admitting
    /\ Presented(a)
    /\ InTime(a, t) => ~Consumed(a)
    /\ Remove(a.owner)
    /\ admitting' = admitting \ {a}
    /\ UNCHANGED <<now, durable, calls, preparing, spent, keys, admitted, active>>

\* Mutant: the deadline is not looked at.
AdmitLate(a, t) ==
    /\ a \in admitting
    /\ Presented(a)
    /\ ~Consumed(a)
    /\ Spendable(a.receipt)
    /\ a.receipt \in current
    /\ active = None
    /\ spent' = spent \cup {a.receipt}
    /\ entries' = [entries EXCEPT ![a.owner].job = a.key]
    /\ admitted' = admitted \cup {[job |-> a.key, receipt |-> a.receipt, at |-> t]}
    /\ active' = [receipt |-> a.receipt, phase |-> "queued"]
    /\ admitting' = admitting \ {a}
    /\ UNCHANGED <<now, durable, calls, preparing, keys>>

\* The job manager takes the job: it has no unfinished one for this plan
\* (active_checkpoints).  The job is named by the key that admitted it.
Admit(a, t) ==
    /\ a \in admitting
    /\ Presented(a)
    /\ InTime(a, t)
    /\ ~Consumed(a)
    /\ Spendable(a.receipt)
    /\ a.receipt \in current
    /\ active = None
    /\ spent' = spent \cup {a.receipt}
    /\ entries' = [entries EXCEPT ![a.owner].job = a.key]
    /\ admitted' = admitted \cup {[job |-> a.key, receipt |-> a.receipt, at |-> t]}
    /\ active' = [receipt |-> a.receipt, phase |-> "queued"]
    /\ admitting' = admitting \ {a}
    /\ UNCHANGED <<now, durable, calls, preparing, keys>>

\* Logout, or a new login in the same browser.
RevokeOwner(o) ==
    /\ entries[o] # None
    /\ Remove(o)
    /\ UNCHANGED <<now, durable, calls, preparing, spent, keys, admitting, admitted,
                   active>>

-----------------------------------------------------------------------------
(* The apply job: jobs/apply.rs *)

\* execute: the binding is still current; the source is then verified offline.
StartJob ==
    /\ active # None
    /\ active.phase = "queued"
    /\ active.receipt \in current
    /\ active' = [active EXCEPT !.phase = "verifying"]
    /\ UNCHANGED <<now, durable, calls, preparing, entries, spent, keys, admitting,
                   admitted>>

\* apply_checkpoint creates the file or takes the one it finds.  The receipt
\* is not compared with it again.
ApplyCheckpoint ==
    /\ active # None
    /\ active.phase = "verifying"
    /\ active' = [active EXCEPT !.phase = "opening"]
    /\ checkpoint' = IF checkpoint = None THEN Unix(now) ELSE checkpoint
    /\ UNCHANGED <<now, receipt, current, runs, settled, restarts, calls,
                   preparing, entries, spent, keys, admitting, admitted>>

\* The database changes the checkpoint file, now or by writing its log back.
WrittenBack ==
    /\ checkpoint' = Unix(now)
    /\ settled' = settled \cup {Len(runs')}

\* The executor opens the journal in WAL mode.  This initialises an empty
\* file; afterwards what is written goes to another file, and the checkpoint
\* file keeps its time.
OpenJournal ==
    /\ active # None
    /\ active.phase = "opening"
    /\ active' = [active EXCEPT !.phase = "running"]
    /\ runs' = Append(runs, active.receipt)
    /\ \/ /\ runs = <<>>
          /\ WrittenBack
       \/ /\ runs # <<>>
          /\ UNCHANGED <<checkpoint, settled>>
    /\ UNCHANGED <<now, receipt, current, restarts, calls, preparing, entries,
                   spent, keys, admitting, admitted>>

\* The log is written back now and then while the run appends events.
WriteBack ==
    /\ active # None
    /\ active.phase = "running"
    /\ UNCHANGED runs
    /\ WrittenBack
    /\ UNCHANGED <<now, receipt, current, restarts, process>>

\* The job completes, fails or is cancelled, in whatever phase it is; closing
\* the journal writes the log back.
EndJob ==
    /\ active # None
    /\ active' = None
    /\ UNCHANGED runs
    /\ IF active.phase = "running" THEN WrittenBack
                                   ELSE UNCHANGED <<checkpoint, settled>>
    /\ UNCHANGED <<now, receipt, current, restarts, calls, preparing, entries,
                   spent, keys, admitting, admitted>>

\* The process dies, or stops after its jobs ended, and is started again.
Restart ==
    /\ restarts < MaxRestarts
    /\ restarts' = restarts + 1
    /\ calls' = {}
    /\ preparing' = {}
    /\ entries' = [o \in Owners |-> None]
    /\ spent' = {}
    /\ admitting' = {}
    /\ admitted' = {}
    /\ active' = None
    /\ UNCHANGED <<now, receipt, current, checkpoint, runs, settled, keys>>

-----------------------------------------------------------------------------
Init ==
    /\ now = Start
    /\ receipt = [r \in Receipts |-> None]
    /\ current = {}
    /\ checkpoint = None
    /\ runs = <<>>
    /\ settled = {}
    /\ restarts = 0
    /\ calls = {}
    /\ preparing = {}
    /\ entries = [o \in Owners |-> None]
    /\ spent = {}
    /\ keys = 0
    /\ admitting = {}
    /\ admitted = {}
    /\ active = None

Next ==
    \/ Tick
    \/ \E r \in Receipts : Drift(r) \/ \E s \in 0..Unix(now) : DryRun(r, s)
    \/ \E o \in Owners :
          \/ \E r \in Receipts : CallConfirm(o, r)
          \/ CallAdmit(o)
          \/ RevokeOwner(o)
    \/ \E c \in calls :
          PrepareRefused(c) \/ \E t \in c.since..now : Prepare(c, t)
    \/ \E c \in preparing : Confirm(c)
    \/ \E a \in admitting : \E t \in a.since..now :
          Admit(a, t) \/ AdmitRefused(a, t) \/ AdmitUnchanged(a, t)
    \/ StartJob
    \/ ApplyCheckpoint
    \/ OpenJournal
    \/ WriteBack
    \/ EndJob
    \/ Restart

Spec == Init /\ [][Next]_vars

-----------------------------------------------------------------------------
(* Safety *)

\* One process admits at most one job on a receipt, whoever confirmed it, how
\* often and in whatever order with logouts and expiries; and a consumed grant
\* answers a repeated request with that job.
OneJobPerReceipt ==
    /\ \A a, b \in admitted : a.receipt = b.receipt => a = b
    /\ \A o \in Owners : (entries[o] # None /\ entries[o].job # None) =>
           \E a \in admitted :
               a.job = entries[o].job /\ a.receipt = entries[o].receipt

\* Once a run has changed the time of the checkpoint file, its receipt opens
\* the checkpoint never again, in this process or a later one: what the spent
\* receipts forget at a restart the time of the file still knows.
SettledRunIsFinal ==
    \A i \in settled : \A j \in 1..Len(runs) : runs[i] = runs[j] => j <= i

\* A job is admitted only on a receipt that was young when it was confirmed
\* and a confirmation that was young when it was used: when its request looked
\* at the clock, the two windows had not passed since the end of the second of
\* the dry run.  That second is what comparing whole seconds costs; the last
\* instant is lost because both limits are checked between instants.
AuthorizationIsFresh ==
    \A a \in admitted :
        a.at + 1 < (receipt[a.receipt] + 1 + ReceiptSeconds + GrantSeconds) * Second

\* "Resume always requires a new dry-run and confirmation": no receipt lets two
\* runs open the checkpoint.  A run that was killed has left its events in the
\* log, and the file is still older than the run's receipt after the restart.
ResumeNeedsNewDryRun ==
    \A i, j \in 1..Len(runs) : runs[i] = runs[j] => i = j
==============================================================================
