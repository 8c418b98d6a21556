--------------------------- MODULE Console_proofs ---------------------------
(***************************************************************************)
(* Proofs about ApplyGrants and Console, for any number of sessions,       *)
(* receipts, logins, clients, clock ticks and restarts.  The point of the  *)
(* invariant of ApplyGrants is how the two guards against using a receipt  *)
(* twice share the work: within one process the spent receipts, across a   *)
(* restart the time of the checkpoint file.  The console around it takes   *)
(* steps of ApplyGrants only, so what is proved there holds here; and what *)
(* a session or a login leaves behind when it ends cannot be used by a     *)
(* request in flight.                                                      *)
(***************************************************************************)
EXTENDS Console, TLAPS

-----------------------------------------------------------------------------
(* ApplyGrants: the inductive invariant *)

\* A run on receipt r has changed the time of the checkpoint file.
Settled(r) == \E i \in settled : runs[i] = r

\* A receipt that was recorded, in the past.
Known(r) == receipt[r] # None /\ receipt[r] <= Unix(now)

StoresOK ==
    /\ \A r \in current : Known(r)
    /\ checkpoint # None => checkpoint <= Unix(now)

\* The file is at least as young as the receipts of the settled runs.
SettledOK ==
    /\ settled \subseteq 1..Len(runs)
    /\ settled # {} => checkpoint # None
    /\ \A i \in settled :
          Known(runs[i]) /\ receipt[runs[i]] <= checkpoint

\* When a receipt may no longer admit a job: both windows have passed since
\* the end of the second of its dry run.
Limit(r) == (receipt[r] + 1 + ReceiptSeconds + GrantSeconds) * Second

\* The deadline of a confirmation is bounded by its receipt's time.
Bounded(r, deadline) == Known(r) /\ deadline < Limit(r)

\* A confirmed receipt whose run has settled was spent by this process.
PendingOK ==
    /\ \A c \in preparing :
          Bounded(c.receipt, c.deadline) /\ (Settled(c.receipt) => c.receipt \in spent)
    /\ \A o \in Owners : entries[o] # None =>
          /\ Bounded(entries[o].receipt, entries[o].deadline)
          /\ Settled(entries[o].receipt) => entries[o].receipt \in spent

AdmittedOK ==
    \A a \in admitted : a.receipt \in spent /\ Known(a.receipt)

ActiveOK ==
    active # None =>
        /\ active.receipt \in spent
        /\ Known(active.receipt)
        /\ active.phase # "running" => ~Settled(active.receipt)
        /\ active.phase \in {"opening", "running"} => checkpoint # None
        /\ active.phase = "running" =>
              /\ runs # <<>>
              /\ runs[Len(runs)] = active.receipt
              /\ \A i \in settled : runs[i] = active.receipt => i = Len(runs)

IInv ==
    /\ TypeOK
    /\ StoresOK
    /\ SettledOK
    /\ PendingOK
    /\ AdmittedOK
    /\ ActiveOK
    /\ OneJobPerReceipt
    /\ SettledRunIsFinal
    /\ AuthorizationIsFresh

-----------------------------------------------------------------------------
(* Seconds and instants *)

\* An instant lies within its second.
LEMMA WithinSecond ==
  ASSUME NEW t \in Nat
  PROVE  /\ Unix(t) \in Nat
         /\ Second * Unix(t) <= t
         /\ t < Second * (Unix(t) + 1)
  BY GrantLimits DEF Unix

\* Products with a positive number keep the order.
LEMMA ProductOrder ==
  ASSUME NEW i \in Nat, NEW j \in Nat, NEW n \in Nat, i <= j
  PROVE  n * i <= n * j
  OBVIOUS

\* A later instant is in the same second or a later one.
LEMMA UnixMonotone ==
  ASSUME NEW t \in Nat, NEW u \in Nat, t <= u
  PROVE  Unix(t) <= Unix(u)
  <1>1. Unix(t) \in Nat /\ Unix(u) \in Nat /\ Second \in Nat
    BY WithinSecond, GrantLimits
  <1>2. CASE Unix(u) + 1 <= Unix(t)
    <2>1. Second * (Unix(u) + 1) <= Second * Unix(t)
      BY <1>1, <1>2, ProductOrder
    <2>2. Second * (Unix(u) + 1) \in Nat /\ Second * Unix(t) \in Nat
      BY <1>1
    <2>3. u < Second * (Unix(u) + 1) /\ Second * Unix(t) <= t
      BY WithinSecond
    <2>. QED
      BY <2>1, <2>2, <2>3
  <1>. QED
    BY <1>1, <1>2

-----------------------------------------------------------------------------
(* The steps *)

\* The invariant holds at first.
LEMMA InitIInv == Init => IInv
  BY GrantLimits
     DEF Init, IInv, TypeOK, StoresOK, SettledOK, PendingOK, AdmittedOK, ActiveOK,
         OneJobPerReceipt, SettledRunIsFinal, AuthorizationIsFresh

\* What is known of a receipt stays known.
LEMMA KnownKept ==
  ASSUME TypeOK, now' \in Nat, now <= now',
         \A r \in Receipts : Known(r) => receipt'[r] = receipt[r]
  PROVE  \A r \in Receipts :
            /\ Known(r) => Known(r)'
            /\ \A d \in Nat : Bounded(r, d) => Bounded(r, d)'
  <1>1. Unix(now) \in Nat /\ Unix(now') \in Nat /\ Unix(now) <= Unix(now')
    BY WithinSecond, UnixMonotone DEF TypeOK
  <1>2. \A r \in Receipts : Known(r) => Known(r)'
    BY <1>1, GrantLimits DEF TypeOK, Known
  <1>3. \A r \in Receipts : Known(r) => Limit(r)' = Limit(r)
    BY DEF Limit
  <1>. QED
    BY <1>2, <1>3 DEF Bounded

\* Only an open journal settles a run.
LEMMA SettledKept ==
  ASSUME UNCHANGED <<runs, settled>>
  PROVE  \A r \in Receipts : Settled(r)' <=> Settled(r)
  BY DEF Settled

\* A step that adds no confirmation and forgets no spent receipt.
LEMMA PendingFrame ==
  ASSUME IInv, UNCHANGED <<runs, settled, spent>>, now' \in Nat, now <= now',
         \A r \in Receipts : Known(r) => receipt'[r] = receipt[r],
         preparing' \subseteq preparing,
         \A o \in Owners : entries'[o] # None => entries'[o] = entries[o]
  PROVE  PendingOK'
  <1>1. \A r \in Receipts : /\ Settled(r)' <=> Settled(r)
                            /\ \A d \in Nat : Bounded(r, d) => Bounded(r, d)'
    BY KnownKept, SettledKept DEF IInv
  <1>2. /\ \A c \in preparing : c.receipt \in Receipts /\ c.deadline \in Nat
        /\ \A o \in Owners : entries[o] # None =>
              entries[o].receipt \in Receipts /\ entries[o].deadline \in Nat
    BY DEF IInv, TypeOK, Grant
  <1>. QED
    BY <1>1, <1>2 DEF IInv, PendingOK

\* A step that touches neither the stores nor the grants nor the job.
LEMMA QuietStep ==
  ASSUME IInv, TypeOK',
         UNCHANGED <<now, durable, preparing, entries, spent, admitted, active>>
  PROVE  IInv'
  <1>1. UNCHANGED <<receipt, current, checkpoint, runs, settled>>
    BY DEF durable
  <1>2. PendingOK'
    BY <1>1, PendingFrame DEF IInv, TypeOK
  <1>3. \A r \in Receipts : (Known(r)' <=> Known(r)) /\ (Settled(r)' <=> Settled(r))
    BY <1>1 DEF Known, Settled
  <1>4. StoresOK' /\ SettledOK' /\ AdmittedOK'
    BY <1>1 DEF IInv, StoresOK, SettledOK, AdmittedOK, Known
  <1>5. ActiveOK'
    BY <1>1, <1>3 DEF IInv, TypeOK, ActiveOK
  <1>6. OneJobPerReceipt' /\ SettledRunIsFinal' /\ AuthorizationIsFresh'
    BY <1>1 DEF IInv, OneJobPerReceipt, SettledRunIsFinal, AuthorizationIsFresh
  <1>. QED
    BY <1>2, <1>4, <1>5, <1>6 DEF IInv

\* A receipt that is newer than the checkpoint is not one of a settled run.
LEMMA NewerNotSettled ==
  ASSUME IInv, NEW r \in Receipts, NewerThanCheckpoint(r)
  PROVE  ~Settled(r)
  <1>. SUFFICES ASSUME NEW i \in settled, runs[i] = r PROVE FALSE
    BY DEF Settled
  <1>1. /\ checkpoint # None /\ checkpoint \in Nat
        /\ receipt[r] \in Nat /\ receipt[r] <= checkpoint
    BY DEF IInv, TypeOK, SettledOK, Known
  <1>. QED
    BY <1>1 DEF NewerThanCheckpoint

\* Writing the log back to the file of an open journal: the run that has it
\* open becomes settled, and no other.
LEMMA WrittenBackOK ==
  ASSUME IInv, active # None, active.phase = "running", UNCHANGED runs,
         WrittenBack, UNCHANGED <<now, receipt, current, preparing, entries, spent>>
  PROVE  /\ checkpoint' \in Nat
         /\ settled' \subseteq Nat
         /\ StoresOK'
         /\ SettledOK'
         /\ PendingOK'
         /\ SettledRunIsFinal'
         /\ checkpoint' # None
         /\ \A i \in settled' : runs[i] = active.receipt => i = Len(runs)
  <1>. TypeOK
    BY DEF IInv
  <1>1. /\ checkpoint \in Nat
        /\ checkpoint <= Unix(now) /\ Unix(now) \in Nat
        /\ active.receipt \in spent /\ Known(active.receipt) /\ active.receipt \in Receipts
        /\ runs # <<>> /\ runs[Len(runs)] = active.receipt
        /\ \A i \in settled : runs[i] = active.receipt => i = Len(runs)
    BY WithinSecond DEF IInv, TypeOK, ActiveOK, StoresOK
  <1>2. Len(runs) \in Nat /\ Len(runs) \in 1..Len(runs)
    BY <1>1 DEF TypeOK
  <1>3. /\ checkpoint' \in Nat /\ checkpoint' = Unix(now)
        /\ checkpoint' # None
        /\ settled' = settled \cup {Len(runs)}
    BY <1>1, GrantLimits DEF WrittenBack, TypeOK
  <1>4. StoresOK'
    BY <1>3, KnownKept DEF IInv, TypeOK, StoresOK
  <1>5. SettledOK'
    <2>1. \A i \in settled : /\ i \in 1..Len(runs) /\ runs[i] \in Receipts
                             /\ Known(runs[i]) /\ receipt[runs[i]] <= Unix(now)
      BY DEF IInv, SettledOK, TypeOK, Known
    <2>2. receipt[active.receipt] <= Unix(now)
      BY <1>1 DEF Known
    <2>. QED
      BY <2>1, <2>2, <1>1, <1>2, <1>3 DEF SettledOK, Known
  <1>6. PendingOK'
    <2>1. \A r \in Receipts : Settled(r)' => Settled(r) \/ r = active.receipt
      BY <1>1, <1>3 DEF Settled
    <2>. QED
      BY <2>1, <1>1, KnownKept DEF IInv, TypeOK, Grant, PendingOK
  <1>7. SettledRunIsFinal'
    BY <1>2, <1>3 DEF IInv, SettledRunIsFinal
  <1>8. settled' \subseteq Nat
    BY <1>2, <1>3 DEF TypeOK
  <1>. QED
    BY <1>1, <1>3, <1>4, <1>5, <1>6, <1>7, <1>8

\* The passing of time keeps the invariant.
LEMMA TickStep ==
  ASSUME IInv, Tick
  PROVE  IInv'
  <1>. TypeOK
    BY DEF IInv
  <1>. /\ UNCHANGED <<receipt, current, checkpoint, runs, settled, preparing,
                      entries, spent, admitted, active>>
       /\ now' \in Nat /\ now <= now'
    BY DEF Tick, durable, process, TypeOK
  <1>1. TypeOK'
    BY DEF Tick, durable, process, TypeOK
  <1>10. /\ \A r \in Receipts : Known(r) => Known(r)'
         /\ Unix(now) \in Nat /\ Unix(now') \in Nat /\ Unix(now) <= Unix(now')
    BY KnownKept, WithinSecond, UnixMonotone DEF TypeOK
  <1>2. StoresOK'
    BY <1>10 DEF IInv, TypeOK, StoresOK
  <1>3. SettledOK'
    <2>1. \A i \in settled : runs[i] \in Receipts
      BY DEF IInv, TypeOK, SettledOK
    <2>. QED
      BY <1>10, <2>1 DEF IInv, SettledOK
  <1>4. PendingOK'
    BY PendingFrame
  <1>5. AdmittedOK'
    BY <1>10 DEF IInv, TypeOK, AdmittedOK
  <1>6. ActiveOK'
    BY <1>10, SettledKept DEF IInv, TypeOK, ActiveOK
  <1>7. OneJobPerReceipt' /\ SettledRunIsFinal' /\ AuthorizationIsFresh'
    BY DEF IInv, OneJobPerReceipt, SettledRunIsFinal, AuthorizationIsFresh
  <1>. QED
    BY <1>1, <1>2, <1>3, <1>4, <1>5, <1>6, <1>7 DEF IInv

\* Recording a receipt keeps the invariant.
LEMMA DryRunStep ==
  ASSUME IInv, NEW r \in Receipts, NEW t \in 0..Unix(now), DryRun(r, t)
  PROVE  IInv'
  <1>. TypeOK
    BY DEF IInv
  <1>1. TypeOK'
    BY GrantLimits DEF DryRun, durable, process, IInv, TypeOK, Grant, Phases
  <1>2. StoresOK'
    BY GrantLimits DEF DryRun, durable, process, IInv, TypeOK, StoresOK, Known
  <1>3. SettledOK'
    BY GrantLimits
       DEF DryRun, durable, process, IInv, TypeOK, StoresOK, SettledOK, Known
  <1>4. PendingOK'
    BY PendingFrame, GrantLimits
       DEF DryRun, durable, process, IInv, TypeOK, Grant, Known
  <1>5. AdmittedOK'
    BY GrantLimits DEF DryRun, durable, process, IInv, TypeOK, AdmittedOK, Known
  <1>6. ActiveOK'
    BY GrantLimits
       DEF DryRun, durable, process, IInv, TypeOK, ActiveOK, Known, Settled
  <1>7. OneJobPerReceipt'
    BY GrantLimits DEF DryRun, durable, process, IInv, TypeOK, OneJobPerReceipt
  <1>8. SettledRunIsFinal'
    BY GrantLimits DEF DryRun, durable, process, IInv, TypeOK, SettledRunIsFinal
  <1>9. AuthorizationIsFresh'
    BY DEF DryRun, IInv, TypeOK, AuthorizationIsFresh, AdmittedOK, Known, process
  <1>. QED
    BY <1>1, <1>2, <1>3, <1>4, <1>5, <1>6, <1>7, <1>8, <1>9 DEF IInv

\* A receipt that is no longer accepted keeps the invariant.
LEMMA DriftStep ==
  ASSUME IInv, NEW r \in Receipts, Drift(r)
  PROVE  IInv'
  <1>. TypeOK
    BY DEF IInv
  <1>1. TypeOK'
    BY GrantLimits DEF Drift, durable, process, IInv, TypeOK, Grant, Phases
  <1>2. StoresOK'
    BY GrantLimits DEF Drift, durable, process, IInv, TypeOK, StoresOK, Known
  <1>3. SettledOK'
    BY GrantLimits
       DEF Drift, durable, process, IInv, TypeOK, StoresOK, SettledOK, Known
  <1>4. PendingOK'
    BY PendingFrame, GrantLimits
       DEF Drift, durable, process, IInv, TypeOK, Grant, Known
  <1>5. AdmittedOK'
    BY GrantLimits DEF Drift, durable, process, IInv, TypeOK, AdmittedOK, Known
  <1>6. ActiveOK'
    BY GrantLimits
       DEF Drift, durable, process, IInv, TypeOK, ActiveOK, Known, Settled
  <1>7. OneJobPerReceipt'
    BY GrantLimits DEF Drift, durable, process, IInv, TypeOK, OneJobPerReceipt
  <1>8. SettledRunIsFinal'
    BY GrantLimits DEF Drift, durable, process, IInv, TypeOK, SettledRunIsFinal
  <1>9. AuthorizationIsFresh'
    BY DEF Drift, durable, process, IInv, AuthorizationIsFresh
  <1>. QED
    BY <1>1, <1>2, <1>3, <1>4, <1>5, <1>6, <1>7, <1>8, <1>9 DEF IInv

\* Calls of confirm and of admit_with, and those that leave no trace, keep
\* the invariant.
LEMMA CallStep ==
  ASSUME IInv,
         \/ \E o \in Owners : CallAdmit(o) \/ \E r \in Receipts : CallConfirm(o, r)
         \/ \E c \in calls : PrepareRefused(c)
         \/ \E a \in admitting : \E t \in a.since..now : AdmitUnchanged(a, t)
  PROVE  IInv'
  <1>1. UNCHANGED <<now, durable, preparing, entries, spent, keys, admitted, active>>
    BY DEF CallAdmit, CallConfirm, PrepareRefused, AdmitUnchanged
  <1>2. calls' \subseteq [owner : Owners, receipt : Receipts, since : Nat]
    BY DEF CallAdmit, CallConfirm, PrepareRefused, AdmitUnchanged, IInv, TypeOK
  <1>3. admitting' \subseteq [owner : Owners, receipt : Receipts, key : Nat, since : Nat]
    <2>1. \A o \in Owners : entries[o] # None =>
              entries[o].receipt \in Receipts /\ entries[o].key \in Nat
      BY DEF IInv, TypeOK, Grant
    <2>. QED
      BY <2>1 DEF CallAdmit, CallConfirm, PrepareRefused, AdmitUnchanged, IInv, TypeOK
  <1>4. TypeOK'
    BY <1>1, <1>2, <1>3 DEF IInv, TypeOK, durable
  <1>. QED
    BY <1>1, <1>4, QuietStep

\* The age of an accepted receipt bounds the instants at which the call may
\* have looked at the clock, and so the deadline.
LEMMA DeadlineBounded ==
  ASSUME IInv, NEW r \in current, AgeValid(r), NEW t \in Nat, t <= now
  PROVE  Bounded(r, t + GrantSeconds * Second)
  <1>1. Known(r) /\ receipt[r] \in Nat /\ Unix(now) - receipt[r] <= ReceiptSeconds
    BY DEF IInv, TypeOK, StoresOK, Known, AgeValid
  <1>. DEFINE n == receipt[r] + 1 + ReceiptSeconds
              u == Unix(now) + 1
  <1>2. /\ now \in Nat /\ u \in Nat /\ n \in Nat /\ u <= n
        /\ Second \in Nat /\ GrantSeconds \in Nat
    <2>1. now \in Nat /\ Unix(now) \in Nat
      BY WithinSecond DEF IInv, TypeOK
    <2>. QED
      BY <1>1, <2>1, GrantLimits
  <1>3. now < Second * u
    BY WithinSecond DEF IInv, TypeOK
  <1>4. Limit(r) = (n + GrantSeconds) * Second
    BY <1>1, GrantLimits DEF Limit
  <1>. HIDE DEF n, u
  <1>5. Second * u <= Second * n
    BY <1>2, ProductOrder
  <1>6. /\ Second * u \in Nat /\ Second * n \in Nat /\ GrantSeconds * Second \in Nat
        /\ (n + GrantSeconds) * Second = Second * n + GrantSeconds * Second
    BY <1>2
  <1>7. t + GrantSeconds * Second < Limit(r)
    BY <1>2, <1>3, <1>4, <1>5, <1>6
  <1>. QED
    BY <1>1, <1>7 DEF Bounded

\* prepare() keeps the invariant: a receipt it accepts is not one of a
\* settled run.
LEMMA PrepareStep ==
  ASSUME IInv, NEW c \in calls, NEW t \in c.since..now, Prepare(c, t)
  PROVE  IInv'
  <1>. TypeOK
    BY DEF IInv
  <1>. DEFINE d == t + GrantSeconds * Second
              p == [owner |-> c.owner, receipt |-> c.receipt, deadline |-> d]
  <1>1. /\ UNCHANGED <<now, durable, entries, spent, keys, admitting, admitted, active>>
        /\ c.receipt \in current /\ AgeValid(c.receipt) /\ NewerThanCheckpoint(c.receipt)
        /\ calls' = calls \ {c} /\ preparing' = preparing \cup {p}
    BY DEF Prepare, Acceptable
  <1>2. c.owner \in Owners /\ c.receipt \in Receipts /\ t \in Nat /\ t <= now
    BY DEF TypeOK
  <1>3. d \in Nat /\ Bounded(c.receipt, d)
    BY <1>1, <1>2, DeadlineBounded, GrantLimits
  <1>4. ~Settled(c.receipt)
    BY <1>1, <1>2, NewerNotSettled
  <1>. HIDE DEF d
  <1>5. TypeOK'
    BY <1>1, <1>2, <1>3 DEF TypeOK, durable
  <1>6. UNCHANGED <<receipt, current, checkpoint, runs, settled>>
    BY <1>1 DEF durable
  <1>7. \A r \in Receipts : /\ Known(r)' <=> Known(r)
                            /\ Settled(r)' <=> Settled(r)
                            /\ \A n \in Nat : Bounded(r, n) => Bounded(r, n)'
    BY <1>1, <1>6 DEF Known, Settled, Bounded, Limit
  <1>8. PendingOK'
    <2>1. \A q \in preparing : q.receipt \in Receipts /\ q.deadline \in Nat
      BY DEF TypeOK
    <2>2. \A o \in Owners : entries[o] # None =>
              entries[o].receipt \in Receipts /\ entries[o].deadline \in Nat
      BY DEF TypeOK, Grant
    <2>3. ASSUME NEW q \in preparing'
          PROVE  Bounded(q.receipt, q.deadline)' /\ (Settled(q.receipt)' => q.receipt \in spent')
      <3>1. CASE q \in preparing
        BY <3>1, <1>1, <1>7, <2>1 DEF IInv, PendingOK
      <3>2. CASE q = p
        BY <3>2, <1>2, <1>3, <1>4, <1>7
      <3>. QED
        BY <3>1, <3>2, <1>1
    <2>. QED
      BY <1>1, <1>7, <2>2, <2>3 DEF IInv, PendingOK
  <1>9. StoresOK' /\ SettledOK' /\ AdmittedOK'
    BY <1>1, <1>6 DEF IInv, StoresOK, SettledOK, AdmittedOK, Known
  <1>10. ActiveOK'
    BY <1>1, <1>6, <1>7 DEF IInv, TypeOK, ActiveOK
  <1>11. OneJobPerReceipt' /\ SettledRunIsFinal' /\ AuthorizationIsFresh'
    BY <1>1, <1>6 DEF IInv, OneJobPerReceipt, SettledRunIsFinal, AuthorizationIsFresh
  <1>. QED
    BY <1>5, <1>8, <1>9, <1>10, <1>11 DEF IInv

\* confirm() under the lock keeps the invariant.
LEMMA ConfirmStep ==
  ASSUME IInv, NEW c \in preparing, Confirm(c)
  PROVE  IInv'
  <1>. TypeOK
    BY DEF IInv
  <1>1. TypeOK'
    BY GrantLimits DEF Confirm, durable, process, IInv, TypeOK, Grant, Phases
  <1>2. StoresOK'
    BY GrantLimits DEF Confirm, durable, process, IInv, TypeOK, StoresOK, Known
  <1>3. SettledOK'
    BY GrantLimits
       DEF Confirm, durable, process, IInv, TypeOK, StoresOK, SettledOK, Known
  <1>4. PendingOK'
    <2>1. /\ UNCHANGED <<now, receipt, runs, settled, spent>>
          /\ preparing' \subseteq preparing
      BY DEF Confirm, durable
    <2>2. CASE UNCHANGED entries
      BY <2>1, <2>2, PendingFrame DEF TypeOK
    <2>3. CASE ~UNCHANGED entries
      <3>1. entries' = [entries EXCEPT ![c.owner] =
                [receipt |-> c.receipt, key |-> keys', deadline |-> c.deadline, job |-> None]]
        BY <2>3 DEF Confirm
      <3>2. /\ c.owner \in Owners /\ entries \in [Owners -> Grant \cup {None}]
            /\ \A d \in preparing : d.receipt \in Receipts /\ d.deadline \in Nat
            /\ \A o \in Owners : entries[o] # None =>
                  entries[o].receipt \in Receipts /\ entries[o].deadline \in Nat
        BY DEF TypeOK, Grant
      <3>3. /\ entries'[c.owner].receipt = c.receipt /\ entries'[c.owner].deadline = c.deadline
            /\ \A o \in Owners : o # c.owner => entries'[o] = entries[o]
        BY <3>1, <3>2
      <3>4. \A r \in Receipts : /\ Settled(r)' <=> Settled(r)
                                /\ \A n \in Nat : Bounded(r, n) => Bounded(r, n)'
        BY <2>1 DEF Settled, Bounded, Known, Limit
      <3>5. PendingOK
        BY DEF IInv
      <3>6. ASSUME NEW o \in Owners, entries'[o] # None
            PROVE  /\ Bounded(entries[o].receipt, entries[o].deadline)'
                   /\ Settled(entries[o].receipt)' => entries'[o].receipt \in spent'
        <4>1. CASE o = c.owner
          BY <4>1, <2>1, <3>2, <3>3, <3>4, <3>5 DEF PendingOK
        <4>2. CASE o # c.owner
          BY <4>2, <2>1, <3>2, <3>3, <3>4, <3>5, <3>6 DEF PendingOK
        <4>. QED
          BY <4>1, <4>2
      <3>. QED
        BY <2>1, <3>2, <3>4, <3>5, <3>6 DEF PendingOK
    <2>. QED
      BY <2>2, <2>3
  <1>5. AdmittedOK'
    BY GrantLimits DEF Confirm, durable, process, IInv, TypeOK, AdmittedOK, Known
  <1>6. ActiveOK'
    BY GrantLimits
       DEF Confirm, durable, process, IInv, TypeOK, ActiveOK, Known, Settled
  <1>7. OneJobPerReceipt'
    <2>1. admitted' = admitted
      BY DEF Confirm
    <2>2. ASSUME NEW o \in Owners, entries'[o] # None, entries'[o].job # None
          PROVE  entries'[o] = entries[o]
      BY <2>2 DEF Confirm, TypeOK
    <2>. QED
      BY <2>1, <2>2 DEF IInv, OneJobPerReceipt
  <1>8. SettledRunIsFinal'
    BY GrantLimits DEF Confirm, durable, process, IInv, TypeOK, SettledRunIsFinal
  <1>9. AuthorizationIsFresh'
    BY DEF Confirm, durable, process, IInv, AuthorizationIsFresh
  <1>. QED
    BY <1>1, <1>2, <1>3, <1>4, <1>5, <1>6, <1>7, <1>8, <1>9 DEF IInv

\* A refused admission keeps the invariant.
LEMMA RefusedStep ==
  ASSUME IInv, NEW a \in admitting, NEW t \in a.since..now, AdmitRefused(a, t)
  PROVE  IInv'
  <1>. TypeOK
    BY DEF IInv
  <1>1. TypeOK'
    BY GrantLimits
       DEF AdmitRefused, Remove, durable, process, IInv, TypeOK, Grant, Phases
  <1>2. StoresOK'
    BY GrantLimits
       DEF AdmitRefused, Remove, durable, process, IInv, TypeOK, StoresOK,
           Known
  <1>3. SettledOK'
    BY GrantLimits
       DEF AdmitRefused, Remove, durable, process, IInv, TypeOK, StoresOK,
           SettledOK, Known
  <1>4. PendingOK'
    BY PendingFrame, GrantLimits
       DEF AdmitRefused, Remove, durable, process, IInv, TypeOK, Grant, Known
  <1>5. AdmittedOK'
    BY GrantLimits
       DEF AdmitRefused, Remove, durable, process, IInv, TypeOK, AdmittedOK,
           Known
  <1>6. ActiveOK'
    BY GrantLimits
       DEF AdmitRefused, Remove, durable, process, IInv, TypeOK, ActiveOK,
           Known, Settled
  <1>7. OneJobPerReceipt'
    BY GrantLimits
       DEF AdmitRefused, Remove, durable, process, IInv, TypeOK,
           OneJobPerReceipt
  <1>8. SettledRunIsFinal'
    BY GrantLimits
       DEF AdmitRefused, Remove, durable, process, IInv, TypeOK,
           SettledRunIsFinal
  <1>9. AuthorizationIsFresh'
    BY DEF AdmitRefused, durable, process, IInv, AuthorizationIsFresh
  <1>. QED
    BY <1>1, <1>2, <1>3, <1>4, <1>5, <1>6, <1>7, <1>8, <1>9 DEF IInv

\* An admission keeps the invariant.
LEMMA AdmitStep ==
  ASSUME IInv, NEW a \in admitting, NEW t \in a.since..now, Admit(a, t)
  PROVE  IInv'
  <1>. DEFINE o == a.owner
              r == a.receipt
              k == a.key
  <1>. TypeOK
    BY DEF IInv
  <1>. o \in Owners /\ r \in Receipts /\ k \in Nat /\ t \in Nat
    BY DEF TypeOK
  <1>. /\ UNCHANGED <<now, receipt, current, checkpoint, runs, settled, preparing>>
       /\ r \notin spent /\ spent' = spent \cup {r}
       /\ entries[o] # None /\ entries[o].receipt = r /\ t < entries[o].deadline
       /\ entries' = [entries EXCEPT ![o].job = k]
       /\ admitted' = admitted \cup {[job |-> k, receipt |-> r, at |-> t]}
       /\ active' = [receipt |-> r, phase |-> "queued"]
    BY DEF Admit, Presented, InTime, Spendable, durable
  <1>. HIDE DEF o, r, k
  <1>10. entries[o] \in Grant /\ Bounded(r, entries[o].deadline) /\ ~Settled(r)
    BY DEF IInv, TypeOK, PendingOK
  <1>11. /\ entries'[o] = [entries[o] EXCEPT !.job = k]
         /\ \A p \in Owners \ {o} : entries'[p] = entries[p]
    BY DEF TypeOK
  <1>12. entries'[o].receipt = r /\ entries'[o].deadline = entries[o].deadline
         /\ entries'[o].job = k
    BY <1>10, <1>11 DEF Grant
  <1>1. TypeOK'
    <2>1. entries'[o] \in Grant
      BY <1>10, <1>11 DEF Grant, TypeOK
    <2>2. entries' \in [Owners -> Grant \cup {None}]
      BY <2>1, <1>11 DEF TypeOK
    <2>3. admitted' \subseteq [job : Nat, receipt : Receipts, at : Nat]
      BY DEF TypeOK
    <2>4. active' \in [receipt : Receipts, phase : Phases]
      BY DEF Phases
    <2>. QED
      BY <2>2, <2>3, <2>4 DEF Admit, durable, TypeOK
  <1>2. StoresOK'
    BY GrantLimits
       DEF Admit, Presented, InTime, Spendable, durable, process, IInv, TypeOK,
           StoresOK, Known
  <1>3. SettledOK'
    BY GrantLimits
       DEF Admit, Presented, InTime, Spendable, durable, process, IInv, TypeOK,
           StoresOK, SettledOK, Known
  <1>4. PendingOK'
    <2>1. ASSUME NEW p \in Owners, entries'[p] # None
          PROVE  /\ entries[p] # None /\ entries[p] \in Grant
                 /\ entries'[p].receipt = entries[p].receipt
                 /\ entries'[p].deadline = entries[p].deadline
      BY <2>1, <1>11, <1>12 DEF TypeOK
    <2>2. /\ \A c \in preparing : c.receipt \in Receipts /\ c.deadline \in Nat
          /\ \A g \in Grant : g.receipt \in Receipts /\ g.deadline \in Nat
      BY DEF TypeOK, Grant
    <2>3. \A x \in Receipts : /\ Settled(x)' <=> Settled(x)
                            /\ \A d \in Nat : Bounded(x, d) => Bounded(x, d)'
      BY KnownKept, SettledKept DEF TypeOK
    <2>4. PendingOK
      BY DEF IInv
    <2>5. ASSUME NEW c \in preparing
          PROVE  /\ Bounded(c.receipt, c.deadline)'
                 /\ Settled(c.receipt)' => c.receipt \in spent'
      BY <2>2, <2>3, <2>4 DEF PendingOK
    <2>6. ASSUME NEW p \in Owners, entries'[p] # None
          PROVE  (/\ Bounded(entries[p].receipt, entries[p].deadline)
                  /\ Settled(entries[p].receipt) => entries[p].receipt \in spent)'
      BY <2>1, <2>2, <2>3, <2>4, <2>6 DEF PendingOK
    <2>. QED
      BY <2>5, <2>6 DEF PendingOK
  <1>5. AdmittedOK'
    BY <1>10, KnownKept DEF IInv, TypeOK, AdmittedOK, Bounded
  <1>6. ActiveOK'
    BY <1>10, KnownKept, SettledKept DEF IInv, TypeOK, ActiveOK, Bounded
  <1>7. OneJobPerReceipt'
    <2>1. \A b \in admitted : b.receipt # r
      BY DEF IInv, AdmittedOK
    <2>2. [job |-> k, receipt |-> r, at |-> t] \in admitted'
      OBVIOUS
    <2>3. ASSUME NEW p \in Owners, entries'[p] # None, entries'[p].job # None
          PROVE  \E b \in admitted' :
                    b.job = entries'[p].job /\ b.receipt = entries'[p].receipt
      <3>1. CASE p = o
        BY <3>1, <2>2, <1>12
      <3>2. CASE p # o
        BY <3>2, <2>3, <1>11 DEF IInv, OneJobPerReceipt
      <3>. QED
        BY <3>1, <3>2
    <2>4. \A b, d \in admitted' : b.receipt = d.receipt => b = d
      BY <2>1 DEF IInv, OneJobPerReceipt
    <2>. QED
      BY <2>3, <2>4 DEF OneJobPerReceipt
  <1>8. SettledRunIsFinal'
    BY GrantLimits
       DEF Admit, Presented, InTime, Spendable, durable, process, IInv, TypeOK,
           SettledRunIsFinal
  <1>9. AuthorizationIsFresh'
    <2>1. entries[o].deadline \in Nat /\ entries[o].deadline < Limit(r)
      BY <1>10 DEF Grant, Bounded
    <2>2. Limit(r) \in Nat
      <3>1. /\ receipt[r] + 1 + ReceiptSeconds + GrantSeconds \in Nat
            /\ Second \in Nat
        BY <1>10, GrantLimits DEF TypeOK, Bounded, Known
      <3>. QED
        BY <3>1 DEF Limit
    <2>3. t + 1 < Limit(r)
      BY <2>1, <2>2
    <2>. QED
      BY <2>3 DEF IInv, AuthorizationIsFresh, Limit
  <1>. QED
    BY <1>1, <1>2, <1>3, <1>4, <1>5, <1>6, <1>7, <1>8, <1>9 DEF IInv

\* A logout keeps the invariant.
LEMMA RevokeStep ==
  ASSUME IInv, NEW o \in Owners, RevokeOwner(o)
  PROVE  IInv'
  <1>. TypeOK
    BY DEF IInv
  <1>1. TypeOK'
    BY GrantLimits
       DEF RevokeOwner, Remove, durable, process, IInv, TypeOK, Grant, Phases
  <1>2. StoresOK'
    BY GrantLimits
       DEF RevokeOwner, Remove, durable, process, IInv, TypeOK, StoresOK,
           Known
  <1>3. SettledOK'
    BY GrantLimits
       DEF RevokeOwner, Remove, durable, process, IInv, TypeOK, StoresOK,
           SettledOK, Known
  <1>4. PendingOK'
    BY PendingFrame, GrantLimits
       DEF RevokeOwner, Remove, durable, process, IInv, TypeOK, Grant, Known
  <1>5. AdmittedOK'
    BY GrantLimits
       DEF RevokeOwner, Remove, durable, process, IInv, TypeOK, AdmittedOK,
           Known
  <1>6. ActiveOK'
    BY GrantLimits
       DEF RevokeOwner, Remove, durable, process, IInv, TypeOK, ActiveOK,
           Known, Settled
  <1>7. OneJobPerReceipt'
    BY GrantLimits
       DEF RevokeOwner, Remove, durable, process, IInv, TypeOK,
           OneJobPerReceipt
  <1>8. SettledRunIsFinal'
    BY GrantLimits
       DEF RevokeOwner, Remove, durable, process, IInv, TypeOK,
           SettledRunIsFinal
  <1>9. AuthorizationIsFresh'
    BY DEF RevokeOwner, durable, process, IInv, AuthorizationIsFresh
  <1>. QED
    BY <1>1, <1>2, <1>3, <1>4, <1>5, <1>6, <1>7, <1>8, <1>9 DEF IInv

\* The job's first check keeps the invariant.
LEMMA StartJobStep ==
  ASSUME IInv, StartJob
  PROVE  IInv'
  <1>. TypeOK
    BY DEF IInv
  <1>1. TypeOK'
    BY GrantLimits DEF StartJob, durable, process, IInv, TypeOK, Grant, Phases
  <1>2. StoresOK'
    BY GrantLimits DEF StartJob, durable, process, IInv, TypeOK, StoresOK, Known
  <1>3. SettledOK'
    BY GrantLimits
       DEF StartJob, durable, process, IInv, TypeOK, StoresOK, SettledOK,
           Known
  <1>4. PendingOK'
    BY PendingFrame DEF StartJob, durable, TypeOK
  <1>5. AdmittedOK'
    BY GrantLimits DEF StartJob, durable, process, IInv, TypeOK, AdmittedOK, Known
  <1>6. ActiveOK'
    BY GrantLimits
       DEF StartJob, durable, process, IInv, TypeOK, ActiveOK, Known, Settled
  <1>7. OneJobPerReceipt'
    BY GrantLimits DEF StartJob, durable, process, IInv, TypeOK, OneJobPerReceipt
  <1>8. SettledRunIsFinal'
    BY GrantLimits DEF StartJob, durable, process, IInv, TypeOK, SettledRunIsFinal
  <1>9. AuthorizationIsFresh'
    BY DEF StartJob, durable, process, IInv, AuthorizationIsFresh
  <1>. QED
    BY <1>1, <1>2, <1>3, <1>4, <1>5, <1>6, <1>7, <1>8, <1>9 DEF IInv

\* Creating or finding the checkpoint keeps the invariant.
LEMMA ApplyCheckpointStep ==
  ASSUME IInv, ApplyCheckpoint
  PROVE  IInv'
  <1>. TypeOK
    BY DEF IInv
  <1>1. TypeOK'
    BY WithinSecond, GrantLimits DEF ApplyCheckpoint, TypeOK, Phases
  <1>10. Unix(now) \in Nat
    BY WithinSecond DEF TypeOK
  <1>2. StoresOK'
    BY <1>10 DEF ApplyCheckpoint, IInv, StoresOK, Known
  <1>3. SettledOK'
    BY DEF ApplyCheckpoint, IInv, SettledOK, Known
  <1>4. PendingOK'
    BY PendingFrame DEF ApplyCheckpoint, TypeOK
  <1>5. AdmittedOK'
    BY GrantLimits
       DEF ApplyCheckpoint, durable, process, IInv, TypeOK, AdmittedOK, Known
  <1>6. ActiveOK'
    BY <1>10, GrantLimits DEF ApplyCheckpoint, IInv, TypeOK, ActiveOK, Known, Settled
  <1>7. OneJobPerReceipt'
    BY GrantLimits
       DEF ApplyCheckpoint, durable, process, IInv, TypeOK, OneJobPerReceipt
  <1>8. SettledRunIsFinal'
    BY GrantLimits
       DEF ApplyCheckpoint, durable, process, IInv, TypeOK, SettledRunIsFinal
  <1>9. AuthorizationIsFresh'
    BY DEF ApplyCheckpoint, durable, process, IInv, AuthorizationIsFresh
  <1>. QED
    BY <1>1, <1>2, <1>3, <1>4, <1>5, <1>6, <1>7, <1>8, <1>9 DEF IInv

\* Opening the journal keeps the invariant: the receipt of a job that has
\* not yet opened it is not the one of a settled run.
LEMMA OpenJournalStep ==
  ASSUME IInv, OpenJournal
  PROVE  IInv'
  <1>. TypeOK
    BY DEF IInv
  <1>. /\ active # None /\ active \in [receipt : Receipts, phase : Phases]
       /\ active.phase = "opening" /\ active' = [active EXCEPT !.phase = "running"]
       /\ runs' = Append(runs, active.receipt)
       /\ UNCHANGED <<now, receipt, current, preparing, entries, spent, keys, admitted>>
    BY DEF OpenJournal, TypeOK
  <1>10. /\ checkpoint # None /\ checkpoint \in Nat
         /\ checkpoint <= Unix(now) /\ Unix(now) \in Nat
         /\ active.receipt \in spent /\ Known(active.receipt) /\ ~Settled(active.receipt)
    BY WithinSecond DEF IInv, TypeOK, ActiveOK, StoresOK
  <1>11. /\ runs' \in Seq(Receipts) /\ Len(runs') = Len(runs) + 1
         /\ runs'[Len(runs) + 1] = active.receipt
         /\ \A i \in 1..Len(runs) : runs'[i] = runs[i]
         /\ Len(runs) \in Nat
    BY DEF TypeOK
  <1>12. /\ checkpoint' \in Nat
         /\ checkpoint <= checkpoint' /\ checkpoint' <= Unix(now)
         /\ \/ runs = <<>> /\ settled' = settled \cup {Len(runs')}
               /\ checkpoint' = Unix(now)
            \/ runs # <<>> /\ settled' = settled
    BY <1>10 DEF OpenJournal, WrittenBack, TypeOK
  <1>13. settled \subseteq 1..Len(runs)
    BY DEF IInv, SettledOK
  <1>14. \A i \in settled' : i \in settled \/ i = Len(runs')
    BY <1>12
  <1>1. TypeOK'
    <2>2. active' \in [receipt : Receipts, phase : Phases]
      BY DEF Phases
    <2>. QED
      BY <2>2, <1>11, <1>12, <1>14 DEF TypeOK, OpenJournal
  <1>2. StoresOK'
    BY <1>12, KnownKept DEF IInv, TypeOK, StoresOK
  <1>3. SettledOK'
    <2>1. ASSUME NEW i \in settled'
          PROVE  /\ i \in 1..Len(runs') /\ runs'[i] \in Receipts
                 /\ Known(runs'[i]) /\ receipt[runs'[i]] <= checkpoint'
      <3>1. CASE i \in settled
        <4>1. i \in 1..Len(runs) /\ runs'[i] = runs[i] /\ runs[i] \in Receipts
          BY <3>1, <1>11, <1>13 DEF TypeOK
        <4>2. Known(runs[i]) /\ receipt[runs[i]] <= checkpoint
          BY <3>1 DEF IInv, SettledOK
        <4>. QED
          BY <4>1, <4>2, <1>10, <1>11, <1>12 DEF TypeOK, Known
      <3>2. CASE i \notin settled
        <4>1. i = Len(runs) + 1 /\ checkpoint' = Unix(now)
          BY <3>2, <1>11, <1>12
        <4>. QED
          BY <4>1, <1>10, <1>11 DEF Known
      <3>. QED
        BY <3>1, <3>2
    <2>. QED
      BY <2>1, <1>12, GrantLimits DEF SettledOK, Known
  <1>4. PendingOK'
    <2>1. \A r \in Receipts : Settled(r)' => Settled(r) \/ r = active.receipt
      BY <1>11, <1>13, <1>14 DEF Settled
    <2>. QED
      BY <2>1, <1>10, KnownKept DEF IInv, TypeOK, Grant, PendingOK
  <1>5. AdmittedOK'
    BY GrantLimits
       DEF OpenJournal, WrittenBack, durable, process, IInv, TypeOK,
           AdmittedOK, Known
  <1>6. ActiveOK'
    <2>1. active'.receipt = active.receipt /\ active'.phase = "running"
      OBVIOUS
    <2>2. \A i \in settled' : runs'[i] = active.receipt => i = Len(runs')
      BY <1>10, <1>11, <1>13, <1>14 DEF Settled
    <2>3. runs' # <<>> /\ runs'[Len(runs')] = active.receipt
      BY <1>11
    <2>4. checkpoint' # None
      BY <1>12, GrantLimits
    <2>. QED
      BY <2>1, <2>2, <2>3, <2>4, <1>10 DEF ActiveOK, Known
  <1>7. OneJobPerReceipt'
    BY GrantLimits
       DEF OpenJournal, WrittenBack, durable, process, IInv, TypeOK,
           OneJobPerReceipt
  <1>8. SettledRunIsFinal'
    <2>. SUFFICES ASSUME NEW i \in settled', NEW j \in 1..Len(runs'), runs'[i] = runs'[j]
                  PROVE  j <= i
      BY DEF SettledRunIsFinal
    <2>1. CASE i \in settled /\ j \in 1..Len(runs)
      BY <2>1, <1>11, <1>13 DEF IInv, SettledRunIsFinal
    <2>2. CASE i \in settled /\ j = Len(runs')
      BY <2>2, <1>10, <1>11, <1>13 DEF Settled
    <2>3. CASE i = Len(runs')
      BY <2>3, <1>11
    <2>. QED
      BY <2>1, <2>2, <2>3, <1>11, <1>14
  <1>9. AuthorizationIsFresh'
    BY DEF OpenJournal, durable, process, IInv, AuthorizationIsFresh
  <1>. QED
    BY <1>1, <1>2, <1>3, <1>4, <1>5, <1>6, <1>7, <1>8, <1>9 DEF IInv

\* Writing the log back keeps the invariant.
LEMMA WriteBackStep ==
  ASSUME IInv, WriteBack
  PROVE  IInv'
  <1>. TypeOK
    BY DEF IInv
  <1>. /\ active # None /\ active.phase = "running" /\ WrittenBack
       /\ UNCHANGED <<now, receipt, current, runs, preparing, entries, spent, active>>
    BY DEF WriteBack, process
  <1>1. TypeOK'
    BY WrittenBackOK DEF WriteBack, process, TypeOK
  <1>2. StoresOK'
    BY WrittenBackOK
  <1>3. SettledOK'
    BY WrittenBackOK
  <1>4. PendingOK'
    BY WrittenBackOK
  <1>5. AdmittedOK'
    BY GrantLimits
       DEF WriteBack, WrittenBack, durable, process, IInv, TypeOK, AdmittedOK,
           Known
  <1>6. ActiveOK'
    BY WrittenBackOK, KnownKept DEF IInv, TypeOK, ActiveOK
  <1>7. OneJobPerReceipt'
    BY GrantLimits
       DEF WriteBack, WrittenBack, durable, process, IInv, TypeOK,
           OneJobPerReceipt
  <1>8. SettledRunIsFinal'
    BY WrittenBackOK
  <1>9. AuthorizationIsFresh'
    BY DEF WriteBack, durable, process, IInv, AuthorizationIsFresh
  <1>. QED
    BY <1>1, <1>2, <1>3, <1>4, <1>5, <1>6, <1>7, <1>8, <1>9 DEF IInv

\* The end of a job keeps the invariant.
LEMMA EndJobStep ==
  ASSUME IInv, EndJob
  PROVE  IInv'
  <1>. TypeOK
    BY DEF IInv
  <1>. UNCHANGED <<now, receipt, current, runs, restarts, preparing,
                   entries, spent, keys, admitted>>
    BY DEF EndJob
  <1>10. \/ active # None /\ active.phase = "running" /\ WrittenBack
         \/ UNCHANGED <<checkpoint, settled>>
    BY DEF EndJob
  <1>1. TypeOK'
    BY <1>10, WrittenBackOK DEF EndJob, TypeOK
  <1>2. StoresOK'
    <2>1. CASE UNCHANGED <<checkpoint, settled>>
      BY <2>1, KnownKept DEF IInv, TypeOK, StoresOK
    <2>. QED
      BY <2>1, <1>10, WrittenBackOK
  <1>3. SettledOK'
    <2>1. CASE UNCHANGED <<checkpoint, settled>>
      BY <2>1 DEF IInv, SettledOK, Known
    <2>. QED
      BY <2>1, <1>10, WrittenBackOK
  <1>4. PendingOK'
    <2>1. CASE UNCHANGED <<checkpoint, settled>>
      BY <2>1, KnownKept, SettledKept DEF IInv, TypeOK, Grant, PendingOK
    <2>. QED
      BY <2>1, <1>10, WrittenBackOK
  <1>5. AdmittedOK'
    BY GrantLimits
       DEF EndJob, WrittenBack, durable, process, IInv, TypeOK, AdmittedOK,
           Known
  <1>6. ActiveOK'
    BY GrantLimits
       DEF EndJob, WrittenBack, durable, process, IInv, TypeOK, ActiveOK,
           Known, Settled
  <1>7. OneJobPerReceipt'
    BY GrantLimits
       DEF EndJob, WrittenBack, durable, process, IInv, TypeOK,
           OneJobPerReceipt
  <1>8. SettledRunIsFinal'
    <2>1. CASE UNCHANGED <<checkpoint, settled>>
      BY <2>1 DEF IInv, SettledRunIsFinal
    <2>. QED
      BY <2>1, <1>10, WrittenBackOK
  <1>9. AuthorizationIsFresh'
    BY DEF EndJob, durable, process, IInv, AuthorizationIsFresh
  <1>. QED
    BY <1>1, <1>2, <1>3, <1>4, <1>5, <1>6, <1>7, <1>8, <1>9 DEF IInv

\* A restart keeps the invariant.
LEMMA RestartStep ==
  ASSUME IInv, Restart
  PROVE  IInv'
  <1>. TypeOK
    BY DEF IInv
  <1>1. TypeOK'
    BY GrantLimits DEF Restart, durable, process, IInv, TypeOK, Grant, Phases
  <1>2. StoresOK'
    BY GrantLimits DEF Restart, durable, process, IInv, TypeOK, StoresOK, Known
  <1>3. SettledOK'
    BY GrantLimits
       DEF Restart, durable, process, IInv, TypeOK, StoresOK, SettledOK, Known
  <1>4. PendingOK'
    BY GrantLimits
       DEF Restart, durable, process, IInv, TypeOK, PendingOK, Bounded, Known,
           Settled
  <1>5. AdmittedOK'
    BY GrantLimits DEF Restart, durable, process, IInv, TypeOK, AdmittedOK, Known
  <1>6. ActiveOK'
    BY GrantLimits
       DEF Restart, durable, process, IInv, TypeOK, ActiveOK, Known, Settled
  <1>7. OneJobPerReceipt'
    BY GrantLimits DEF Restart, durable, process, IInv, TypeOK, OneJobPerReceipt
  <1>8. SettledRunIsFinal'
    BY GrantLimits DEF Restart, durable, process, IInv, TypeOK, SettledRunIsFinal
  <1>9. AuthorizationIsFresh'
    BY DEF Restart, durable, process, IInv, AuthorizationIsFresh
  <1>. QED
    BY <1>1, <1>2, <1>3, <1>4, <1>5, <1>6, <1>7, <1>8, <1>9 DEF IInv

-----------------------------------------------------------------------------
(* The theorems *)

\* Every step keeps the invariant.
LEMMA NextIInv == IInv /\ [Next]_vars => IInv'
  <1>. SUFFICES ASSUME IInv, [Next]_vars PROVE IInv'
    OBVIOUS
  <1>1. CASE UNCHANGED vars
    BY <1>1
       DEF vars, durable, process, IInv, TypeOK, StoresOK, SettledOK, PendingOK,
           AdmittedOK, ActiveOK, OneJobPerReceipt, SettledRunIsFinal,
           AuthorizationIsFresh, Settled, Known, Bounded, Limit
  <1>2. ASSUME NEW r \in Receipts, Drift(r) \/ \E s \in 0..Unix(now) : DryRun(r, s)
        PROVE  IInv'
    BY <1>2, DriftStep, DryRunStep
  <1>3. ASSUME NEW c \in calls, \E t \in c.since..now : Prepare(c, t) PROVE IInv'
    BY <1>3, PrepareStep
  <1>4. ASSUME NEW a \in admitting, NEW t \in a.since..now,
               Admit(a, t) \/ AdmitRefused(a, t)
        PROVE  IInv'
    BY <1>4, AdmitStep, RefusedStep
  <1>5. ASSUME NEW o \in Owners, RevokeOwner(o) PROVE IInv'
    BY <1>5, RevokeStep
  <1>6. ASSUME NEW c \in preparing, Confirm(c) PROVE IInv'
    BY <1>6, ConfirmStep
  <1>. QED
    BY <1>1, <1>2, <1>3, <1>4, <1>5, <1>6, CallStep, TickStep, StartJobStep,
       ApplyCheckpointStep, OpenJournalStep, WriteBackStep, EndJobStep, RestartStep
       DEF Next

\* The inductive invariant: what the spent receipts and the time of the
\* checkpoint file together know of every receipt that may still be used.
THEOREM Invariance == Spec => []IInv
  BY InitIInv, NextIInv, PTL DEF Spec

\* Every variable keeps its type.
THEOREM TypeCorrect == Spec => []TypeOK
  <1>1. IInv => TypeOK
    BY DEF IInv
  <1>. QED
    BY <1>1, Invariance, PTL

\* A process admits at most one job on a receipt, whatever grants were
\* confirmed on it, by whom and in which order.
THEOREM ReceiptAdmitsOneJob == Spec => []OneJobPerReceipt
  <1>1. IInv => OneJobPerReceipt
    BY DEF IInv
  <1>. QED
    BY <1>1, Invariance, PTL

\* The receipt of a run that changed the time of the checkpoint file opens
\* the checkpoint never again, however often the console is restarted.
THEOREM SettledRunsAreFinal == Spec => []SettledRunIsFinal
  <1>1. IInv => SettledRunIsFinal
    BY DEF IInv
  <1>. QED
    BY <1>1, Invariance, PTL

\* No job is admitted on a request that looked at the clock when both windows
\* had passed since the end of the second of its dry run, however long calls
\* wait between looking at the clock and taking the lock.
THEOREM AuthorizationsAreFresh == Spec => []AuthorizationIsFresh
  <1>1. IInv => AuthorizationIsFresh
    BY DEF IInv
  <1>. QED
    BY <1>1, Invariance, PTL

-----------------------------------------------------------------------------
(* Console: the inductive invariant *)

\* Keys are given in turn: what a grant or a request in flight holds is one
\* that was given already.
KeysOK ==
    /\ \A o \in Owners : entries[o] # None => entries[o].key \in 1..keys
    /\ \A a \in admitting : a.key \in 1..keys

\* A binding that is being revoked has no session and never gets one again.
SessionsOK ==
    /\ \A o \in Owners : session[o] # None => o \in used
    /\ \A o \in revoking \cup revoked : session[o] = None

\* A grant that a revoked session got from a confirmation in flight: its key
\* is younger than that of every request which may still be admitted.
RevokedOK ==
    \A o \in revoked : entries[o] # None =>
        /\ entries[o].job = None
        /\ \A a \in admitting : a.owner = o => a.key # entries[o].key

\* A state token is in the hands of the provider, of one callback, or gone.
LoginsOK ==
    /\ \A l \in Logins :
          pending[l] # None => made[l] = 0 /\ \A c \in callback : c.login # l
    /\ \A c \in callback : made[c.login] = 0
    /\ \A c, d \in callback : c.login = d.login => c = d

ConsoleIInv ==
    /\ IInv
    /\ ConsoleTypeOK
    /\ KeysOK
    /\ SessionsOK
    /\ RevokedOK
    /\ LoginsOK
    /\ OneSessionPerLogin

-----------------------------------------------------------------------------
(* A step of the console is a step of ApplyGrants, or leaves it alone *)

\* Every step of the console, seen in the variables of ApplyGrants, is a step
\* of that module or none.
LEMMA StepOfGrants ==
  ASSUME ConsoleIInv, ConsoleNext
  PROVE  [Next]_vars
  <1>1. CASE Background
    BY <1>1 DEF Background, Next
  <1>2. CASE ConsoleRestart
    BY <1>2 DEF ConsoleRestart, Next
  <1>3. ASSUME NEW o \in Owners, NEW r \in Receipts, ConfirmRequest(o, r) PROVE [Next]_vars
    BY <1>3 DEF ConfirmRequest, Next
  <1>4. ASSUME NEW o \in Owners, Revoke(o) PROVE [Next]_vars
    BY <1>4 DEF Revoke, Next
  <1>5. ASSUME NEW o \in Owners, ApplyRequest(o) PROVE [Next]_vars
    BY <1>5 DEF ApplyRequest, Next
  <1>6. ASSUME NEW p \in Peers, PairDenied(p) \/ \E o \in Owners : Pair(p, o)
        PROVE  UNCHANGED vars
    BY <1>6 DEF PairDenied, Pair
  <1>7. ASSUME NEW l \in Logins, NEW p \in Peers,
               TakeState(l, p) \/ \E previous \in used \cup {None} : BeginLogin(l, p, previous)
        PROVE  UNCHANGED vars
    BY <1>7 DEF TakeState, BeginLogin
  <1>8. ASSUME NEW c \in callback,
               \/ CallbackFails(c)
               \/ \E cookie \in used \cup {None} :
                     \/ EstablishRefused(c, cookie)
                     \/ \E k \in Logins, o \in Owners : EstablishSession(c, k, cookie, o)
        PROVE  UNCHANGED vars
    BY <1>8 DEF CallbackFails, EstablishRefused, EstablishSession
  <1>9. ASSUME NEW o \in Owners, Logout(o) PROVE UNCHANGED vars
    BY <1>9 DEF Logout
  <1>10. CASE BootstrapExpires
    BY <1>10 DEF BootstrapExpires
  <1>. QED
    BY <1>1, <1>2, <1>3, <1>4, <1>5, <1>6, <1>7, <1>8, <1>9, <1>10 DEF ConsoleNext

\* So the console keeps the invariant of ApplyGrants.
LEMMA GrantsKept ==
  ASSUME ConsoleIInv, ConsoleNext
  PROVE  IInv' /\ TypeOK'
  BY StepOfGrants, NextIInv DEF ConsoleIInv, IInv

-----------------------------------------------------------------------------
(* What the parts of the invariant depend on *)

\* The sessions after expire_sessions: some have gone, none has come.
LEMMA Expiry ==
  ASSUME ConsoleIInv
  PROVE  /\ Kept \in [Owners -> [created : Nat, seen : Nat] \cup {None}]
         /\ \A o \in Owners : Kept[o] # None => session[o] # None
         /\ \A o \in Owners : Alive(o) => Kept[o] = session[o]
  BY DEF Kept, Alive, ConsoleIInv, ConsoleTypeOK

\* A request authenticates: its session stays, and was not revoked.
LEMMA Authenticated ==
  ASSUME ConsoleIInv, NEW o \in Owners, Alive(o), Seen(o)
  PROVE  /\ o \in used /\ o \notin revoking /\ o \notin revoked
         /\ session' \in [Owners -> [created : Nat, seen : Nat] \cup {None}]
         /\ \A p \in Owners : session'[p] # None => session[p] # None
  <1>1. session[o] # None /\ session[o] \in [created : Nat, seen : Nat]
    BY DEF Alive, ConsoleIInv, ConsoleTypeOK
  <1>2. o \in used /\ o \notin revoking /\ o \notin revoked
    BY <1>1 DEF ConsoleIInv, SessionsOK
  <1>3. Kept[o] \in [created : Nat, seen : Nat]
    BY <1>1, Expiry
  <1>4. now \in Nat
    BY DEF ConsoleIInv, ConsoleTypeOK, TypeOK
  <1>5. session' = [Kept EXCEPT ![o].seen = now]
    BY DEF Seen
  <1>. QED
    BY <1>1, <1>2, <1>3, <1>4, <1>5, Expiry

\* A step that gives no session and revokes none.
LEMMA SessionsFrame ==
  ASSUME ConsoleIInv, UNCHANGED used,
         \A o \in Owners : session'[o] # None => session[o] # None,
         revoking' \cup revoked' \subseteq revoking \cup revoked
  PROVE  SessionsOK'
  <1>1. revoking \cup revoked \subseteq Owners
    BY DEF ConsoleIInv, ConsoleTypeOK
  <1>. QED
    BY <1>1 DEF ConsoleIInv, SessionsOK

\* A step that leaves the grants and the requests alone.
LEMMA GrantsFrame ==
  ASSUME ConsoleIInv, UNCHANGED <<entries, keys>>, admitting' \subseteq admitting,
         revoked' \subseteq revoked
  PROVE  KeysOK' /\ RevokedOK'
  BY DEF ConsoleIInv, KeysOK, RevokedOK

\* A step that leaves the logins alone.
LEMMA LoginsFrame ==
  ASSUME ConsoleIInv, UNCHANGED <<pending, callback, made>>
  PROVE  LoginsOK' /\ OneSessionPerLogin'
  BY DEF ConsoleIInv, LoginsOK, OneSessionPerLogin

-----------------------------------------------------------------------------
(* The steps *)

\* admit_apply under the grant lock: the key of a request that was in flight
\* when its session was revoked opens nothing.
LEMMA AdmissionStep ==
  ASSUME ConsoleIInv, NEW a \in admitting, NEW t \in a.since..now,
         Admit(a, t) \/ AdmitRefused(a, t), UNCHANGED revoked
  PROVE  KeysOK' /\ RevokedOK'
  <1>1. admitting' = admitting \ {a} /\ keys' = keys
    BY DEF Admit, AdmitRefused
  <1>2. /\ a.owner \in Owners /\ entries \in [Owners -> Grant \cup {None}]
        /\ revoked \subseteq Owners
    BY DEF ConsoleIInv, ConsoleTypeOK, TypeOK
  <1>3. CASE Admit(a, t)
    <2>1. /\ entries[a.owner] # None /\ entries[a.owner].key = a.key
          /\ entries' = [entries EXCEPT ![a.owner].job = a.key]
      BY <1>3 DEF Admit, Presented
    <2>2. a.owner \notin revoked
      BY <2>1 DEF ConsoleIInv, RevokedOK
    <2>3. entries[a.owner] \in Grant
      BY <1>2, <2>1
    <2>4. \A o \in Owners : IF o = a.owner THEN entries'[o].key = entries[o].key
                                           ELSE entries'[o] = entries[o]
      BY <1>2, <2>1, <2>3 DEF Grant
    <2>5. KeysOK'
      BY <1>1, <2>1, <2>4 DEF ConsoleIInv, KeysOK
    <2>6. RevokedOK'
      BY <1>1, <1>2, <2>2, <2>4 DEF ConsoleIInv, RevokedOK
    <2>. QED
      BY <2>5, <2>6
  <1>4. CASE AdmitRefused(a, t)
    <2>1. entries' = [entries EXCEPT ![a.owner] = None]
      BY <1>4 DEF AdmitRefused, Remove
    <2>2. \A o \in Owners : entries'[o] # None => entries'[o] = entries[o]
      BY <1>2, <2>1
    <2>. QED
      BY <1>1, <1>2, <2>2 DEF ConsoleIInv, KeysOK, RevokedOK
  <1>. QED
    BY <1>3, <1>4

\* The steps that look at no session keep the invariant.
LEMMA BackgroundStep ==
  ASSUME ConsoleIInv, Background, TypeOK'
  PROVE  ConsoleTypeOK' /\ KeysOK' /\ SessionsOK' /\ RevokedOK' /\ LoginsOK' /\ OneSessionPerLogin'
  <1>1. UNCHANGED access
    BY DEF Background
  <1>2. ConsoleTypeOK'
    BY <1>1 DEF ConsoleIInv, ConsoleTypeOK, access
  <1>3. SessionsOK' /\ LoginsOK' /\ OneSessionPerLogin'
    BY <1>1, SessionsFrame, LoginsFrame DEF access
  <1>4. ASSUME UNCHANGED <<entries, keys>> /\ admitting' \subseteq admitting
        PROVE  KeysOK' /\ RevokedOK'
    BY <1>1, <1>4, GrantsFrame DEF access
  <1>5. ASSUME NEW c \in preparing, Confirm(c), ~UNCHANGED <<entries, keys>>
        PROVE  KeysOK' /\ RevokedOK'
    <2>. admitting' = admitting
      BY <1>5 DEF Confirm
    <2>1. /\ c.owner \in Owners /\ keys \in Nat /\ entries \in [Owners -> Grant \cup {None}]
      BY DEF ConsoleIInv, ConsoleTypeOK, TypeOK
    <2>2. /\ keys' = keys + 1
          /\ entries' = [entries EXCEPT ![c.owner] =
                [receipt |-> c.receipt, key |-> keys', deadline |-> c.deadline, job |-> None]]
      BY <1>5 DEF Confirm
    <2>3. \A a \in admitting : a.key \in 1..keys
      BY DEF ConsoleIInv, KeysOK
    <2>4. \A o \in Owners : \/ o # c.owner /\ entries'[o] = entries[o]
                            \/ o = c.owner /\ entries'[o].key = keys + 1 /\ entries'[o].job = None
      BY <2>1, <2>2
    <2>5. KeysOK'
      <3>1. 1..keys \subseteq 1..keys' /\ keys + 1 \in 1..keys'
        BY <2>1, <2>2
      <3>. QED
        BY <1>1, <2>3, <2>4, <3>1 DEF ConsoleIInv, KeysOK, access
    <2>6. keys + 1 \notin 1..keys
      BY <2>1
    <2>7. revoked \subseteq Owners
      BY DEF ConsoleIInv, ConsoleTypeOK
    <2>. QED
      BY <1>1, <2>3, <2>4, <2>5, <2>6, <2>7 DEF ConsoleIInv, RevokedOK, access
  <1>6. ASSUME NEW a \in admitting, NEW t \in a.since..now, Admit(a, t) \/ AdmitRefused(a, t)
        PROVE  KeysOK' /\ RevokedOK'
    BY <1>1, <1>6, AdmissionStep DEF access
  <1>7. ASSUME NEW a \in admitting, NEW t \in a.since..now, AdmitUnchanged(a, t)
        PROVE  UNCHANGED <<entries, keys>> /\ admitting' \subseteq admitting
    BY <1>7 DEF AdmitUnchanged
  <1>8. ASSUME NEW c \in calls, PrepareRefused(c) \/ \E t \in c.since..now : Prepare(c, t)
        PROVE  UNCHANGED <<entries, keys, admitting>>
    BY <1>8 DEF PrepareRefused, Prepare
  <1>9. ASSUME NEW c \in preparing, Confirm(c)
        PROVE  admitting' = admitting
    BY <1>9 DEF Confirm
  <1>10. ASSUME \/ Tick \/ StartJob \/ ApplyCheckpoint \/ OpenJournal \/ WriteBack \/ EndJob
                \/ \E r \in Receipts : Drift(r) \/ \E s \in 0..Unix(now) : DryRun(r, s)
         PROVE  UNCHANGED <<entries, keys, admitting>>
    BY <1>10 DEF Tick, Drift, DryRun, StartJob, ApplyCheckpoint, OpenJournal,
                 WriteBack, EndJob, process
  <1>11. KeysOK' /\ RevokedOK'
    BY <1>4, <1>5, <1>6, <1>7, <1>8, <1>9, <1>10 DEF Background
  <1>. QED
    BY <1>2, <1>3, <1>11

\* A restart forgets every session, pairing and login.
LEMMA RestartedStep ==
  ASSUME ConsoleIInv, ConsoleRestart, TypeOK'
  PROVE  ConsoleTypeOK' /\ KeysOK' /\ SessionsOK' /\ RevokedOK' /\ LoginsOK' /\ OneSessionPerLogin'
  <1>1. /\ entries' = [o \in Owners |-> None] /\ session' = [o \in Owners |-> None]
        /\ pending' = [l \in Logins |-> None] /\ callback' = {} /\ admitting' = {} /\ revoking' = {}
        /\ UNCHANGED <<mode, used, made, revoked>>
        /\ bootstrap' = IF mode = "loopback" THEN now ELSE None
    BY DEF ConsoleRestart, Restart
  <1>2. ConsoleTypeOK'
    <2>1. bootstrap' \in Nat \cup {None}
      BY <1>1 DEF ConsoleIInv, ConsoleTypeOK, TypeOK
    <2>. QED
      BY <1>1, <2>1 DEF ConsoleIInv, ConsoleTypeOK
  <1>3. revoked \subseteq Owners
    BY DEF ConsoleIInv, ConsoleTypeOK
  <1>. QED
    BY <1>1, <1>2, <1>3
       DEF ConsoleIInv, KeysOK, SessionsOK, RevokedOK, LoginsOK, OneSessionPerLogin

\* Pairing, and the end of the bootstrap secret.
LEMMA PairingStep ==
  ASSUME ConsoleIInv, TypeOK',
         \/ BootstrapExpires
         \/ \E p \in Peers : PairDenied(p) \/ \E o \in Owners : Pair(p, o)
  PROVE  ConsoleTypeOK' /\ KeysOK' /\ SessionsOK' /\ RevokedOK' /\ LoginsOK' /\ OneSessionPerLogin'
  <1>1. /\ UNCHANGED <<vars, pending, callback, made, revoking, revoked>>
        /\ bootstrap' = bootstrap \/ bootstrap' = None
        /\ \/ UNCHANGED <<session, used>>
           \/ \E o \in Owners : Established(o, session)
    BY DEF BootstrapExpires, PairDenied, Pair
  <1>2. KeysOK' /\ RevokedOK' /\ LoginsOK' /\ OneSessionPerLogin'
    BY <1>1, GrantsFrame, LoginsFrame DEF vars, process
  <1>3. CASE UNCHANGED <<session, used>>
    <2>1. ConsoleTypeOK'
      BY <1>1, <1>3 DEF ConsoleIInv, ConsoleTypeOK
    <2>. QED
      BY <1>1, <1>2, <1>3, <2>1, SessionsFrame
  <1>4. CASE \E o \in Owners : Established(o, session)
    <2>1. PICK o \in Owners : Established(o, session)
      BY <1>4
    <2>2. now \in Nat /\ session \in [Owners -> [created : Nat, seen : Nat] \cup {None}]
      BY DEF ConsoleIInv, ConsoleTypeOK, TypeOK
    <2>3. /\ session' \in [Owners -> [created : Nat, seen : Nat] \cup {None}]
          /\ used' = used \cup {o} /\ o \notin used
          /\ \A p \in Owners : p # o => session'[p] = session[p]
      BY <2>1, <2>2 DEF Established
    <2>4. ConsoleTypeOK'
      BY <1>1, <2>3 DEF ConsoleIInv, ConsoleTypeOK
    <2>5. SessionsOK'
      BY <1>1, <2>3 DEF ConsoleIInv, ConsoleTypeOK, SessionsOK
    <2>. QED
      BY <1>2, <2>4, <2>5
  <1>. QED
    BY <1>1, <1>3, <1>4

\* begin, and finish up to its first await: the state token is taken once.
LEMMA LoginStep ==
  ASSUME ConsoleIInv, TypeOK', NEW l \in Logins, NEW p \in Peers,
         TakeState(l, p) \/ \E previous \in used \cup {None} : BeginLogin(l, p, previous)
  PROVE  ConsoleTypeOK' /\ KeysOK' /\ SessionsOK' /\ RevokedOK' /\ LoginsOK' /\ OneSessionPerLogin'
  <1>1. UNCHANGED <<vars, mode, bootstrap, session, used, made, revoking, revoked>>
    BY DEF TakeState, BeginLogin
  <1>2. KeysOK' /\ RevokedOK' /\ SessionsOK' /\ OneSessionPerLogin'
    BY <1>1, GrantsFrame, SessionsFrame DEF vars, process, ConsoleIInv, OneSessionPerLogin
  <1>3. /\ Purged \in [Logins -> [peer : Peers, created : Nat, previous : Owners \cup {None}] \cup {None}]
        /\ \A k \in Logins : Purged[k] # None => pending[k] # None
    BY DEF Purged, Fresh, ConsoleIInv, ConsoleTypeOK
  <1>4. CASE TakeState(l, p)
    <2>1. pending[l] # None /\ pending[l] \in [peer : Peers, created : Nat, previous : Owners \cup {None}]
      BY <1>4 DEF TakeState, Fresh, ConsoleIInv, ConsoleTypeOK
    <2>2. made[l] = 0 /\ \A c \in callback : c.login # l
      BY <2>1 DEF ConsoleIInv, LoginsOK
    <2>3. /\ pending' = [Purged EXCEPT ![l] = None]
          /\ \/ callback' = callback
             \/ callback' = callback \cup {[login |-> l, previous |-> pending[l].previous]}
      BY <1>4 DEF TakeState
    <2>4. ConsoleTypeOK'
      <3>1. callback' \subseteq Callback
        BY <2>1, <2>3 DEF Callback, ConsoleIInv, ConsoleTypeOK
      <3>. QED
        BY <1>1, <1>3, <2>3, <3>1 DEF ConsoleIInv, ConsoleTypeOK
    <2>5. LoginsOK'
      <3>1. \A k \in Logins : pending'[k] # None => k # l /\ pending[k] # None
        BY <1>3, <2>3
      <3>2. \A c \in callback' : c \in callback \/ (c.login = l /\ callback' = callback \cup {c})
        BY <2>3
      <3>. QED
        BY <1>1, <2>2, <3>1, <3>2 DEF ConsoleIInv, LoginsOK
    <2>. QED
      BY <1>2, <2>4, <2>5
  <1>5. CASE \E previous \in used \cup {None} : BeginLogin(l, p, previous)
    <2>1. PICK previous \in used \cup {None} : BeginLogin(l, p, previous)
      BY <1>5
    <2>2. /\ made[l] = 0 /\ \A c \in callback : c.login # l
          /\ callback' = callback
          /\ pending' = [Purged EXCEPT ![l] = [peer |-> p, created |-> now, previous |-> previous]]
      BY <2>1 DEF BeginLogin
    <2>3. ConsoleTypeOK'
      <3>1. [peer |-> p, created |-> now, previous |-> previous]
              \in [peer : Peers, created : Nat, previous : Owners \cup {None}]
        BY DEF ConsoleIInv, ConsoleTypeOK, TypeOK
      <3>. QED
        BY <1>1, <1>3, <2>2, <3>1 DEF ConsoleIInv, ConsoleTypeOK
    <2>4. LoginsOK'
      <3>1. \A k \in Logins : pending'[k] # None => k = l \/ pending[k] # None
        BY <1>3, <2>2
      <3>. QED
        BY <1>1, <2>2, <3>1 DEF ConsoleIInv, LoginsOK
    <2>. QED
      BY <1>2, <2>3, <2>4
  <1>. QED
    BY <1>4, <1>5

\* The end of a callback: with a session, without one, or refused.
LEMMA CallbackStep ==
  ASSUME ConsoleIInv, TypeOK', NEW c \in callback, NEW cookie \in used \cup {None},
         \/ CallbackFails(c)
         \/ EstablishRefused(c, cookie)
         \/ \E k \in Logins, o \in Owners : EstablishSession(c, k, cookie, o)
  PROVE  ConsoleTypeOK' /\ KeysOK' /\ SessionsOK' /\ RevokedOK' /\ LoginsOK' /\ OneSessionPerLogin'
  <1>. DEFINE previous == IF c.previous # None THEN c.previous ELSE cookie
              left == IF previous = None THEN Kept ELSE [Kept EXCEPT ![previous] = None]
  <1>1. /\ UNCHANGED <<vars, mode, bootstrap, pending, revoked>>
        /\ callback' = callback \ {c}
    BY DEF CallbackFails, EstablishRefused, EstablishSession
  <1>2. KeysOK' /\ RevokedOK'
    BY <1>1, GrantsFrame DEF vars, process
  <1>3. c.login \in Logins /\ previous \in Owners \cup {None} /\ made \in [Logins -> Nat]
    BY DEF ConsoleIInv, ConsoleTypeOK, Callback
  <1>4. /\ left \in [Owners -> [created : Nat, seen : Nat] \cup {None}]
        /\ \A o \in Owners : left[o] # None => session[o] # None /\ o # previous
    BY <1>3, Expiry, ConsoleLimits
  <1>. HIDE DEF left, previous
  <1>5. made[c.login] = 0 /\ \A d \in callback' : d.login # c.login
    BY <1>1 DEF ConsoleIInv, LoginsOK
  <1>6. CASE CallbackFails(c) \/ EstablishRefused(c, cookie)
    <2>1. /\ UNCHANGED <<used, made, revoking>>
          /\ session' = session \/ session' = left
      BY <1>6 DEF CallbackFails, EstablishRefused, left, previous
    <2>2. ConsoleTypeOK'
      BY <1>1, <1>4, <2>1 DEF ConsoleIInv, ConsoleTypeOK
    <2>3. SessionsOK'
      <3>1. \A o \in Owners : session'[o] # None => session[o] # None
        BY <1>4, <2>1
      <3>. QED
        BY <1>1, <2>1, <3>1, SessionsFrame
    <2>4. LoginsOK' /\ OneSessionPerLogin'
      BY <1>1, <2>1 DEF ConsoleIInv, LoginsOK, OneSessionPerLogin
    <2>. QED
      BY <1>2, <2>2, <2>3, <2>4
  <1>7. CASE \E k \in Logins, o \in Owners : EstablishSession(c, k, cookie, o)
    <2>1. PICK k \in Logins, o \in Owners : EstablishSession(c, k, cookie, o)
      BY <1>7
    <2>2. /\ Established(o, left)
          /\ made' = [made EXCEPT ![c.login] = @ + 1]
          /\ revoking' = IF previous # None /\ Alive(previous)
                         THEN revoking \cup {previous} ELSE revoking
      BY <2>1 DEF EstablishSession, left, previous
    <2>3. now \in Nat
      BY DEF ConsoleIInv, ConsoleTypeOK, TypeOK
    <2>4. /\ session' \in [Owners -> [created : Nat, seen : Nat] \cup {None}]
          /\ used' = used \cup {o} /\ o \notin used
          /\ \A p \in Owners : p # o => session'[p] = left[p]
      BY <1>4, <2>2, <2>3 DEF Established
    <2>5. revoking' \subseteq used /\ revoking' \subseteq revoking \cup {previous}
      <3>1. previous # None /\ Alive(previous) => previous \in used
        BY <1>3 DEF Alive, ConsoleIInv, SessionsOK
      <3>. QED
        BY <2>2, <3>1 DEF ConsoleIInv, ConsoleTypeOK
    <2>6. made' \in [Logins -> Nat] /\ made'[c.login] = 1
          /\ \A l \in Logins : l # c.login => made'[l] = made[l]
      BY <1>3, <1>5, <2>2
    <2>7. ConsoleTypeOK'
      BY <1>1, <2>4, <2>5, <2>6 DEF ConsoleIInv, ConsoleTypeOK
    <2>8. SessionsOK'
      <3>1. \A p \in Owners : session'[p] # None => p \in used'
        BY <1>4, <2>4 DEF ConsoleIInv, SessionsOK
      <3>2. ASSUME NEW p \in revoking' \cup revoked' PROVE session'[p] = None
        <4>1. p \in Owners /\ p # o /\ (p = previous \/ p \in revoking \cup revoked)
          BY <1>1, <2>4, <2>5 DEF ConsoleIInv, ConsoleTypeOK
        <4>2. left[p] = None
          BY <1>4, <4>1 DEF ConsoleIInv, SessionsOK
        <4>. QED
          BY <2>4, <4>1, <4>2
      <3>. QED
        BY <3>1, <3>2 DEF SessionsOK
    <2>9. LoginsOK'
      <3>1. pending[c.login] = None /\ \A d \in callback : d.login \in Logins
        BY DEF ConsoleIInv, ConsoleTypeOK, LoginsOK, Callback
      <3>. QED
        BY <1>1, <1>5, <2>6, <3>1 DEF ConsoleIInv, LoginsOK
    <2>10. OneSessionPerLogin'
      BY <2>6 DEF ConsoleIInv, OneSessionPerLogin
    <2>. QED
      BY <1>2, <2>7, <2>8, <2>9, <2>10
  <1>. QED
    BY <1>6, <1>7

\* Authenticated requests: a confirmation, an apply request, logout.
LEMMA RequestStep ==
  ASSUME ConsoleIInv, TypeOK', NEW o \in Owners,
         ApplyRequest(o) \/ Logout(o) \/ \E r \in Receipts : ConfirmRequest(o, r)
  PROVE  ConsoleTypeOK' /\ KeysOK' /\ SessionsOK' /\ RevokedOK' /\ LoginsOK' /\ OneSessionPerLogin'
  <1>1. /\ Alive(o)
        /\ UNCHANGED <<entries, keys, mode, bootstrap, used, pending, callback, made, revoked>>
    BY DEF ApplyRequest, CallAdmit, Logout, ConfirmRequest, CallConfirm, vars, process
  <1>2. LoginsOK' /\ OneSessionPerLogin'
    BY <1>1, LoginsFrame
  <1>3. CASE ApplyRequest(o)
    <2>1. /\ Seen(o) /\ revoking' = revoking /\ entries[o] # None
          /\ admitting' = admitting \cup
                {[owner |-> o, receipt |-> entries[o].receipt, key |-> entries[o].key,
                  since |-> now]}
      BY <1>3 DEF ApplyRequest, CallAdmit
    <2>2. entries[o] \in Grant /\ entries[o].key \in 1..keys
      BY <2>1 DEF ConsoleIInv, ConsoleTypeOK, TypeOK, KeysOK
    <2>3. ConsoleTypeOK'
      BY <1>1, <2>1, Authenticated DEF ConsoleIInv, ConsoleTypeOK
    <2>4. SessionsOK'
      BY <1>1, <2>1, Authenticated, SessionsFrame
    <2>5. KeysOK'
      BY <1>1, <2>1, <2>2 DEF ConsoleIInv, KeysOK
    <2>6. RevokedOK'
      <3>1. o \notin revoked
        BY <1>1, <2>1, Authenticated
      <3>. QED
        BY <1>1, <2>1, <3>1 DEF ConsoleIInv, RevokedOK
    <2>. QED
      BY <1>2, <2>3, <2>4, <2>5, <2>6
  <1>4. CASE Logout(o)
    <2>1. /\ session' = [Kept EXCEPT ![o] = None] /\ revoking' = revoking \cup {o}
          /\ admitting' = admitting
      BY <1>4 DEF Logout, vars, process
    <2>2. o \in used
      BY <1>1 DEF Alive, ConsoleIInv, SessionsOK
    <2>3. /\ session' \in [Owners -> [created : Nat, seen : Nat] \cup {None}]
          /\ session'[o] = None /\ \A p \in Owners : session'[p] # None => session[p] # None
      BY <2>1, Expiry
    <2>4. ConsoleTypeOK'
      BY <1>1, <2>1, <2>2, <2>3 DEF ConsoleIInv, ConsoleTypeOK
    <2>5. SessionsOK'
      BY <1>1, <2>1, <2>3 DEF ConsoleIInv, ConsoleTypeOK, SessionsOK
    <2>. QED
      BY <1>1, <1>2, <2>1, <2>4, <2>5, GrantsFrame
  <1>5. CASE \E r \in Receipts : ConfirmRequest(o, r)
    <2>1. Seen(o) /\ UNCHANGED <<revoking, admitting>>
      BY <1>5 DEF ConfirmRequest, CallConfirm
    <2>2. ConsoleTypeOK'
      BY <1>1, <2>1, Authenticated DEF ConsoleIInv, ConsoleTypeOK
    <2>3. SessionsOK'
      BY <1>1, <2>1, Authenticated, SessionsFrame
    <2>. QED
      BY <1>1, <1>2, <2>1, <2>2, <2>3, GrantsFrame
  <1>. QED
    BY <1>3, <1>4, <1>5

\* The grants of a binding are revoked.
LEMMA RevokeRequestStep ==
  ASSUME ConsoleIInv, TypeOK', NEW o \in Owners, Revoke(o)
  PROVE  ConsoleTypeOK' /\ KeysOK' /\ SessionsOK' /\ RevokedOK' /\ LoginsOK' /\ OneSessionPerLogin'
  <1>1. /\ o \in revoking /\ revoking' = revoking \ {o} /\ revoked' = revoked \cup {o}
        /\ UNCHANGED <<mode, bootstrap, session, used, pending, callback, made, admitting>>
    BY DEF Revoke, RevokeOwner, vars, process
  <1>2. entries \in [Owners -> Grant \cup {None}] /\ revoked \subseteq Owners
    BY DEF ConsoleIInv, ConsoleTypeOK, TypeOK
  <1>3. /\ keys' = keys /\ entries'[o] = None
        /\ \A p \in Owners : entries'[p] # None => entries'[p] = entries[p]
    BY <1>2 DEF Revoke, RevokeOwner, Remove, vars, process
  <1>4. ConsoleTypeOK' /\ LoginsOK' /\ OneSessionPerLogin'
    BY <1>1, LoginsFrame DEF ConsoleIInv, ConsoleTypeOK
  <1>5. SessionsOK'
    BY <1>1 DEF ConsoleIInv, SessionsOK
  <1>6. KeysOK' /\ RevokedOK'
    BY <1>1, <1>2, <1>3 DEF ConsoleIInv, KeysOK, RevokedOK
  <1>. QED
    BY <1>4, <1>5, <1>6

-----------------------------------------------------------------------------
(* The results *)

\* The invariant holds when the console starts.
LEMMA ConsoleInitOK == ConsoleInit => ConsoleIInv
  <1>. SUFFICES ASSUME ConsoleInit PROVE ConsoleIInv
    OBVIOUS
  <1>1. IInv /\ TypeOK /\ entries = [o \in Owners |-> None] /\ admitting = {} /\ now \in Nat
    BY InitIInv, GrantLimits DEF ConsoleInit, IInv, Init
  <1>2. ConsoleTypeOK
    BY <1>1 DEF ConsoleInit, ConsoleTypeOK
  <1>. QED
    BY <1>1, <1>2
       DEF ConsoleInit, ConsoleIInv, KeysOK, SessionsOK, RevokedOK, LoginsOK, OneSessionPerLogin

\* Every step of the console keeps it.
LEMMA ConsoleStepOK == ConsoleIInv /\ [ConsoleNext]_consoleVars => ConsoleIInv'
  <1>1. ASSUME ConsoleIInv, ConsoleNext PROVE ConsoleIInv'
    <2>1. IInv' /\ TypeOK'
      BY <1>1, GrantsKept
    <2>2. ConsoleTypeOK' /\ KeysOK' /\ SessionsOK' /\ RevokedOK' /\ LoginsOK' /\ OneSessionPerLogin'
      <3>1. ASSUME NEW c \in callback,
                   \/ CallbackFails(c)
                   \/ \E cookie \in used \cup {None} :
                         \/ EstablishRefused(c, cookie)
                         \/ \E k \in Logins, o \in Owners : EstablishSession(c, k, cookie, o)
            PROVE  ConsoleTypeOK' /\ KeysOK' /\ SessionsOK' /\ RevokedOK' /\ LoginsOK' /\ OneSessionPerLogin'
        BY <1>1, <2>1, <3>1, CallbackStep
      <3>. QED
        BY <1>1, <2>1, <3>1, BackgroundStep, RestartedStep, PairingStep, LoginStep,
           RequestStep, RevokeRequestStep DEF ConsoleNext
    <2>. QED
      BY <2>1, <2>2 DEF ConsoleIInv
  <1>2. ASSUME ConsoleIInv, UNCHANGED consoleVars PROVE ConsoleIInv'
    <2>1. IInv'
      BY <1>2, NextIInv DEF ConsoleIInv, consoleVars
    <2>2. ConsoleTypeOK'
      BY <1>2, <2>1 DEF ConsoleIInv, ConsoleTypeOK, consoleVars, access, IInv
    <2>. QED
      BY <1>2, <2>1, <2>2, SessionsFrame, GrantsFrame, LoginsFrame
         DEF ConsoleIInv, consoleVars, access, vars, process
  <1>. QED
    BY <1>1, <1>2

\* The invariant holds in every reachable state of the console.
THEOREM ConsoleInvariance == ConsoleSpec => []ConsoleIInv
  BY ConsoleInitOK, ConsoleStepOK, PTL DEF ConsoleSpec

\* The console implements ApplyGrants: no handler, in whatever order the
\* requests in flight take their locks, does to the grants, the receipts or the
\* checkpoint what ApplyGrants does not allow.
THEOREM ConsoleImplementsGrants == ConsoleSpec => Spec
  <1>1. ConsoleInit => Init
    BY DEF ConsoleInit
  <1>2. ConsoleIInv /\ [ConsoleNext]_consoleVars => [Next]_vars
    BY StepOfGrants DEF consoleVars
  <1>. QED
    BY <1>1, <1>2, ConsoleInvariance, PTL DEF ConsoleSpec, Spec

\* So the guarantees of ApplyGrants are those of the console.
COROLLARY ConsoleKeepsGrants ==
  ConsoleSpec => [](OneJobPerReceipt /\ SettledRunIsFinal /\ AuthorizationIsFresh)
  BY ConsoleImplementsGrants, ReceiptAdmitsOneJob, SettledRunsAreFinal,
     AuthorizationsAreFresh, PTL

\* A session whose logout or rotation is complete gets no job admitted, whatever
\* of its requests was in flight: a late confirmation may leave a grant, whose
\* key is younger than every key a request still presents.
THEOREM LogoutsAreFinal == ConsoleSpec => []LogoutIsFinal
  <1>1. ConsoleIInv => LogoutIsFinal
    BY DEF ConsoleIInv, RevokedOK, LogoutIsFinal
  <1>. QED
    BY <1>1, ConsoleInvariance, PTL

\* A login establishes at most one session.
THEOREM LoginsEstablishOneSession == ConsoleSpec => []OneSessionPerLogin
  <1>1. ConsoleIInv => OneSessionPerLogin
    BY DEF ConsoleIInv
  <1>. QED
    BY <1>1, ConsoleInvariance, PTL
=============================================================================
