------------------------ MODULE UploadExecutor_proofs ------------------------
(***************************************************************************)
(* Proofs about UploadExecutor, for every plan, every concurrency, every   *)
(* retry configuration and any number of runs, crashes and late bodies.    *)
(* None of the safety properties is inductive: IInv below adds what each   *)
(* group of operations knows between two awaits.                           *)
(***************************************************************************)
EXTENDS UploadExecutor, FiniteSetTheorems, TLAPS

\* The initial state is well typed.
LEMMA InitTypeOK == Init => TypeOK
  <1>. SUFFICES ASSUME Init PROVE TypeOK
    OBVIOUS
  <1>1. assets \in [Checksums -> AssetType \cup {None}]
    BY DEF Init, AssetType
  <1>2. journal \in [Ops -> EventType]
    BY DEF Init, Event, EventType
  <1>3. report \in ReportType
    BY DEF Init, NewReport, ReportType
  <1>4. /\ pc \in [Groups -> PCs]
        /\ outcomes \in [Groups -> Seq(OutcomeType)]
        /\ request \in [Groups -> {None, "unsent", "sent"} \cup Success]
    BY DEF Init, PCs
  <1>. QED
    BY <1>1, <1>2, <1>3, <1>4, ConfigAssumption DEF Init, TypeOK

\* record_report yields a report again.
LEMMA RecordedType ==
  ASSUME NEW r \in ReportType, NEW out \in OutcomeType
  PROVE  Recorded(r, out) \in ReportType
  <1>1. /\ out.retries \in Nat
        /\ \A kind : Count(out, kind) \in Nat
    BY DEF Count, OutcomeType
  <1>2. \A m, n \in Nat : m + n \in Nat
    OBVIOUS
  <1>. QED
    BY <1>1, <1>2 DEF Recorded, ReportType

\* Acting on a body leaves a well-typed asset store.
LEMMA StoredType ==
  ASSUME TypeOK, NEW op \in Ops, NEW link \in Checksums \cup {None}
  PROVE  Stored(op, link) \in [Checksums -> AssetType \cup {None}]
  <1>1. Sha1[op] \in Checksums
    BY PlanAssumption
  <1>2. [by |-> op, link |-> link] \in AssetType
    BY DEF AssetType
  <1>. QED
    BY <1>1, <1>2 DEF Stored, TypeOK

\* The operation after an operation: the image of a video, or none.
LEMMA AfterType ==
  ASSUME NEW op \in Ops
  PROVE  /\ op \in Videos => After(op) \in Images /\ VideoOf[After(op)] = op
         /\ op \notin Videos => After(op) = None
         /\ After(op) \in Ops \cup {None}
  BY PlanAssumption DEF After, Videos

\* The outcomes of a group with one more are a sequence of outcomes.
LEMMA WithType ==
  ASSUME TypeOK, NEW g \in Groups, cur[g] \in Ops,
         NEW kind \in Success \cup Failure, NEW asset \in Checksums \cup {None}
  PROVE  With(g, kind, asset) \in Seq(OutcomeType)
  <1>1. Outcome(cur[g], kind, asset, retries[g]) \in OutcomeType
    BY DEF TypeOK, Outcome, OutcomeType
  <1>2. outcomes[g] \in Seq(OutcomeType)
    BY DEF TypeOK
  <1>. QED
    BY <1>1, <1>2 DEF With

\* The part of TypeOK that a group's own steps can change.
GroupType ==
    /\ report \in ReportType
    /\ pc \in [Groups -> PCs]
    /\ cur \in [Groups -> Ops \cup {None}]
    /\ retries \in [Groups -> Nat]
    /\ videoId \in [Groups -> Checksums \cup {None}]
    /\ outcomes \in [Groups -> Seq(OutcomeType)]

\* A group that returns its GroupResult keeps its types.
LEMMA FinishType ==
  ASSUME TypeOK, NEW g \in Groups, NEW outs \in Seq(OutcomeType),
         NEW c \in BOOLEAN, Finish(g, outs, c)
  PROVE  GroupType'
  <1>1. report' \in ReportType
    BY DEF TypeOK, Finish, ReportType
  <1>2. pc' \in [Groups -> PCs]
    BY DEF TypeOK, Finish, PCs
  <1>. QED
    BY <1>1, <1>2 DEF TypeOK, Finish, GroupType

\* A group whose operation returned Completed keeps its types.
LEMMA ConcludeType ==
  ASSUME TypeOK, NEW g \in Groups, cur[g] \in Ops,
         NEW kind \in Success \cup Failure, NEW asset \in Checksums \cup {None},
         Conclude(g, kind, asset)
  PROVE  GroupType'
  <1>1. CASE cur[g] \in Videos /\ asset = None
    <2>1. With(g, kind, None) \in Seq(OutcomeType)
      BY WithType
    <2>. QED
      BY <1>1, <2>1, FinishType DEF Conclude
  <1>2. CASE ~(cur[g] \in Videos /\ asset = None)
    <2>. Advance(g)
      BY <1>2 DEF Conclude
    <2>1. With(g, kind, asset) \in Seq(OutcomeType)
      BY WithType
    <2>2. After(cur[g]) \in Ops \cup {None}
      BY AfterType
    <2>3. pc' \in [Groups -> PCs]
      BY <1>2 DEF TypeOK, Conclude, Advance, PCs
    <2>4. outcomes' \in [Groups -> Seq(OutcomeType)]
      BY <1>2, <2>1 DEF TypeOK, Conclude
    <2>5. videoId' \in [Groups -> Checksums \cup {None}]
      BY <1>2 DEF TypeOK, Conclude
    <2>6. /\ cur' \in [Groups -> Ops \cup {None}]
          /\ retries' \in [Groups -> Nat]
          /\ report' \in ReportType
      BY <2>2 DEF TypeOK, Advance
    <2>. QED
      BY <2>3, <2>4, <2>5, <2>6 DEF GroupType
  <1>. QED
    BY <1>1, <1>2

\* A group that waits, or waits for something else, keeps its types.
LEMMA WaitType ==
  ASSUME TypeOK, NEW g \in Groups, NEW loc \in PCs, Wait(g, loc)
  PROVE  GroupType'
  BY DEF TypeOK, Wait, GroupType

-----------------------------------------------------------------------------
(* The inductive invariant *)

Working == {"check", "checkWait", "upload", "uploadWait", "reconcile"}
InLoop == Working \cup {"next"}

\* The operations of its list that a group in its loop has not concluded.
Todo(g) ==
    {op \in Members(g) :
        op = cur[g] \/ (op \in Images /\ VideoOf[op] = cur[g])}

\* An outcome says the truth about the server.
Truthful(out) ==
    /\ out.kind \in Success =>
           out.asset = Sha1[out.op] /\ assets[Sha1[out.op]] # None
    /\ out.kind = "created" => assets[Sha1[out.op]].by = out.op

\* The video of group g is complete, or will be once the outcomes before the
\* n-th are in the journal.
VideoDone(g, n) ==
    \/ Completed(g)
    \/ \E k \in DOMAIN outcomes[g] :
          k < n /\ outcomes[g][k].op = g /\ outcomes[g][k].kind \in Success

\* Where a group is and which operation it is at.
PlaceOK(g) ==
    /\ pc[g] \in {"absent", "pending"} =>
           cur[g] = None /\ videoId[g] = None /\ outcomes[g] = <<>>
    /\ pc[g] \in InLoop => cur[g] \in Members(g) \cup {None}
    /\ pc[g] \in Working => cur[g] \in Members(g) /\ completed[cur[g]] = None

\* The checkpoint as read at the start of the run is still right about every
\* operation the group has yet to conclude.
SnapshotOK(g) ==
    /\ pc[g] = "pending" =>
           \A op \in Members(g) : Completed(op) => completed[op] # None
    /\ pc[g] \in InLoop =>
           \A op \in Todo(g) : Completed(op) => completed[op] # None

\* A status in hand is the server's.
RequestOK(g) ==
    /\ request[g] # None => pc[g] = "upload"
    /\ request[g] \in Success => assets[Sha1[cur[g]]] # None
    /\ request[g] = "created" => assets[Sha1[cur[g]]].by = cur[g]

\* The video identity a group passes on, and that an image always has one.
VideoOK(g) ==
    /\ videoId[g] # None =>
           /\ videoId[g] = Sha1[g]
           /\ assets[Sha1[g]] # None
           /\ VideoDone(g, Len(outcomes[g]) + 1)
    /\ (pc[g] \in InLoop /\ cur[g] \in Images) => videoId[g] # None

\* The outcomes on their way to the journal.
OutcomesOK(g) ==
    /\ \A k \in DOMAIN outcomes[g] :
          LET out == outcomes[g][k] IN
          /\ out.op \in Members(g)
          /\ ~Completed(out.op)
          /\ Truthful(out)
          /\ pc[g] \in InLoop => out.op \notin Todo(g)
          /\ (out.op \in Images /\ out.kind \in Success) => VideoDone(g, k)
    /\ \A k, l \in DOMAIN outcomes[g] :
          outcomes[g][k].op = outcomes[g][l].op => k = l

GroupOK(g) ==
    PlaceOK(g) /\ SnapshotOK(g) /\ RequestOK(g) /\ VideoOK(g) /\ OutcomesOK(g)

RunOK == run # "active" => \A g \in Groups : pc[g] = "absent"

SnapshotTrue ==
    \A op \in Ops : completed[op] # None =>
        Completed(op) /\ completed[op] = Sha1[op]

LateOK ==
    \A u \in late : u.op \in Images =>
        u.link = Sha1[VideoOf[u.op]] /\ assets[Sha1[VideoOf[u.op]]] # None

JournalOK == CompletedOnServer /\ ImageAfterVideo /\ CreatedByOperation

IInv ==
    /\ TypeOK
    /\ RunOK
    /\ SnapshotTrue
    /\ LateOK
    /\ JournalOK
    /\ LinkedToVideo
    /\ \A g \in Groups : GroupOK(g)

-----------------------------------------------------------------------------
(* Type correctness is preserved *)

\* A group has operations of the plan.
LEMMA MembersAreOps ==
  ASSUME NEW g \in Groups
  PROVE  Members(g) \subseteq Ops
  BY PlanAssumption DEF Members, Groups

\* At a place where an operation is worked on there is one.
LEMMA WorkingOp ==
  ASSUME IInv, NEW g \in Groups, pc[g] \in Working
  PROVE  /\ cur[g] \in Members(g)
         /\ cur[g] \in Ops
         /\ Sha1[cur[g]] \in Checksums
         /\ completed[cur[g]] = None
  BY MembersAreOps, PlanAssumption DEF IInv, GroupOK, PlaceOK

\* What a group abandons is the body of an upload.
LEMMA AbandonedType ==
  ASSUME IInv, NEW gs \in SUBSET Groups
  PROVE  Abandoned(gs) \subseteq UploadType
  <1>. SUFFICES ASSUME NEW g \in gs, request[g] = "sent"
                PROVE  Upload(cur[g], videoId[g]) \in UploadType
    BY DEF Abandoned, IInv, TypeOK
  <1>1. pc[g] = "upload"
    BY PlanAssumption DEF IInv, GroupOK, RequestOK
  <1>2. cur[g] \in Ops
    BY <1>1, WorkingOp DEF Working
  <1>. QED
    BY <1>2 DEF IInv, TypeOK, Upload, UploadType

\* What TypeOK says of the variables outside GroupType.
OuterType ==
    /\ assets \in [Checksums -> AssetType \cup {None}]
    /\ late \subseteq UploadType
    /\ journal \in [Ops -> EventType]
    /\ faults \in Nat
    /\ run \in {"idle", "active", "reported"}
    /\ cancelled \in BOOLEAN
    /\ used \in Nat
    /\ completed \in [Ops -> Checksums \cup {None}]
    /\ request \in [Groups -> {None, "unsent", "sent"} \cup Success]

\* Starting, ending, cancelling and losing a run keep the types.
LEMMA TypeStepRun ==
  ASSUME IInv, StartRun \/ EndRun \/ Cancel \/ Crash
  PROVE  TypeOK'
  <1>. TypeOK
    BY DEF IInv
  <1>1. CASE StartRun
    <2>1. {op \in Ops : Completed(op)} \subseteq Ops
      OBVIOUS
    <2>2. Cardinality({op \in Ops : Completed(op)}) \in Nat
      BY <2>1, PlanAssumption, FS_Subset, FS_CardinalityType
    <2>3. report' \in ReportType
      BY <1>1, <2>2 DEF StartRun, NewReport, ReportType
    <2>4. completed' \in [Ops -> Checksums \cup {None}]
      BY <1>1 DEF StartRun, JournalCompleted, CompletedAssets, TypeOK, EventType
    <2>5. pc' \in [Groups -> PCs]
      BY <1>1 DEF StartRun, PCs
    <2>. QED
      BY <1>1, <2>3, <2>4, <2>5 DEF StartRun, TypeOK
  <1>2. CASE EndRun
    BY <1>2 DEF EndRun, groupVars, TypeOK
  <1>3. CASE Cancel
    BY <1>3 DEF Cancel, Fault, groupVars, TypeOK
  <1>4. CASE Crash
    <2>1. late' \subseteq UploadType
      BY <1>4, AbandonedType DEF Crash
    <2>2. pc' \in [Groups -> PCs]
      BY <1>4 DEF Crash, PCs
    <2>3. /\ cur' \in [Groups -> Ops \cup {None}]
          /\ retries' \in [Groups -> Nat]
          /\ videoId' \in [Groups -> Checksums \cup {None}]
          /\ outcomes' \in [Groups -> Seq(OutcomeType)]
          /\ request' \in [Groups -> {None, "unsent", "sent"} \cup Success]
      BY <1>4 DEF Crash
    <2>. QED
      BY <1>4, <2>1, <2>2, <2>3 DEF Crash, Fault, TypeOK
  <1>. QED
    BY <1>1, <1>2, <1>3, <1>4

\* What the server does keeps the types.
LEMMA TypeStepServer ==
  ASSUME IInv
  PROVE  /\ \A g \in Groups : ServerCommit(g) => TypeOK'
         /\ \A u \in late : LateCommit(u) => TypeOK'
  <1>. TypeOK
    BY DEF IInv
  <1>1. ASSUME NEW g \in Groups, ServerCommit(g) PROVE TypeOK'
    <2>1. pc[g] = "upload"
      BY <1>1, PlanAssumption DEF IInv, GroupOK, RequestOK, ServerCommit
    <2>2. cur[g] \in Ops
      BY <2>1, WorkingOp DEF Working
    <2>3. assets' \in [Checksums -> AssetType \cup {None}]
      BY <1>1, <2>2, StoredType DEF ServerCommit, TypeOK
    <2>4. request' \in [Groups -> {None, "unsent", "sent"} \cup Success]
      BY <1>1 DEF ServerCommit, TypeOK, Success
    <2>. QED
      BY <1>1, <2>3, <2>4 DEF ServerCommit, TypeOK, runVars
  <1>2. ASSUME NEW u \in late, LateCommit(u) PROVE TypeOK'
    <2>1. u.op \in Ops /\ u.link \in Checksums \cup {None}
      BY DEF TypeOK, UploadType
    <2>2. assets' \in [Checksums -> AssetType \cup {None}]
      BY <1>2, <2>1, StoredType DEF LateCommit
    <2>. QED
      BY <1>2, <2>2 DEF LateCommit, TypeOK, runVars, groupVars
  <1>. QED
    BY <1>1, <1>2

\* The steps of one operation change what Conclude, Finish or Wait change,
\* and little else.
LEMMA TypeStepOperation ==
  ASSUME IInv, NEW g \in Groups,
         \/ CheckDuplicate(g) \/ CheckAccept(g) \/ CheckCancelled(g)
         \/ RetryDelayOver(g) \/ SendUpload(g) \/ UploadOk(g)
         \/ UploadCancelled(g) \/ ReconcileDuplicate(g) \/ ReconcileUnknown(g)
         \/ \E class \in ErrorClass : CheckError(g, class) \/ UploadError(g, class)
  PROVE  TypeOK'
  <1>. TypeOK
    BY DEF IInv
  <1>1. pc[g] \in Working
    BY DEF Working, At, CheckDuplicate, CheckAccept, CheckCancelled,
           RetryDelayOver, SendUpload, UploadOk, UploadCancelled,
           ReconcileDuplicate, ReconcileUnknown, CheckError, UploadError
  <1>2. cur[g] \in Ops /\ Sha1[cur[g]] \in Checksums
    BY <1>1, WorkingOp
  <1>3. With(g, "indeterminate", None) \in Seq(OutcomeType)
    BY <1>2, WithType DEF Failure
  <1>4. Abandoned({g}) \subseteq UploadType
    BY AbandonedType
  <1>5. CASE CheckDuplicate(g)
    <2>1. GroupType'
      BY <1>5, <1>2, ConcludeType DEF CheckDuplicate, Success
    <2>2. OuterType'
      BY <1>5 DEF CheckDuplicate, OperationFrame, TypeOK, OuterType
    <2>. QED
      BY <2>1, <2>2 DEF TypeOK, OuterType, GroupType
  <1>6. CASE CheckAccept(g)
    <2>1. GroupType'
      BY <1>6, WaitType DEF CheckAccept, PCs
    <2>2. OuterType'
      BY <1>6 DEF CheckAccept, OperationFrame, TypeOK, OuterType
    <2>. QED
      BY <2>1, <2>2 DEF TypeOK, OuterType, GroupType
  <1>7. CASE CheckCancelled(g)
    <2>1. GroupType'
      BY <1>7, FinishType DEF CheckCancelled, CancelGroup, TypeOK
    <2>2. OuterType'
      BY <1>7 DEF CheckCancelled, OperationFrame, TypeOK, OuterType
    <2>. QED
      BY <2>1, <2>2 DEF TypeOK, OuterType, GroupType
  <1>8. CASE RetryDelayOver(g)
    <2>1. pc' \in [Groups -> PCs]
      BY <1>8 DEF RetryDelayOver, TypeOK, PCs
    <2>. QED
      BY <1>8, <2>1 DEF RetryDelayOver, OperationFrame, TypeOK
  <1>9. CASE SendUpload(g)
    BY <1>9 DEF SendUpload, OperationFrame, TypeOK
  <1>10. CASE UploadOk(g)
    <2>1. GroupType'
      BY <1>10, <1>2, ConcludeType DEF UploadOk
    <2>2. OuterType'
      BY <1>10 DEF UploadOk, OperationFrame, TypeOK, OuterType
    <2>. QED
      BY <2>1, <2>2 DEF TypeOK, OuterType, GroupType
  <1>11. CASE UploadCancelled(g)
    <2>1. GroupType'
      BY <1>11, <1>3, FinishType DEF UploadCancelled, CancelGroup
    <2>2. OuterType'
      BY <1>11, <1>4 DEF UploadCancelled, OperationFrame, TypeOK, OuterType
    <2>. QED
      BY <2>1, <2>2 DEF TypeOK, OuterType, GroupType
  <1>12. CASE ReconcileDuplicate(g)
    <2>1. GroupType'
      BY <1>12, <1>2, ConcludeType DEF ReconcileDuplicate, Success
    <2>2. OuterType'
      BY <1>12 DEF ReconcileDuplicate, OperationFrame, TypeOK, OuterType
    <2>. QED
      BY <2>1, <2>2 DEF TypeOK, OuterType, GroupType
  <1>13. CASE ReconcileUnknown(g)
    <2>1. GroupType'
      BY <1>13, <1>2, <1>3, FinishType, ConcludeType
         DEF ReconcileUnknown, CancelGroup, Failure
    <2>2. OuterType'
      BY <1>13 DEF ReconcileUnknown, Fault, OperationFrame, TypeOK, OuterType
    <2>. QED
      BY <2>1, <2>2 DEF TypeOK, OuterType, GroupType
  <1>14. ASSUME NEW class \in ErrorClass, CheckError(g, class) PROVE TypeOK'
    <2>1. GroupType'
      BY <1>14, <1>2, WaitType, ConcludeType DEF CheckError, PCs, Failure
    <2>2. OuterType'
      BY <1>14 DEF CheckError, Fault, Claim, OperationFrame, TypeOK, OuterType
    <2>. QED
      BY <2>1, <2>2 DEF TypeOK, OuterType, GroupType
  <1>15. ASSUME NEW class \in ErrorClass, UploadError(g, class) PROVE TypeOK'
    <2>1. GroupType'
      BY <1>15, <1>2, WaitType, ConcludeType DEF UploadError, PCs, Failure
    <2>2. late' \subseteq UploadType
      BY <1>15, <1>4 DEF UploadError, TypeOK
    <2>3. used' \in Nat /\ faults' \in Nat
      BY <1>15 DEF UploadError, Fault, Claim, TypeOK
    <2>4. OuterType'
      BY <1>15, <2>2, <2>3 DEF UploadError, OperationFrame, TypeOK, OuterType
    <2>. QED
      BY <2>1, <2>4 DEF TypeOK, OuterType, GroupType
  <1>. QED
    BY <1>5, <1>6, <1>7, <1>8, <1>9, <1>10, <1>11, <1>12, <1>13, <1>14, <1>15

\* The head of the loop in apply_group and the journal keep the types.
LEMMA TypeStepLoop ==
  ASSUME IInv, NEW g \in Groups,
         StartGroup(g) \/ NextOperation(g) \/ Append1(g) \/ Collect(g)
  PROVE  TypeOK'
  <1>. TypeOK
    BY DEF IInv
  <1>1. CASE StartGroup(g)
    <2>1. pc' \in [Groups -> PCs]
      BY <1>1 DEF StartGroup, TypeOK, PCs
    <2>. QED
      BY <1>1, <2>1 DEF StartGroup, runVars, TypeOK, Groups
  <1>2. CASE NextOperation(g)
    <2>1. cur[g] \in Ops \cup {None} /\ outcomes[g] \in Seq(OutcomeType)
      BY DEF TypeOK
    <2>2. ASSUME cur[g] # None, Advance(g), UNCHANGED outcomes,
                 videoId' = [videoId EXCEPT ![g] =
                     IF cur[g] \in Videos THEN completed[cur[g]] ELSE @]
          PROVE  GroupType'
      <3>1. After(cur[g]) \in Ops \cup {None}
        BY <2>1, <2>2, AfterType
      <3>2. pc' \in [Groups -> PCs]
        BY <2>2 DEF Advance, TypeOK, PCs
      <3>3. completed[cur[g]] \in Checksums \cup {None}
        BY <2>1, <2>2 DEF TypeOK
      <3>. QED
        BY <2>2, <3>1, <3>2, <3>3 DEF Advance, TypeOK, GroupType
    <2>3. ASSUME pc' = [pc EXCEPT ![g] = "check"],
                 UNCHANGED <<cur, retries, videoId, outcomes, report>>
          PROVE  GroupType'
      BY <2>3 DEF TypeOK, GroupType, PCs
    <2>4. GroupType'
      BY <1>2, <2>1, <2>2, <2>3, FinishType DEF NextOperation, CancelGroup
    <2>5. OuterType'
      BY <1>2 DEF NextOperation, TypeOK, OuterType
    <2>. QED
      BY <2>4, <2>5 DEF TypeOK, OuterType, GroupType
  <1>3. CASE Append1(g)
    <2>. DEFINE out == Head(outcomes[g])
    <2>1. outcomes[g] \in Seq(OutcomeType) /\ outcomes[g] # <<>>
      BY <1>3 DEF Append1, TypeOK
    <2>2. out \in OutcomeType /\ Tail(outcomes[g]) \in Seq(OutcomeType)
      BY <2>1
    <2>3. report' \in ReportType
      BY <1>3, <2>2, RecordedType DEF Append1, TypeOK
    <2>4. Event(out.kind, out.asset) \in EventType
      BY <2>2 DEF Event, EventType, OutcomeType
    <2>5. journal' \in [Ops -> EventType]
      BY <1>3, <2>4 DEF Append1, TypeOK
    <2>6. outcomes' \in [Groups -> Seq(OutcomeType)]
      BY <1>3, <2>2 DEF Append1, TypeOK
    <2>. QED
      BY <1>3, <2>3, <2>5, <2>6 DEF Append1, TypeOK
  <1>4. CASE Collect(g)
    <2>1. pc' \in [Groups -> PCs]
      BY <1>4 DEF Collect, TypeOK, PCs
    <2>. QED
      BY <1>4, <2>1 DEF Collect, runVars, TypeOK
  <1>. QED
    BY <1>1, <1>2, <1>3, <1>4

\* Every step keeps the types.
LEMMA TypeStep == IInv /\ [Next]_vars => TypeOK'
  <1>. SUFFICES ASSUME IInv, [Next]_vars PROVE TypeOK'
    OBVIOUS
  <1>1. CASE UNCHANGED vars
    BY <1>1 DEF IInv, TypeOK, vars, runVars, groupVars
  <1>2. CASE StartRun \/ EndRun \/ Cancel \/ Crash
    BY <1>2, TypeStepRun
  <1>3. ASSUME NEW g \in Groups, GroupStep(g) PROVE TypeOK'
    BY <1>3, TypeStepOperation, TypeStepLoop DEF GroupStep
  <1>4. ASSUME NEW g \in Groups, ServerCommit(g) PROVE TypeOK'
    BY <1>4, TypeStepServer
  <1>5. ASSUME NEW u \in late, LateCommit(u) PROVE TypeOK'
    BY <1>5, TypeStepServer
  <1>. QED
    BY <1>1, <1>2, <1>3, <1>4, <1>5 DEF Next

-----------------------------------------------------------------------------
(* Groups do not disturb each other *)

\* No operation belongs to two groups.
LEMMA MembersDisjoint ==
  ASSUME NEW g \in Groups, NEW h \in Groups, NEW op \in Members(g), op \in Members(h)
  PROVE  g = h
  BY PlanAssumption DEF Members, Groups

\* A member of a group is the group's first operation or its image.
LEMMA MemberCases ==
  ASSUME NEW g \in Groups, NEW op \in Members(g)
  PROVE  /\ op \in Images => VideoOf[op] = g /\ op \notin Videos
         /\ op \notin Images => op = g
  BY PlanAssumption DEF Members, Groups, Videos

\* Assets are never changed or lost.
Grow == \A c \in Checksums : assets[c] # None => assets'[c] = assets[c]

\* Acting on a body adds an asset or none.
LEMMA StoredGrows ==
  ASSUME TypeOK, NEW op \in Ops, NEW link \in Checksums \cup {None},
         assets' = Stored(op, link)
  PROVE  /\ Grow
         /\ assets'[Sha1[op]] # None
         /\ assets[Sha1[op]] = None =>
               assets'[Sha1[op]] = [by |-> op, link |-> link]
         /\ \A c \in Checksums : c # Sha1[op] => assets'[c] = assets[c]
  <1>1. Sha1[op] \in Checksums /\ DOMAIN assets = Checksums
    BY PlanAssumption DEF TypeOK
  <1>2. [by |-> op, link |-> link] # None
    BY PlanAssumption
  <1>. QED
    BY <1>1, <1>2 DEF Stored, Grow

\* A step that leaves a group where it is, and one that leaves all of it alone.
SamePlace(h) ==
    /\ pc'[h] = pc[h]
    /\ cur'[h] = cur[h]
    /\ videoId'[h] = videoId[h]
    /\ outcomes'[h] = outcomes[h]

SameGroup(h) == SamePlace(h) /\ request'[h] = request[h]

\* A group that stays where it is does not mind that assets appear.
LEMMA PlaceFrame ==
  ASSUME IInv, NEW h \in Groups, SamePlace(h), Grow,
         \A op \in Members(h) : journal'[op] = journal[op],
         completed' = completed
  PROVE  PlaceOK(h)' /\ SnapshotOK(h)' /\ VideoOK(h)' /\ OutcomesOK(h)'
  <1>1. GroupOK(h)
    BY DEF IInv
  <1>2. \A op \in Members(h) : Completed(op)' = Completed(op)
    BY DEF Completed
  <1>3. h \in Members(h) /\ h \in Ops /\ Sha1[h] \in Checksums
    BY PlanAssumption DEF Members, Groups
  <1>4. Todo(h)' = Todo(h)
    BY DEF Todo, SamePlace
  <1>5. \A n : VideoDone(h, n)' <=> VideoDone(h, n)
    BY <1>2, <1>3 DEF VideoDone, SamePlace
  <1>6. PlaceOK(h)'
    BY <1>1 DEF GroupOK, PlaceOK, SamePlace
  <1>7. SnapshotOK(h)'
    BY <1>1, <1>2, <1>4 DEF GroupOK, SnapshotOK, SamePlace, Todo
  <1>8. VideoOK(h)'
    BY <1>1, <1>3, <1>5 DEF GroupOK, VideoOK, SamePlace, Grow
  <1>9. OutcomesOK(h)'
    <2>. SUFFICES ASSUME NEW k \in DOMAIN outcomes[h]
                  PROVE  LET out == outcomes[h][k] IN
                         /\ out.op \in Members(h)
                         /\ ~Completed(out.op)'
                         /\ Truthful(out)'
                         /\ pc[h] \in InLoop => out.op \notin Todo(h)
                         /\ (out.op \in Images /\ out.kind \in Success) =>
                                VideoDone(h, k)
      BY <1>1, <1>4, <1>5 DEF GroupOK, OutcomesOK, SamePlace, Truthful, Completed
    <2>. DEFINE out == outcomes[h][k]
    <2>1. /\ out.op \in Members(h)
          /\ ~Completed(out.op)
          /\ Truthful(out)
          /\ pc[h] \in InLoop => out.op \notin Todo(h)
          /\ (out.op \in Images /\ out.kind \in Success) => VideoDone(h, k)
      BY <1>1 DEF GroupOK, OutcomesOK
    <2>2. Sha1[out.op] \in Checksums
      BY <2>1, MembersAreOps, PlanAssumption
    <2>3. Truthful(out)'
      BY <2>1, <2>2 DEF Truthful, Grow, Success, SamePlace
    <2>4. ~Completed(out.op)'
      BY <1>2, <2>1 DEF SamePlace, Completed
    <2>. QED
      BY <2>1, <2>3, <2>4
  <1>. QED
    BY <1>6, <1>7, <1>8, <1>9

\* A group that a step leaves alone keeps its invariant.
LEMMA GroupFrame ==
  ASSUME IInv, NEW h \in Groups, SameGroup(h), Grow,
         \A op \in Members(h) : journal'[op] = journal[op],
         completed' = completed
  PROVE  GroupOK(h)'
  <1>1. GroupOK(h)
    BY DEF IInv
  <1>2. request[h] # None => Sha1[cur[h]] \in Checksums
    BY <1>1, WorkingOp DEF GroupOK, RequestOK, Working
  <1>3. RequestOK(h)'
    BY <1>1, <1>2, PlanAssumption
       DEF GroupOK, RequestOK, SameGroup, SamePlace, Grow, Success
  <1>. QED
    BY <1>3, PlaceFrame DEF GroupOK, SameGroup

\* A step of one group that leaves server, journal and snapshot alone.
LEMMA StepFrame ==
  ASSUME IInv, TypeOK', NEW g \in Groups, pc[g] # "absent",
         UNCHANGED <<assets, journal, completed, run>>,
         \A h \in Groups \ {g} : SameGroup(h),
         GroupOK(g)', LateOK'
  PROVE  IInv'
  <1>1. \A h \in Groups : GroupOK(h)'
    <2>. SUFFICES ASSUME NEW h \in Groups \ {g} PROVE GroupOK(h)'
      OBVIOUS
    <2>. QED
      BY GroupFrame DEF Grow
  <1>2. RunOK'
    BY DEF IInv, RunOK
  <1>3. SnapshotTrue' /\ JournalOK' /\ LinkedToVideo'
    BY DEF IInv, SnapshotTrue, JournalOK, LinkedToVideo, CompletedOnServer,
           ImageAfterVideo, CreatedByOperation, Completed
  <1>. QED
    BY <1>1, <1>2, <1>3 DEF IInv

-----------------------------------------------------------------------------
(* The steps of one operation *)

\* The outcomes of a group with one more: the old ones, then the new one.
LEMMA WithElements ==
  ASSUME TypeOK, NEW g \in Groups, NEW kind, NEW asset, NEW s,
         s = With(g, kind, asset)
  PROVE  /\ Len(outcomes[g]) \in Nat
         /\ DOMAIN outcomes[g] = 1 .. Len(outcomes[g])
         /\ DOMAIN s = 1 .. (Len(outcomes[g]) + 1)
         /\ Len(s) = Len(outcomes[g]) + 1
         /\ \A k \in DOMAIN outcomes[g] : s[k] = outcomes[g][k]
         /\ s[Len(outcomes[g]) + 1] = Outcome(cur[g], kind, asset, retries[g])
  <1>1. outcomes[g] \in Seq(OutcomeType)
    BY DEF TypeOK
  <1>. QED
    BY <1>1 DEF With

\* The operation a group works on is not complete.
LEMMA WorkingIncomplete ==
  ASSUME IInv, NEW g \in Groups, pc[g] \in Working
  PROVE  cur[g] \in Todo(g) /\ ~Completed(cur[g])
  <1>1. cur[g] \in Todo(g)
    BY WorkingOp DEF Todo
  <1>. QED
    BY <1>1, WorkingOp DEF IInv, GroupOK, SnapshotOK, InLoop

\* A truthful outcome of the operation at hand keeps the outcomes in order.
LEMMA OutcomeAdded ==
  ASSUME IInv, NEW g \in Groups, pc[g] \in Working,
         NEW kind \in Success \cup Failure, NEW asset \in Checksums \cup {None},
         kind \in Success => asset = Sha1[cur[g]] /\ assets[Sha1[cur[g]]] # None,
         kind = "created" => assets[Sha1[cur[g]]].by = cur[g],
         outcomes'[g] = With(g, kind, asset),
         UNCHANGED <<assets, journal>>,
         pc'[g] \in InLoop => Todo(g)' \subseteq Todo(g) \ {cur[g]}
  PROVE  /\ OutcomesOK(g)'
         /\ VideoDone(g, Len(outcomes[g]) + 1) => VideoDone(g, Len(outcomes[g]) + 1)'
         /\ kind \in Success /\ cur[g] = g => VideoDone(g, Len(outcomes[g]) + 1)'
  <1>. DEFINE len == Len(outcomes[g])
              new == Outcome(cur[g], kind, asset, retries[g])
  <1>1. /\ len \in Nat
        /\ DOMAIN outcomes[g] = 1 .. len
        /\ DOMAIN outcomes'[g] = 1 .. (len + 1)
        /\ Len(outcomes'[g]) = len + 1
        /\ \A k \in DOMAIN outcomes[g] : outcomes'[g][k] = outcomes[g][k]
        /\ outcomes'[g][len + 1] = new
    BY WithElements DEF IInv
  <1>2. /\ new.op = cur[g] /\ new.kind = kind /\ new.asset = asset
        /\ cur[g] \in Members(g)
        /\ cur[g] \in Todo(g)
        /\ ~Completed(cur[g])
    BY WorkingOp, WorkingIncomplete DEF Outcome
  <1>3. \A op : Completed(op)' <=> Completed(op)
    BY DEF Completed
  <1>4. \A n : VideoDone(g, n) => VideoDone(g, n)'
    BY <1>1, <1>3 DEF VideoDone
  <1>5. OutcomesOK(g) /\ VideoOK(g) /\ pc[g] \in InLoop
    BY DEF IInv, GroupOK, InLoop
  <1>6. ASSUME NEW k \in DOMAIN outcomes'[g]
        PROVE  /\ outcomes'[g][k].op \in Members(g)
               /\ ~Completed(outcomes'[g][k].op)
               /\ Truthful(outcomes'[g][k])
               /\ pc'[g] \in InLoop => outcomes'[g][k].op \notin Todo(g)'
               /\ (outcomes'[g][k].op \in Images /\ outcomes'[g][k].kind \in Success)
                      => VideoDone(g, k)
    <2>1. CASE k \in DOMAIN outcomes[g]
      BY <1>1, <1>5, <2>1 DEF OutcomesOK
    <2>2. CASE k = len + 1
      <3>1. Truthful(new)
        BY <1>2 DEF Truthful
      <3>2. cur[g] \in Images => VideoDone(g, len + 1)
        BY <1>5 DEF VideoOK
      <3>. QED
        BY <1>1, <1>2, <2>2, <3>1, <3>2
    <2>. QED
      BY <1>1, <2>1, <2>2
  <1>7. ASSUME NEW k \in DOMAIN outcomes'[g], NEW l \in DOMAIN outcomes'[g],
               outcomes'[g][k].op = outcomes'[g][l].op
        PROVE  k = l
    <2>1. \A j \in DOMAIN outcomes[g] : outcomes[g][j].op # cur[g]
      BY <1>2, <1>5 DEF OutcomesOK
    <2>2. CASE k \in DOMAIN outcomes[g] /\ l \in DOMAIN outcomes[g]
      BY <1>1, <1>5, <1>7, <2>2 DEF OutcomesOK
    <2>3. CASE k = len + 1 \/ l = len + 1
      BY <1>1, <1>2, <1>7, <2>1, <2>3
    <2>. QED
      BY <1>1, <2>2, <2>3
  <1>8. OutcomesOK(g)'
    BY <1>3, <1>4, <1>6, <1>7 DEF OutcomesOK, Truthful, Completed
  <1>9. ASSUME kind \in Success, cur[g] = g
        PROVE  VideoDone(g, Len(outcomes[g]) + 1)'
    <2>1. /\ len + 1 \in DOMAIN outcomes'[g] /\ len + 1 < Len(outcomes'[g]) + 1
      BY <1>1
    <2>2. outcomes'[g][len + 1].op = g /\ outcomes'[g][len + 1].kind \in Success
      BY <1>1, <1>2, <1>9
    <2>. QED
      BY <2>1, <2>2 DEF VideoDone
  <1>10. VideoDone(g, Len(outcomes[g]) + 1) => VideoDone(g, Len(outcomes[g]) + 1)'
    BY <1>1, <1>3 DEF VideoDone
  <1>. QED
    BY <1>8, <1>9, <1>10

\* The group's loop ends: it has its outcomes, and no request.
LEMMA FinishOK ==
  ASSUME IInv, NEW g \in Groups, NEW outs, NEW c, Finish(g, outs, c),
         pc[g] \in InLoop, request'[g] = None,
         UNCHANGED <<assets, journal, completed>>,
         \/ outs = outcomes[g]
         \/ /\ pc[g] \in Working
            /\ \E kind \in Failure : outs = With(g, kind, None)
  PROVE  GroupOK(g)' /\ \A h \in Groups \ {g} : pc'[h] = pc[h] /\ cur'[h] = cur[h]
             /\ videoId'[h] = videoId[h] /\ outcomes'[h] = outcomes[h]
  <1>. TypeOK /\ GroupOK(g)
    BY DEF IInv
  <1>1. /\ pc'[g] = "finished" /\ outcomes'[g] = outs
        /\ cur' = cur /\ videoId' = videoId
        /\ \A h \in Groups \ {g} : pc'[h] = pc[h] /\ outcomes'[h] = outcomes[h]
    BY DEF Finish, TypeOK
  <1>2. pc'[g] \notin InLoop \cup {"absent", "pending"}
    BY <1>1 DEF InLoop, Working
  <1>3. /\ OutcomesOK(g)'
        /\ VideoDone(g, Len(outcomes[g]) + 1) => VideoDone(g, Len(outcomes[g]) + 1)'
    <2>1. CASE outs = outcomes[g]
      <3>1. outcomes'[g] = outcomes[g]
        BY <1>1, <2>1
      <3>2. \A n : VideoDone(g, n)' <=> VideoDone(g, n)
        BY <3>1 DEF VideoDone, Completed
      <3>3. \A k \in DOMAIN outcomes[g] : Truthful(outcomes[g][k])'
        BY <3>1 DEF GroupOK, OutcomesOK, Truthful
      <3>4. OutcomesOK(g)'
        BY <1>2, <3>1, <3>2, <3>3 DEF GroupOK, OutcomesOK, Completed, Truthful
      <3>. QED
        BY <3>1, <3>2, <3>4 DEF VideoDone, Completed
    <2>2. ASSUME pc[g] \in Working, NEW kind \in Failure, outs = With(g, kind, None)
          PROVE  /\ OutcomesOK(g)'
                 /\ VideoDone(g, Len(outcomes[g]) + 1) =>
                        VideoDone(g, Len(outcomes[g]) + 1)'
      <3>1. kind \notin Success /\ kind # "created"
        BY DEF Failure, Success
      <3>. QED
        BY <1>1, <1>2, <2>2, <3>1, OutcomeAdded
    <2>. QED
      BY <2>1, <2>2
  <1>4. VideoOK(g)'
    BY <1>1, <1>2, <1>3 DEF GroupOK, VideoOK
  <1>5. PlaceOK(g)' /\ SnapshotOK(g)' /\ RequestOK(g)'
    BY <1>1, <1>2, PlanAssumption
       DEF PlaceOK, SnapshotOK, RequestOK, Success, InLoop, Working
  <1>. QED
    BY <1>1, <1>3, <1>4, <1>5 DEF GroupOK

\* The group goes on with what its list holds after the current operation.
LEMMA AdvanceTodo ==
  ASSUME TypeOK, NEW g \in Groups, cur[g] \in Members(g), Advance(g)
  PROVE  /\ pc'[g] = "next"
         /\ cur'[g] \in Members(g) \cup {None}
         /\ cur'[g] \in Images => cur[g] = g /\ g \in Videos
         /\ Todo(g)' \subseteq Todo(g) \ {cur[g]}
         /\ \A h \in Groups \ {g} : pc'[h] = pc[h] /\ cur'[h] = cur[h]
  <1>1. cur[g] \in Ops
    BY MembersAreOps
  <1>2. /\ pc'[g] = "next" /\ cur'[g] = After(cur[g])
        /\ \A h \in Groups \ {g} : pc'[h] = pc[h] /\ cur'[h] = cur[h]
    BY DEF Advance, TypeOK
  <1>3. CASE cur[g] \in Videos
    <2>1. cur[g] = g
      BY <1>3, MemberCases
    <2>2. After(cur[g]) \in Images /\ VideoOf[After(cur[g])] = g
      BY <1>1, <1>3, <2>1, AfterType
    <2>3. After(cur[g]) \in Members(g)
      BY <2>2 DEF Members
    <2>4. Todo(g)' \subseteq {After(cur[g])}
      BY <1>2, <2>2, PlanAssumption DEF Todo
    <2>5. After(cur[g]) \in Todo(g) \ {cur[g]}
      BY <2>1, <2>2, <2>3 DEF Todo, Groups
    <2>. QED
      BY <1>2, <1>3, <2>1, <2>3, <2>4, <2>5
  <1>4. CASE cur[g] \notin Videos
    <2>1. After(cur[g]) = None
      BY <1>1, <1>4, AfterType
    <2>2. Todo(g)' = {}
      BY <1>2, <2>1, PlanAssumption, MembersAreOps DEF Todo
    <2>. QED
      BY <1>2, <2>1, <2>2, PlanAssumption
  <1>. QED
    BY <1>3, <1>4

\* A group whose operation returned Completed keeps its invariant, if the
\* outcome is true of the server.
LEMMA ConcludeOK ==
  ASSUME IInv, NEW g \in Groups, pc[g] \in Working, request'[g] = None,
         NEW kind \in Success \cup Failure, NEW asset \in Checksums \cup {None},
         kind \in Success => asset = Sha1[cur[g]] /\ assets[Sha1[cur[g]]] # None,
         kind \in Failure => asset = None,
         kind = "created" => assets[Sha1[cur[g]]].by = cur[g],
         Conclude(g, kind, asset),
         UNCHANGED <<assets, journal, completed>>
  PROVE  GroupOK(g)' /\ \A h \in Groups \ {g} : pc'[h] = pc[h] /\ cur'[h] = cur[h]
             /\ videoId'[h] = videoId[h] /\ outcomes'[h] = outcomes[h]
  <1>. TypeOK /\ GroupOK(g) /\ pc[g] \in InLoop
    BY DEF IInv, InLoop
  <1>1. cur[g] \in Members(g) /\ Sha1[cur[g]] \in Checksums
    BY WorkingOp
  <1>2. CASE cur[g] \in Videos /\ asset = None
    <2>1. kind \in Failure
      BY <1>1, <1>2, PlanAssumption
    <2>2. Finish(g, With(g, kind, None), FALSE)
      BY <1>2 DEF Conclude
    <2>. QED
      BY <2>1, <2>2, FinishOK
  <1>3. CASE ~(cur[g] \in Videos /\ asset = None)
    <2>1. /\ Advance(g)
          /\ outcomes' = [outcomes EXCEPT ![g] = With(g, kind, asset)]
          /\ videoId' = [videoId EXCEPT ![g] =
                 IF cur[g] \in Videos THEN asset ELSE videoId[g]]
      BY <1>3 DEF Conclude
    <2>2. /\ outcomes'[g] = With(g, kind, asset)
          /\ videoId'[g] = IF cur[g] \in Videos THEN asset ELSE videoId[g]
          /\ \A h \in Groups \ {g} :
                 videoId'[h] = videoId[h] /\ outcomes'[h] = outcomes[h]
      BY <2>1 DEF TypeOK
    <2>3. /\ pc'[g] = "next"
          /\ cur'[g] \in Members(g) \cup {None}
          /\ cur'[g] \in Images => cur[g] = g /\ g \in Videos
          /\ Todo(g)' \subseteq Todo(g) \ {cur[g]}
          /\ \A h \in Groups \ {g} : pc'[h] = pc[h] /\ cur'[h] = cur[h]
      BY <1>1, <2>1, AdvanceTodo
    <2>4. /\ OutcomesOK(g)'
          /\ VideoDone(g, Len(outcomes[g]) + 1) => VideoDone(g, Len(outcomes[g]) + 1)'
          /\ kind \in Success /\ cur[g] = g => VideoDone(g, Len(outcomes[g]) + 1)'
      BY <2>2, <2>3, OutcomeAdded
    <2>5. cur[g] \in Videos => cur[g] = g
      BY <1>1, MemberCases
    <2>6. VideoOK(g)'
      BY <1>3, <2>2, <2>3, <2>4, <2>5 DEF GroupOK, VideoOK
    <2>7. PlaceOK(g)' /\ RequestOK(g)'
      BY <2>3, PlanAssumption DEF PlaceOK, RequestOK, Working, Success
    <2>8. SnapshotOK(g)'
      BY <2>3 DEF GroupOK, SnapshotOK, Completed
    <2>. QED
      BY <2>2, <2>3, <2>4, <2>6, <2>7, <2>8 DEF GroupOK
  <1>. QED
    BY <1>2, <1>3

\* The group stays with its operation.
LEMMA WaitOK ==
  ASSUME IInv, NEW g \in Groups, pc[g] \in Working,
         NEW loc \in Working, pc' = [pc EXCEPT ![g] = loc],
         UNCHANGED <<cur, videoId, outcomes, assets, journal, completed>>,
         request'[g] = None \/ (loc = "upload" /\ request'[g] \in {"unsent", "sent"})
  PROVE  GroupOK(g)' /\ \A h \in Groups \ {g} : pc'[h] = pc[h]
  <1>. TypeOK /\ GroupOK(g)
    BY DEF IInv
  <1>1. /\ pc'[g] = loc /\ loc \in InLoop /\ pc[g] \in InLoop
        /\ loc \notin {"absent", "pending"}
        /\ \A h \in Groups \ {g} : pc'[h] = pc[h]
    BY DEF TypeOK, InLoop, Working
  <1>2. cur[g] \in Members(g) /\ completed[cur[g]] = None
    BY WorkingOp
  <1>3. Todo(g)' = Todo(g) /\ \A n : VideoDone(g, n)' <=> VideoDone(g, n)
    BY DEF Todo, VideoDone, Completed
  <1>4. PlaceOK(g)'
    BY <1>1, <1>2 DEF PlaceOK
  <1>5. SnapshotOK(g)'
    BY <1>1, <1>3 DEF GroupOK, SnapshotOK, Completed
  <1>6. RequestOK(g)'
    BY <1>1, PlanAssumption DEF RequestOK, Success
  <1>7. VideoOK(g)'
    BY <1>1, <1>3 DEF GroupOK, VideoOK
  <1>8. OutcomesOK(g)'
    <2>1. \A k \in DOMAIN outcomes[g] : Truthful(outcomes[g][k])'
      BY DEF GroupOK, OutcomesOK, Truthful
    <2>. QED
      BY <1>1, <1>3, <2>1 DEF GroupOK, OutcomesOK, Completed
  <1>. QED
    BY <1>1, <1>4, <1>5, <1>6, <1>7, <1>8 DEF GroupOK

\* A body the client gave up on carries its group's video identity.
LEMMA AbandonedOK ==
  ASSUME IInv, NEW gs \in SUBSET Groups, NEW u \in Abandoned(gs), u.op \in Images
  PROVE  u.link = Sha1[VideoOf[u.op]] /\ assets[Sha1[VideoOf[u.op]]] # None
  <1>1. CASE u \in late
    BY <1>1 DEF IInv, LateOK
  <1>2. ASSUME NEW g \in gs, request[g] = "sent", u = Upload(cur[g], videoId[g])
        PROVE  u.link = Sha1[VideoOf[u.op]] /\ assets[Sha1[VideoOf[u.op]]] # None
    <2>1. GroupOK(g)
      BY DEF IInv
    <2>2. pc[g] \in Working
      BY <1>2, <2>1, PlanAssumption DEF GroupOK, RequestOK, Working
    <2>3. cur[g] \in Members(g)
      BY <2>2, WorkingOp
    <2>4. u.op = cur[g] /\ u.link = videoId[g]
      BY <1>2 DEF Upload
    <2>5. VideoOf[cur[g]] = g
      BY <2>3, <2>4, MemberCases
    <2>. QED
      BY <2>1, <2>2, <2>4, <2>5 DEF GroupOK, VideoOK, InLoop
  <1>. QED
    BY <1>1, <1>2 DEF Abandoned

\* At a place other than "upload" there is no request.
LEMMA NoRequest ==
  ASSUME IInv, NEW g \in Groups, pc[g] # "upload"
  PROVE  request[g] = None
  BY DEF IInv, GroupOK, RequestOK

\* Abandoned bodies stay linked while no body is abandoned.
LEMMA LateUnchanged ==
  ASSUME IInv, UNCHANGED <<late, assets>>
  PROVE  LateOK'
  BY DEF IInv, LateOK

\* Every step of operation::apply and reconcile_uncertain keeps the
\* invariant.
LEMMA OperationStep ==
  ASSUME IInv, NEW g \in Groups,
         \/ CheckDuplicate(g) \/ CheckAccept(g) \/ CheckCancelled(g)
         \/ RetryDelayOver(g) \/ SendUpload(g) \/ UploadOk(g)
         \/ UploadCancelled(g) \/ ReconcileDuplicate(g) \/ ReconcileUnknown(g)
         \/ \E class \in ErrorClass : CheckError(g, class) \/ UploadError(g, class)
  PROVE  IInv'
  <1>. TypeOK
    BY DEF IInv
  <1>1. TypeOK'
    BY TypeStepOperation
  <1>2. pc[g] \in Working /\ pc[g] \in InLoop /\ pc[g] # "absent"
    BY DEF Working, InLoop, At, CheckDuplicate, CheckAccept, CheckCancelled,
           RetryDelayOver, SendUpload, UploadOk, UploadCancelled,
           ReconcileDuplicate, ReconcileUnknown, CheckError, UploadError
  <1>3. Sha1[cur[g]] \in Checksums /\ cur[g] \in Ops
    BY <1>2, WorkingOp
  <1>4. UNCHANGED <<assets, journal, completed, run>>
    BY DEF OperationFrame, CheckDuplicate, CheckAccept, CheckCancelled,
           RetryDelayOver, SendUpload, UploadOk, UploadCancelled,
           ReconcileDuplicate, ReconcileUnknown, CheckError, UploadError
  <1>5. \A h \in Groups \ {g} : request'[h] = request[h]
    BY DEF TypeOK, CheckDuplicate, CheckAccept, CheckCancelled,
           RetryDelayOver, SendUpload, UploadOk, UploadCancelled,
           ReconcileDuplicate, ReconcileUnknown, CheckError, UploadError
  <1>6. LateOK'
    <2>1. CASE UNCHANGED late
      BY <1>4, <2>1, LateUnchanged
    <2>2. CASE late' = Abandoned({g})
      BY <1>4, <2>2, AbandonedOK DEF LateOK
    <2>. QED
      BY <2>1, <2>2
         DEF CheckDuplicate, CheckAccept, CheckCancelled,
             RetryDelayOver, SendUpload, UploadOk, UploadCancelled,
             ReconcileDuplicate, ReconcileUnknown, CheckError, UploadError
  <1>. DEFINE Kept == \A h \in Groups \ {g} :
                  /\ pc'[h] = pc[h] /\ cur'[h] = cur[h]
                  /\ videoId'[h] = videoId[h] /\ outcomes'[h] = outcomes[h]
  <1>7. GroupOK(g)' /\ Kept
    <2>1. CASE CheckDuplicate(g)
      <3>1. request'[g] = None
        BY <2>1, NoRequest DEF CheckDuplicate, At
      <3>. QED
        BY <1>2, <1>3, <1>4, <2>1, <3>1, ConcludeOK
           DEF CheckDuplicate, Success, Failure
    <2>2. CASE CheckAccept(g)
      <3>1. request'[g] = "unsent"
        BY <2>2 DEF CheckAccept, TypeOK
      <3>. QED
        BY <1>2, <1>4, <2>2, <3>1, WaitOK DEF CheckAccept, Wait, Working
    <2>3. CASE CheckCancelled(g)
      <3>1. request'[g] = None
        BY <2>3, NoRequest DEF CheckCancelled, At
      <3>. QED
        BY <1>2, <1>4, <2>3, <3>1, FinishOK DEF CheckCancelled, CancelGroup
    <2>4. CASE RetryDelayOver(g)
      <3>1. request'[g] = None
        BY <2>4, NoRequest DEF RetryDelayOver, At
      <3>. QED
        BY <1>2, <1>4, <2>4, <3>1, WaitOK DEF RetryDelayOver, Working
    <2>5. CASE SendUpload(g)
      <3>1. request'[g] = "sent" /\ pc' = [pc EXCEPT ![g] = "upload"]
        BY <2>5 DEF SendUpload, At, TypeOK
      <3>. QED
        BY <1>2, <1>4, <2>5, <3>1, WaitOK DEF SendUpload, Working
    <2>6. CASE UploadOk(g)
      <3>1. request'[g] = None
        BY <2>6 DEF UploadOk, TypeOK
      <3>2. /\ assets[Sha1[cur[g]]] # None
            /\ request[g] = "created" => assets[Sha1[cur[g]]].by = cur[g]
        BY <2>6 DEF UploadOk, IInv, GroupOK, RequestOK
      <3>3. request[g] \in Success /\ request[g] \notin Failure
        BY <2>6 DEF UploadOk, Success, Failure
      <3>. QED
        BY <1>2, <1>3, <1>4, <2>6, <3>1, <3>2, <3>3, ConcludeOK DEF UploadOk
    <2>7. CASE UploadCancelled(g)
      <3>1. request'[g] = None
        BY <2>7 DEF UploadCancelled, TypeOK
      <3>. QED
        BY <1>2, <1>4, <2>7, <3>1, FinishOK
           DEF UploadCancelled, CancelGroup, Failure
    <2>8. CASE ReconcileDuplicate(g)
      <3>1. request'[g] = None
        BY <2>8, NoRequest DEF ReconcileDuplicate, At
      <3>. QED
        BY <1>2, <1>3, <1>4, <2>8, <3>1, ConcludeOK
           DEF ReconcileDuplicate, Success, Failure
    <2>9. CASE ReconcileUnknown(g)
      <3>1. request'[g] = None
        BY <2>9, NoRequest DEF ReconcileUnknown, At
      <3>2. CASE Finish(g, With(g, "indeterminate", None), TRUE)
        BY <1>2, <1>4, <3>1, <3>2, FinishOK DEF Failure
      <3>3. CASE Conclude(g, "indeterminate", None)
        BY <1>2, <1>3, <1>4, <3>1, <3>3, ConcludeOK DEF Success, Failure
      <3>. QED
        BY <2>9, <3>2, <3>3 DEF ReconcileUnknown, CancelGroup
    <2>10. ASSUME NEW class \in ErrorClass,
                  CheckError(g, class) \/ UploadError(g, class)
           PROVE  GroupOK(g)' /\ Kept
      <3>1. request'[g] = None
        BY <2>10, NoRequest DEF CheckError, UploadError, At, TypeOK
      <3>2. CASE Conclude(g, "failed", None)
        BY <1>2, <1>3, <1>4, <3>1, <3>2, ConcludeOK DEF Success, Failure
      <3>3. ASSUME NEW loc \in Working, Wait(g, loc)
            PROVE  GroupOK(g)' /\ Kept
        BY <1>2, <1>4, <3>1, <3>3, WaitOK DEF Wait
      <3>4. {"checkWait", "uploadWait", "reconcile"} \subseteq Working
        BY DEF Working
      <3>. QED
        BY <2>10, <3>2, <3>3, <3>4 DEF CheckError, UploadError
    <2>. QED
      BY <2>1, <2>2, <2>3, <2>4, <2>5, <2>6, <2>7, <2>8, <2>9, <2>10
  <1>. QED
    BY <1>1, <1>2, <1>4, <1>5, <1>6, <1>7, StepFrame DEF SameGroup, SamePlace

-----------------------------------------------------------------------------
(* The loop of a group and the journal *)

\* Polling a group for the first time keeps the invariant.
LEMMA StartGroupStep ==
  ASSUME IInv, NEW g \in Groups, StartGroup(g)
  PROVE  IInv'
  <1>. TypeOK /\ GroupOK(g)
    BY DEF IInv
  <1>1. TypeOK'
    BY TypeStepLoop
  <1>2. /\ pc[g] = "pending" /\ pc'[g] = "next" /\ cur'[g] = g
        /\ UNCHANGED <<assets, late, journal, completed, run, videoId, outcomes, request>>
        /\ \A h \in Groups \ {g} : pc'[h] = pc[h] /\ cur'[h] = cur[h]
    BY DEF StartGroup, TypeOK, runVars
  <1>3. videoId[g] = None /\ outcomes[g] = <<>> /\ request[g] = None
    BY <1>2, NoRequest DEF GroupOK, PlaceOK
  <1>4. PlaceOK(g)' /\ VideoOK(g)' /\ RequestOK(g)'
    BY <1>2, <1>3, PlanAssumption
       DEF PlaceOK, VideoOK, RequestOK, Working, Members, Groups, Success
  <1>5. SnapshotOK(g)'
    BY <1>2 DEF GroupOK, SnapshotOK, Todo, Completed
  <1>6. OutcomesOK(g)'
    BY <1>2, <1>3 DEF OutcomesOK
  <1>7. LateOK'
    BY <1>2, LateUnchanged
  <1>. QED
    BY <1>1, <1>2, <1>4, <1>5, <1>6, <1>7, StepFrame DEF GroupOK, SameGroup, SamePlace

\* The head of the loop in apply_group keeps the invariant.
LEMMA NextOperationStep ==
  ASSUME IInv, NEW g \in Groups, NextOperation(g)
  PROVE  IInv'
  <1>. TypeOK /\ GroupOK(g)
    BY DEF IInv
  <1>1. TypeOK'
    BY TypeStepLoop
  <1>2. /\ pc[g] = "next" /\ pc[g] \in InLoop
        /\ UNCHANGED <<assets, late, journal, completed, run, request>>
        /\ request'[g] = None
    BY NoRequest DEF NextOperation, InLoop
  <1>3. LateOK'
    BY <1>2, LateUnchanged
  <1>. DEFINE Kept == \A h \in Groups \ {g} :
                  /\ pc'[h] = pc[h] /\ cur'[h] = cur[h]
                  /\ videoId'[h] = videoId[h] /\ outcomes'[h] = outcomes[h]
  <1>4. ASSUME NEW c, Finish(g, outcomes[g], c)
        PROVE  GroupOK(g)' /\ Kept
    BY <1>2, <1>4, FinishOK
  <1>5. cur[g] # None => cur[g] \in Members(g)
    BY <1>2 DEF GroupOK, PlaceOK
  <1>6. ASSUME cur[g] # None, completed[cur[g]] # None, Advance(g),
               UNCHANGED outcomes,
               videoId' = [videoId EXCEPT ![g] =
                   IF cur[g] \in Videos THEN completed[cur[g]] ELSE @]
        PROVE  GroupOK(g)' /\ Kept
    <2>1. /\ pc'[g] = "next"
          /\ cur'[g] \in Members(g) \cup {None}
          /\ cur'[g] \in Images => cur[g] = g /\ g \in Videos
          /\ Todo(g)' \subseteq Todo(g) \ {cur[g]}
          /\ \A h \in Groups \ {g} : pc'[h] = pc[h] /\ cur'[h] = cur[h]
      BY <1>5, <1>6, AdvanceTodo
    <2>2. /\ videoId'[g] = IF cur[g] \in Videos THEN completed[cur[g]] ELSE videoId[g]
          /\ \A h \in Groups \ {g} : videoId'[h] = videoId[h]
      BY <1>6 DEF TypeOK
    <2>3. cur[g] \in Ops /\ (cur[g] \in Videos => cur[g] = g)
      BY <1>5, <1>6, MemberCases, MembersAreOps
    <2>4. /\ Completed(cur[g]) /\ completed[cur[g]] = Sha1[cur[g]]
          /\ assets[Sha1[cur[g]]] # None
      BY <1>6, <2>3 DEF IInv, SnapshotTrue, JournalOK, CompletedOnServer
    <2>5. \A n : VideoDone(g, n)' <=> VideoDone(g, n)
      BY <1>2, <1>6 DEF VideoDone, Completed
    <2>6. VideoOK(g)'
      BY <1>2, <1>6, <2>1, <2>2, <2>3, <2>4, <2>5
         DEF GroupOK, VideoOK, VideoDone
    <2>7. PlaceOK(g)' /\ RequestOK(g)'
      BY <1>2, <2>1, PlanAssumption DEF PlaceOK, RequestOK, Working, Success
    <2>8. SnapshotOK(g)'
      BY <1>2, <2>1 DEF GroupOK, SnapshotOK, Completed
    <2>9. OutcomesOK(g)'
      <3>1. \A k \in DOMAIN outcomes[g] : Truthful(outcomes[g][k])'
        BY <1>2, <1>6 DEF GroupOK, OutcomesOK, Truthful
      <3>. QED
        BY <1>2, <1>6, <2>1, <2>5, <3>1 DEF GroupOK, OutcomesOK, Completed
    <2>. QED
      BY <1>6, <2>1, <2>2, <2>6, <2>7, <2>8, <2>9 DEF GroupOK
  <1>7. ASSUME cur[g] # None, completed[cur[g]] = None,
               pc' = [pc EXCEPT ![g] = "check"],
               UNCHANGED <<cur, retries, videoId, outcomes, report>>
        PROVE  GroupOK(g)' /\ Kept
    <2>1. pc'[g] = "check" /\ pc'[g] \in InLoop /\ \A h \in Groups \ {g} : pc'[h] = pc[h]
      BY <1>7 DEF TypeOK, InLoop, Working
    <2>2. Todo(g)' = Todo(g) /\ \A n : VideoDone(g, n)' <=> VideoDone(g, n)
      BY <1>2, <1>7 DEF Todo, VideoDone, Completed
    <2>3. PlaceOK(g)' /\ RequestOK(g)'
      BY <1>2, <1>5, <1>7, <2>1, PlanAssumption DEF PlaceOK, RequestOK, Success
    <2>4. SnapshotOK(g)'
      BY <1>2, <2>1, <2>2 DEF GroupOK, SnapshotOK, Completed
    <2>5. VideoOK(g)'
      BY <1>2, <1>7, <2>1, <2>2 DEF GroupOK, VideoOK
    <2>6. \A k \in DOMAIN outcomes[g] : Truthful(outcomes[g][k])'
      BY <1>2, <1>7 DEF GroupOK, OutcomesOK, Truthful
    <2>7. OutcomesOK(g)'
      BY <1>2, <1>7, <2>1, <2>2, <2>6 DEF GroupOK, OutcomesOK, Completed
    <2>. QED
      BY <1>7, <2>1, <2>3, <2>4, <2>5, <2>7 DEF GroupOK
  <1>8. GroupOK(g)' /\ Kept
    BY <1>4, <1>6, <1>7 DEF NextOperation, CancelGroup
  <1>. QED
    BY <1>1, <1>2, <1>3, <1>8, StepFrame DEF SameGroup, SamePlace

\* Dropping a drained group keeps the invariant.
LEMMA CollectStep ==
  ASSUME IInv, NEW g \in Groups, Collect(g)
  PROVE  IInv'
  <1>. TypeOK
    BY DEF IInv
  <1>1. TypeOK'
    BY TypeStepLoop
  <1>2. /\ pc[g] = "finished" /\ pc'[g] = "absent" /\ cur'[g] = None
        /\ videoId'[g] = None /\ outcomes'[g] = <<>>
        /\ UNCHANGED <<assets, late, journal, completed, run, outcomes, request>>
        /\ \A h \in Groups \ {g} :
               pc'[h] = pc[h] /\ cur'[h] = cur[h] /\ videoId'[h] = videoId[h]
    BY DEF Collect, TypeOK, runVars
  <1>3. request'[g] = None
    BY <1>2, NoRequest
  <1>4. GroupOK(g)'
    BY <1>2, <1>3, PlanAssumption
       DEF GroupOK, PlaceOK, SnapshotOK, RequestOK, VideoOK, OutcomesOK,
           InLoop, Working, Success
  <1>5. LateOK'
    BY <1>2, LateUnchanged
  <1>. QED
    BY <1>1, <1>2, <1>4, <1>5, StepFrame DEF SameGroup, SamePlace

\* The journal grows by the first outcome of a finished group.
LEMMA AppendStep ==
  ASSUME IInv, NEW g \in Groups, Append1(g)
  PROVE  IInv'
  <1>. PICK out : out = Head(outcomes[g])
    OBVIOUS
  <1>. TypeOK /\ GroupOK(g)
    BY DEF IInv
  <1>1. TypeOK'
    BY TypeStepLoop
  <1>2. /\ outcomes[g] \in Seq(OutcomeType) /\ outcomes[g] # <<>>
        /\ 1 \in DOMAIN outcomes[g] /\ out = outcomes[g][1]
    BY DEF TypeOK, Append1
  <1>3. /\ out.op \in Members(g) /\ ~Completed(out.op) /\ Truthful(out)
        /\ (out.op \in Images /\ out.kind \in Success) => VideoDone(g, 1)
    BY <1>2 DEF GroupOK, OutcomesOK
  <1>4. out.op \in Ops /\ Sha1[out.op] \in Checksums
    BY <1>3, MembersAreOps, PlanAssumption
  <1>5. /\ pc[g] = "finished"
        /\ journal'[out.op] = Event(out.kind, out.asset)
        /\ \A op \in Ops : op # out.op => journal'[op] = journal[op]
        /\ outcomes'[g] = Tail(outcomes[g])
        /\ \A h \in Groups \ {g} : SameGroup(h)
        /\ UNCHANGED <<assets, late, completed, run, pc, cur, videoId, request>>
    BY <1>4 DEF Append1, TypeOK, SameGroup, SamePlace
  <1>6. /\ Completed(out.op)' <=> out.kind \in Success
        /\ \A op \in Ops : op # out.op => (Completed(op)' <=> Completed(op))
    BY <1>5 DEF Completed, Event
  <1>7. \A op \in Ops : Completed(op) => Completed(op)'
    BY <1>3, <1>6
  <1>8. \A h \in Groups : GroupOK(h)'
    <2>1. ASSUME NEW h \in Groups \ {g} PROVE GroupOK(h)'
      <3>1. \A op \in Members(h) : journal'[op] = journal[op]
        BY <1>3, <1>5, MembersDisjoint, MembersAreOps
      <3>. QED
        BY <1>5, <3>1, GroupFrame DEF Grow
    <2>2. GroupOK(g)'
      <3>1. /\ Len(outcomes[g]) \in Nat
            /\ DOMAIN outcomes[g] = 1 .. Len(outcomes[g])
            /\ DOMAIN outcomes'[g] = 1 .. (Len(outcomes[g]) - 1)
            /\ Len(outcomes'[g]) = Len(outcomes[g]) - 1
            /\ \A k \in DOMAIN outcomes'[g] :
                   outcomes'[g][k] = outcomes[g][k + 1] /\ k + 1 \in DOMAIN outcomes[g]
        BY <1>2, <1>5
      <3>2. PlaceOK(g)' /\ SnapshotOK(g)' /\ RequestOK(g)'
        BY <1>5 DEF GroupOK, PlaceOK, SnapshotOK, RequestOK, InLoop, Working
      <3>3. g \in Ops
        BY DEF Groups
      <3>4. ASSUME NEW n \in Nat, VideoDone(g, n + 1)
            PROVE  VideoDone(g, n)'
        <4>1. CASE Completed(g)
          BY <1>7, <3>3, <4>1 DEF VideoDone
        <4>2. ASSUME NEW k \in DOMAIN outcomes[g], k < n + 1,
                     outcomes[g][k].op = g, outcomes[g][k].kind \in Success
              PROVE  VideoDone(g, n)'
          <5>1. CASE k = 1
            BY <1>2, <1>6, <4>2, <5>1 DEF VideoDone
          <5>2. CASE k # 1
            <6>1. /\ k - 1 \in DOMAIN outcomes'[g] /\ k - 1 < n
                  /\ outcomes'[g][k - 1] = outcomes[g][k]
              BY <3>1, <4>2, <5>2
            <6>. QED
              BY <4>2, <6>1 DEF VideoDone
          <5>. QED
            BY <5>1, <5>2
        <4>. QED
          BY <3>4, <4>1, <4>2 DEF VideoDone
      <3>5. VideoOK(g)'
        <4>1. VideoDone(g, Len(outcomes[g]) + 1) => VideoDone(g, Len(outcomes[g]) + 1)'
          BY <3>1, <3>4 DEF VideoDone
        <4>. QED
          BY <1>5, <4>1 DEF GroupOK, VideoOK, InLoop, Working
      <3>6. \A k, l \in DOMAIN outcomes[g] :
                outcomes[g][k].op = outcomes[g][l].op => k = l
        BY DEF GroupOK, OutcomesOK
      <3>7. ASSUME NEW k \in DOMAIN outcomes'[g]
            PROVE  /\ outcomes'[g][k].op \in Members(g)
                   /\ ~Completed(outcomes[g][k].op)'
                   /\ Truthful(outcomes[g][k])'
                   /\ (outcomes'[g][k].op \in Images /\ outcomes'[g][k].kind \in Success)
                          => VideoDone(g, k)'
        <4>1. PICK o : o = outcomes'[g][k]
          OBVIOUS
        <4>2. /\ k \in Nat /\ k + 1 # 1 /\ k + 1 \in DOMAIN outcomes[g]
              /\ o = outcomes[g][k + 1]
          BY <3>1, <4>1
        <4>3. /\ o.op \in Members(g) /\ ~Completed(o.op) /\ Truthful(o)
              /\ (o.op \in Images /\ o.kind \in Success) => VideoDone(g, k + 1)
          BY <4>2 DEF GroupOK, OutcomesOK
        <4>4. o.op # out.op
          BY <1>2, <4>2, <3>6
        <4>5. ~Completed(o.op)' /\ Truthful(o)'
          BY <1>5, <1>6, <4>3, <4>4, MembersAreOps DEF Truthful
        <4>6. (o.op \in Images /\ o.kind \in Success) => VideoDone(g, k)'
          BY <3>4, <4>2, <4>3
        <4>. QED
          BY <4>1, <4>3, <4>5, <4>6 DEF Completed, Truthful
      <3>8. ASSUME NEW k \in DOMAIN outcomes'[g], NEW l \in DOMAIN outcomes'[g],
                   outcomes'[g][k].op = outcomes'[g][l].op
            PROVE  k = l
        <4>1. k + 1 = l + 1
          BY <3>1, <3>6, <3>8
        <4>. QED
          BY <3>1, <4>1
      <3>9. OutcomesOK(g)'
        BY <1>5, <3>7, <3>8 DEF OutcomesOK, InLoop, Working
      <3>. QED
        BY <3>2, <3>5, <3>9 DEF GroupOK
    <2>. QED
      BY <2>1, <2>2
  <1>9. SnapshotTrue'
    BY <1>3, <1>5, <1>7 DEF IInv, SnapshotTrue
  <1>10. CompletedOnServer' /\ CreatedByOperation'
    BY <1>3, <1>4, <1>5, <1>6
       DEF IInv, JournalOK, CompletedOnServer, CreatedByOperation, Truthful,
           Event, Success
  <1>11. ImageAfterVideo'
    <2>. SUFFICES ASSUME NEW i \in Images, Completed(i)' PROVE Completed(VideoOf[i])'
      BY DEF ImageAfterVideo
    <2>1. i \in Ops /\ VideoOf[i] \in Ops
      BY PlanAssumption
    <2>2. CASE i = out.op
      <3>1. VideoOf[i] = g
        BY <1>3, <2>2, MemberCases
      <3>2. VideoDone(g, 1)
        BY <1>3, <1>6, <2>2
      <3>3. Completed(g)
        BY <1>2, <3>2 DEF VideoDone
      <3>. QED
        BY <1>7, <2>1, <3>1, <3>3
    <2>3. CASE i # out.op
      <3>1. Completed(VideoOf[i])
        BY <1>6, <2>1, <2>3 DEF IInv, JournalOK, ImageAfterVideo
      <3>. QED
        BY <1>7, <2>1, <3>1
    <2>. QED
      BY <2>2, <2>3
  <1>. QED
    BY <1>1, <1>5, <1>8, <1>9, <1>10, <1>11
       DEF IInv, RunOK, LateOK, JournalOK, LinkedToVideo

-----------------------------------------------------------------------------
(* The server *)

\* A stored body keeps what is known of the assets.
LEMMA StoreOK ==
  ASSUME IInv, NEW op \in Ops, NEW link \in Checksums \cup {None},
         assets' = Stored(op, link), UNCHANGED journal, late' \subseteq late,
         op \in Images => /\ link = Sha1[VideoOf[op]]
                          /\ assets[Sha1[VideoOf[op]]] # None
  PROVE  JournalOK' /\ LateOK' /\ LinkedToVideo'
  <1>. TypeOK
    BY DEF IInv
  <1>1. /\ Grow
        /\ assets[Sha1[op]] = None => assets'[Sha1[op]] = [by |-> op, link |-> link]
        /\ \A c \in Checksums : c # Sha1[op] => assets'[c] = assets[c]
    BY StoredGrows
  <1>2. \A o \in Ops : Sha1[o] \in Checksums
    BY PlanAssumption
  <1>3. JournalOK'
    BY <1>1, <1>2
       DEF IInv, JournalOK, CompletedOnServer, ImageAfterVideo,
           CreatedByOperation, Completed, Grow
  <1>4. \A i \in Images : Sha1[VideoOf[i]] \in Checksums
    BY <1>2, PlanAssumption
  <1>5. LateOK'
    BY <1>1, <1>4 DEF IInv, LateOK, Grow
  <1>6. LinkedToVideo'
    <2>. SUFFICES ASSUME NEW c \in Checksums, assets'[c] # None,
                         assets'[c].by \in Images
                  PROVE  /\ assets'[c].link = Sha1[VideoOf[assets'[c].by]]
                         /\ assets'[Sha1[VideoOf[assets'[c].by]]] # None
      BY DEF LinkedToVideo
    <2>1. CASE assets[c] # None
      BY <1>1, <1>4, <2>1 DEF IInv, LinkedToVideo, Grow
    <2>2. CASE assets[c] = None
      <3>1. assets'[c] = [by |-> op, link |-> link]
        BY <1>1, <2>2
      <3>. QED
        BY <1>1, <1>4, <3>1 DEF Grow
    <2>. QED
      BY <2>1, <2>2
  <1>. QED
    BY <1>3, <1>5, <1>6

\* The server acting on an awaited body keeps the invariant.
LEMMA ServerCommitStep ==
  ASSUME IInv, NEW g \in Groups, ServerCommit(g)
  PROVE  IInv'
  <1>. TypeOK /\ GroupOK(g)
    BY DEF IInv
  <1>1. TypeOK'
    BY TypeStepServer
  <1>2. pc[g] = "upload" /\ pc[g] \in Working /\ pc[g] \in InLoop
    BY PlanAssumption DEF ServerCommit, GroupOK, RequestOK, Working, InLoop
  <1>3. cur[g] \in Members(g) /\ cur[g] \in Ops /\ Sha1[cur[g]] \in Checksums
    BY <1>2, WorkingOp
  <1>4. videoId[g] \in Checksums \cup {None}
    BY DEF TypeOK
  <1>5. cur[g] \in Images => /\ videoId[g] = Sha1[VideoOf[cur[g]]]
                             /\ assets[Sha1[VideoOf[cur[g]]]] # None
    BY <1>2, <1>3, MemberCases DEF GroupOK, VideoOK
  <1>6. /\ assets' = Stored(cur[g], videoId[g])
        /\ request'[g] = IF assets[Sha1[cur[g]]] = None THEN "created" ELSE "duplicate"
        /\ \A h \in Groups \ {g} : request'[h] = request[h]
        /\ UNCHANGED <<late, journal, completed, run, pc, cur, videoId, outcomes>>
    BY DEF ServerCommit, TypeOK, runVars
  <1>7. /\ Grow
        /\ assets'[Sha1[cur[g]]] # None
        /\ assets[Sha1[cur[g]]] = None =>
              assets'[Sha1[cur[g]]] = [by |-> cur[g], link |-> videoId[g]]
    BY <1>3, <1>4, <1>6, StoredGrows
  <1>8. JournalOK' /\ LateOK' /\ LinkedToVideo'
    <2>1. PICK o, l : o = cur[g] /\ l = videoId[g]
      OBVIOUS
    <2>. QED
      BY <1>3, <1>4, <1>5, <1>6, <2>1, StoreOK
  <1>9. \A h \in Groups : GroupOK(h)'
    <2>1. ASSUME NEW h \in Groups \ {g} PROVE GroupOK(h)'
      BY <1>6, <1>7, GroupFrame DEF SameGroup, SamePlace
    <2>2. PlaceOK(g)' /\ SnapshotOK(g)' /\ VideoOK(g)' /\ OutcomesOK(g)'
      BY <1>6, <1>7, PlaceFrame DEF SamePlace
    <2>3. RequestOK(g)'
      BY <1>2, <1>6, <1>7 DEF RequestOK
    <2>. QED
      BY <2>1, <2>2, <2>3 DEF GroupOK
  <1>. QED
    BY <1>1, <1>6, <1>8, <1>9 DEF IInv, RunOK, SnapshotTrue, Completed

\* The server acting on an abandoned body keeps the invariant.
LEMMA LateCommitStep ==
  ASSUME IInv, NEW u \in late, LateCommit(u)
  PROVE  IInv'
  <1>. TypeOK
    BY DEF IInv
  <1>1. TypeOK'
    BY TypeStepServer
  <1>2. PICK o, l : o = u.op /\ l = u.link
    OBVIOUS
  <1>3. o \in Ops /\ l \in Checksums \cup {None}
    BY <1>2 DEF TypeOK, UploadType
  <1>4. /\ assets' = Stored(o, l)
        /\ late' \subseteq late
        /\ UNCHANGED <<journal, completed, run, pc, cur, videoId, outcomes, request>>
    BY <1>2 DEF LateCommit, runVars, groupVars
  <1>5. Grow
    BY <1>3, <1>4, StoredGrows
  <1>6. o \in Images => l = Sha1[VideoOf[o]] /\ assets[Sha1[VideoOf[o]]] # None
    BY <1>2 DEF IInv, LateOK
  <1>7. JournalOK' /\ LateOK' /\ LinkedToVideo'
    BY <1>3, <1>4, <1>6, StoreOK
  <1>8. \A h \in Groups : GroupOK(h)'
    BY <1>4, <1>5, GroupFrame DEF SameGroup, SamePlace
  <1>. QED
    BY <1>1, <1>4, <1>7, <1>8 DEF IInv, RunOK, SnapshotTrue, Completed

-----------------------------------------------------------------------------
(* The run *)

\* A group that is not in the run.
LEMMA IdleGroup ==
  ASSUME NEW g \in Groups, pc'[g] = "absent", cur'[g] = None, videoId'[g] = None,
         outcomes'[g] = <<>>, request'[g] = None
  PROVE  GroupOK(g)'
  BY PlanAssumption
     DEF GroupOK, PlaceOK, SnapshotOK, RequestOK, VideoOK, OutcomesOK,
         InLoop, Working, Success

\* Starting, ending, cancelling and losing a run keep the invariant.
LEMMA RunStep ==
  ASSUME IInv, StartRun \/ EndRun \/ Cancel \/ Crash
  PROVE  IInv'
  <1>. TypeOK
    BY DEF IInv
  <1>1. TypeOK'
    BY TypeStepRun
  <1>2. UNCHANGED <<assets, journal>>
    BY DEF StartRun, EndRun, Cancel, Crash
  <1>3. JournalOK' /\ LinkedToVideo'
    BY <1>2
       DEF IInv, JournalOK, LinkedToVideo, CompletedOnServer, ImageAfterVideo,
           CreatedByOperation, Completed
  <1>4. ASSUME NEW h \in Groups, pc[h] = "absent"
        PROVE  /\ cur[h] = None /\ videoId[h] = None /\ outcomes[h] = <<>>
               /\ request[h] = None
    BY <1>4, NoRequest DEF IInv, GroupOK, PlaceOK
  <1>5. CASE StartRun
    <2>1. \A op \in Ops : completed'[op] =
              IF Completed(op) THEN journal[op].asset ELSE None
      BY <1>5 DEF StartRun, JournalCompleted, CompletedAssets
    <2>2. \A op \in Ops : Completed(op) => completed'[op] = Sha1[op] /\ Sha1[op] # None
      BY <2>1, PlanAssumption DEF IInv, JournalOK, CompletedOnServer
    <2>3. SnapshotTrue'
      BY <1>2, <2>1, <2>2 DEF SnapshotTrue, Completed
    <2>4. LateOK'
      BY <1>5, LateUnchanged DEF StartRun
    <2>5. ASSUME NEW h \in Groups PROVE GroupOK(h)'
      <3>1. /\ pc'[h] \in {"pending", "absent"} /\ cur'[h] = None
            /\ videoId'[h] = None /\ outcomes'[h] = <<>> /\ request'[h] = None
        BY <1>4, <1>5 DEF StartRun, IInv, RunOK
      <3>2. SnapshotOK(h)'
        BY <1>2, <2>2, <3>1, MembersAreOps, PlanAssumption
           DEF SnapshotOK, Completed, InLoop, Working
      <3>. QED
        BY <3>1, <3>2, PlanAssumption
           DEF GroupOK, PlaceOK, RequestOK, VideoOK, OutcomesOK, InLoop,
               Working, Success
    <2>. QED
      BY <1>1, <1>3, <1>5, <2>3, <2>4, <2>5 DEF IInv, RunOK, StartRun
  <1>6. CASE EndRun \/ Cancel
    <2>1. /\ UNCHANGED <<late, completed, pc, cur, videoId, outcomes, request>>
          /\ run' # "active" => \A g \in Groups : pc[g] = "absent"
      BY <1>6 DEF EndRun, Cancel, groupVars
    <2>2. \A h \in Groups : GroupOK(h)'
      BY <1>2, <2>1, GroupFrame DEF SameGroup, SamePlace, Grow
    <2>3. LateOK'
      BY <1>2, <2>1, LateUnchanged
    <2>. QED
      BY <1>1, <1>2, <1>3, <2>1, <2>2, <2>3 DEF IInv, RunOK, SnapshotTrue, Completed
  <1>7. CASE Crash
    <2>1. \A h \in Groups : GroupOK(h)'
      BY <1>7, IdleGroup DEF Crash
    <2>2. LateOK'
      BY <1>2, <1>7, AbandonedOK DEF Crash, LateOK
    <2>3. SnapshotTrue' /\ RunOK'
      BY <1>2, <1>7 DEF Crash, IInv, SnapshotTrue, RunOK, Completed
    <2>. QED
      BY <1>1, <1>3, <2>1, <2>2, <2>3 DEF IInv
  <1>. QED
    BY <1>5, <1>6, <1>7

-----------------------------------------------------------------------------
(* The theorems *)

\* The invariant holds at first.
LEMMA InitIInv == Init => IInv
  <1>. SUFFICES ASSUME Init PROVE IInv
    OBVIOUS
  <1>1. TypeOK
    BY InitTypeOK
  <1>2. \A op \in Ops : ~Completed(op) /\ journal[op].kind # "created"
    BY DEF Init, Completed, Event, Success
  <1>3. JournalOK
    BY <1>2, PlanAssumption
       DEF JournalOK, CompletedOnServer, ImageAfterVideo, CreatedByOperation
  <1>4. LinkedToVideo
    BY PlanAssumption DEF Init, LinkedToVideo
  <1>5. \A g \in Groups : GroupOK(g)
    BY PlanAssumption
       DEF Init, GroupOK, PlaceOK, SnapshotOK, RequestOK, VideoOK, OutcomesOK,
           InLoop, Working, Success
  <1>. QED
    BY <1>1, <1>3, <1>4, <1>5 DEF Init, IInv, RunOK, SnapshotTrue, LateOK

\* Every step keeps the invariant.
LEMMA NextIInv == IInv /\ [Next]_vars => IInv'
  <1>. SUFFICES ASSUME IInv, [Next]_vars PROVE IInv'
    OBVIOUS
  <1>1. CASE UNCHANGED vars
    <2>1. TypeOK'
      BY TypeStep
    <2>2. \A h \in Groups : GroupOK(h)'
      BY <1>1, GroupFrame
         DEF SameGroup, SamePlace, Grow, vars, runVars, groupVars
    <2>3. LateOK'
      BY <1>1, LateUnchanged DEF vars
    <2>. QED
      BY <1>1, <2>1, <2>2, <2>3
         DEF IInv, RunOK, SnapshotTrue, JournalOK, LinkedToVideo,
             CompletedOnServer, ImageAfterVideo, CreatedByOperation, Completed,
             vars, runVars, groupVars
  <1>2. CASE StartRun \/ EndRun \/ Cancel \/ Crash
    BY <1>2, RunStep
  <1>3. ASSUME NEW g \in Groups, GroupStep(g) PROVE IInv'
    BY <1>3, OperationStep, StartGroupStep, NextOperationStep, AppendStep,
       CollectStep DEF GroupStep
  <1>4. ASSUME NEW g \in Groups, ServerCommit(g) PROVE IInv'
    BY <1>4, ServerCommitStep
  <1>5. ASSUME NEW u \in late, LateCommit(u) PROVE IInv'
    BY <1>5, LateCommitStep
  <1>. QED
    BY <1>1, <1>2, <1>3, <1>4, <1>5 DEF Next

\* The inductive invariant of the executor: what each group knows of the
\* server, the journal and its video between two awaits, for every plan.
THEOREM Invariance == Spec => []IInv
  BY InitIInv, NextIInv, PTL DEF Spec

\* Every variable keeps its type for every plan, concurrency and retry
\* configuration.
THEOREM TypeCorrect == Spec => []TypeOK
  <1>1. IInv => TypeOK
    BY DEF IInv
  <1>. QED
    BY <1>1, Invariance, PTL

\* A completed event of the checkpoint names the asset of the operation's own
\* media and the server holds it: apply.rs may skip the operation on resume.
THEOREM CompletedIsOnServer == Spec => []CompletedOnServer
  <1>1. IInv => CompletedOnServer
    BY DEF IInv, JournalOK
  <1>. QED
    BY <1>1, Invariance, PTL

\* The checkpoint never has a live-photo image complete without its video.
THEOREM ImageIsAfterVideo == Spec => []ImageAfterVideo
  <1>1. IInv => ImageAfterVideo
    BY DEF IInv, JournalOK
  <1>. QED
    BY <1>1, Invariance, PTL

\* Every asset made from an image's body is linked to its own video's asset.
THEOREM AssetsAreLinked == Spec => []LinkedToVideo
  <1>1. IInv => LinkedToVideo
    BY DEF IInv
  <1>. QED
    BY <1>1, Invariance, PTL

\* The journal says "created" only of the operation whose body made the asset.
THEOREM CreatedIsTrue == Spec => []CreatedByOperation
  <1>1. IInv => CreatedByOperation
    BY DEF IInv, JournalOK
  <1>. QED
    BY <1>1, Invariance, PTL

-----------------------------------------------------------------------------
(* The executor implements the ledger *)

\* At first the ledger is empty.
LEMMA LedgerInit == Init => Ledger!Init
  <1>. SUFFICES ASSUME Init PROVE Ledger!Init
    OBVIOUS
  <1>1. \A op \in Ops : ~Completed(op)
    BY DEF Init, Completed, Event, Success
  <1>2. CompletedAssets = [op \in Ops |-> None]
    BY <1>1 DEF CompletedAssets
  <1>. QED
    BY <1>2 DEF Ledger!Init

\* A stored body is a Store step or none.
LEMMA LedgerStore ==
  ASSUME IInv, NEW op \in Ops, NEW link \in Checksums \cup {None},
         assets' = Stored(op, link), UNCHANGED journal
  PROVE  Ledger!Next
  <1>1. Sha1[op] \in Checksums
    BY PlanAssumption
  <1>2. /\ Grow
        /\ assets'[Sha1[op]] # None
        /\ \A c \in Checksums : c # Sha1[op] => assets'[c] = assets[c]
    BY StoredGrows DEF IInv
  <1>3. {c \in Checksums : assets'[c] # None} =
            {c \in Checksums : assets[c] # None} \cup {Sha1[op]}
    BY <1>1, <1>2 DEF Grow
  <1>4. CompletedAssets' = CompletedAssets
    BY DEF CompletedAssets, Completed
  <1>. QED
    BY <1>1, <1>3, <1>4 DEF Ledger!Next, Ledger!Store

\* An appended event is a Record step if it completes its operation.
LEMMA LedgerRecord ==
  ASSUME IInv, IInv', NEW g \in Groups, Append1(g)
  PROVE  Ledger!Next \/ UNCHANGED Ledger!vars
  <1>. TypeOK /\ GroupOK(g)
    BY DEF IInv
  <1>1. PICK out : out = Head(outcomes[g])
    OBVIOUS
  <1>2. 1 \in DOMAIN outcomes[g] /\ out = outcomes[g][1]
    BY <1>1 DEF TypeOK, Append1
  <1>3. /\ out.op \in Members(g) /\ ~Completed(out.op) /\ Truthful(out)
        /\ (out.op \in Images /\ out.kind \in Success) => VideoDone(g, 1)
    BY <1>2 DEF GroupOK, OutcomesOK
  <1>4. out.op \in Ops /\ Sha1[out.op] \in Checksums
    BY <1>3, MembersAreOps, PlanAssumption
  <1>5. /\ journal' = [journal EXCEPT ![out.op] = Event(out.kind, out.asset)]
        /\ UNCHANGED assets
    BY <1>1 DEF Append1
  <1>6. journal'[out.op] = Event(out.kind, out.asset)
        /\ \A op \in Ops : op # out.op => journal'[op] = journal[op]
    BY <1>4, <1>5 DEF TypeOK
  <1>7. CASE out.kind \in Success
    <2>1. CompletedAssets' = [CompletedAssets EXCEPT ![out.op] = Sha1[out.op]]
      <3>1. journal'[out.op].kind \in Success /\ journal'[out.op].asset = Sha1[out.op]
        BY <1>3, <1>6, <1>7 DEF Event, Truthful
      <3>2. \A op \in Ops : CompletedAssets'[op] =
                IF op = out.op THEN Sha1[out.op] ELSE CompletedAssets[op]
        BY <1>6, <3>1 DEF CompletedAssets, Completed
      <3>3. /\ CompletedAssets' = [op \in Ops |-> CompletedAssets'[op]]
            /\ CompletedAssets = [op \in Ops |-> CompletedAssets[op]]
        BY DEF CompletedAssets
      <3>. QED
        BY <3>2, <3>3
    <2>2. CompletedAssets[out.op] = None
      BY <1>3, <1>4 DEF CompletedAssets
    <2>3. out.op \in Images => CompletedAssets[VideoOf[out.op]] # None
      <3>. SUFFICES ASSUME out.op \in Images
                    PROVE  CompletedAssets[VideoOf[out.op]] # None
        OBVIOUS
      <3>1. VideoOf[out.op] = g /\ g \in Ops
        BY <1>3, MemberCases DEF Groups
      <3>2. Completed(g)
        BY <1>2, <1>3, <1>7 DEF VideoDone, TypeOK
      <3>3. CompletedAssets[g] = Sha1[g] /\ Sha1[g] \in Checksums
        BY <3>1, <3>2, PlanAssumption
           DEF CompletedAssets, IInv, JournalOK, CompletedOnServer
      <3>. QED
        BY <3>1, <3>3, PlanAssumption
    <2>4. assets[Sha1[out.op]] # None
      BY <1>3, <1>7 DEF Truthful
    <2>5. Ledger!Record(out.op)
      BY <1>4, <1>5, <2>1, <2>2, <2>3, <2>4 DEF Ledger!Record
    <2>. QED
      BY <1>4, <2>5 DEF Ledger!Next
  <1>8. CASE out.kind \notin Success
    <2>1. CompletedAssets' = CompletedAssets
      BY <1>3, <1>4, <1>6, <1>8 DEF CompletedAssets, Completed, Event
    <2>. QED
      BY <1>5, <2>1 DEF Ledger!vars
  <1>. QED
    BY <1>7, <1>8

\* Every step of the executor is a step of the ledger or a stutter.
LEMMA LedgerStep == IInv /\ IInv' /\ [Next]_vars => [Ledger!Next]_(Ledger!vars)
  <1>. SUFFICES ASSUME IInv, IInv', [Next]_vars
                PROVE  Ledger!Next \/ UNCHANGED Ledger!vars
    OBVIOUS
  <1>1. CASE UNCHANGED <<assets, journal>>
    <2>1. CompletedAssets' = CompletedAssets
      BY <1>1 DEF CompletedAssets, Completed
    <2>. QED
      BY <1>1, <2>1 DEF Ledger!vars
  <1>2. CASE UNCHANGED vars
    BY <1>1, <1>2 DEF vars
  <1>3. CASE StartRun \/ EndRun \/ Cancel \/ Crash
    BY <1>1, <1>3 DEF StartRun, EndRun, Cancel, Crash
  <1>4. ASSUME NEW g \in Groups, GroupStep(g), ~Append1(g)
        PROVE  UNCHANGED <<assets, journal>>
    BY <1>4
       DEF GroupStep, OperationFrame, StartGroup, NextOperation, CheckDuplicate,
           CheckAccept, CheckCancelled, RetryDelayOver, SendUpload, UploadOk,
           UploadCancelled, ReconcileDuplicate, ReconcileUnknown, Collect,
           CheckError, UploadError
  <1>5. ASSUME NEW g \in Groups, Append1(g)
        PROVE  Ledger!Next \/ UNCHANGED Ledger!vars
    BY <1>5, LedgerRecord
  <1>6. ASSUME NEW g \in Groups, ServerCommit(g) PROVE Ledger!Next
    <2>1. pc[g] \in Working
      BY <1>6, PlanAssumption
         DEF ServerCommit, IInv, GroupOK, RequestOK, Working
    <2>2. PICK o, l : o = cur[g] /\ l = videoId[g]
      OBVIOUS
    <2>3. o \in Ops /\ l \in Checksums \cup {None}
      BY <2>1, <2>2, WorkingOp DEF IInv, TypeOK
    <2>. QED
      BY <1>6, <2>2, <2>3, LedgerStore DEF ServerCommit
  <1>7. ASSUME NEW u \in late, LateCommit(u) PROVE Ledger!Next
    <2>1. PICK o, l : o = u.op /\ l = u.link
      OBVIOUS
    <2>2. o \in Ops /\ l \in Checksums \cup {None}
      BY <2>1 DEF IInv, TypeOK, UploadType
    <2>. QED
      BY <1>7, <2>1, <2>2, LedgerStore DEF LateCommit
  <1>. QED
    BY <1>1, <1>2, <1>3, <1>4, <1>5, <1>6, <1>7 DEF Next

\* The executor implements the ledger: whatever faults happen, the checkpoint
\* grows by one stored operation at a time, videos first, and forgets none.
THEOREM ImplementsLedger == Spec => LedgerSpec
  BY Invariance, LedgerInit, LedgerStep, PTL DEF Spec, LedgerSpec, Ledger!Spec

-----------------------------------------------------------------------------
(* The report *)

\* Something in the report tells the operator to look again.
Dirty == report.failed > 0 \/ report.indeterminate > 0 \/ report.cancelled

\* Whatever operation of group g is not complete is still to be worked on, or
\* its outcome is on its way, or the report says or will say that it failed.
Accounted(g) ==
    \/ Dirty
    \/ \E k \in DOMAIN outcomes[g] : outcomes[g][k].kind \in Failure
    \/ \A op \in Members(g) :
          \/ Completed(op)
          \/ pc[g] = "pending"
          \/ pc[g] \in InLoop /\ op \in Todo(g)
          \/ \E k \in DOMAIN outcomes[g] : outcomes[g][k].op = op

\* Between two operations a group holds no retries.
Settled(g) == pc[g] \in {"absent", "pending", "next", "finished"} => retries[g] = 0

BudgetOK ==
    /\ IsFiniteSet(Unreported)
    /\ report.retried + Cardinality(Unreported) <= used
    /\ used <= MaxRetries

RInv ==
    /\ \A g \in Groups : Settled(g)
    /\ ReportMatchesJournal
    /\ run # "idle" => BudgetOK /\ \A g \in Groups : Accounted(g)

\* What a group holds depends on its own state.
SameCount(h) == SamePlace(h) /\ retries'[h] = retries[h]

\* A group that stays where it is holds the same retries.
LEMMA RetriesFrame ==
  ASSUME NEW h \in Groups, SameCount(h)
  PROVE  /\ GroupRetries(h)' = GroupRetries(h)
         /\ Settled(h) => Settled(h)'
  <1>1. Held(h)' = Held(h) /\ HeldRetries(h)' = HeldRetries(h)
    BY DEF SameCount, SamePlace, Held, HeldRetries
  <1>2. UNION {OutcomeRetries(outcomes[h][k]) : k \in DOMAIN outcomes[h]}'
          = UNION {OutcomeRetries(outcomes[h][k]) : k \in DOMAIN outcomes[h]}
    BY DEF SameCount, SamePlace, OutcomeRetries
  <1>. QED
    BY <1>1, <1>2 DEF GroupRetries, Settled, SameCount, SamePlace

\* The report only gets worse, and complete operations stay complete.
LEMMA AccountedFrame ==
  ASSUME NEW h \in Groups, SamePlace(h), Dirty => Dirty',
         \A op \in Members(h) : Completed(op) => Completed(op)',
         Accounted(h)
  PROVE  Accounted(h)'
  <1>1. Todo(h)' = Todo(h)
    BY DEF Todo, SamePlace
  <1>. QED
    BY <1>1 DEF Accounted, SamePlace

\* A smaller set of unreported retries, or one more and one more claimed.
LEMMA BudgetFrame ==
  ASSUME TypeOK, TypeOK', BudgetOK, report'.retried = report.retried,
         \/ used' = used /\ Unreported' \subseteq Unreported
         \/ /\ used' = used + 1 /\ used < MaxRetries
            /\ \E x : Unreported' \subseteq Unreported \cup {x}
  PROVE  BudgetOK'
  <1>1. /\ IsFiniteSet(Unreported) /\ Cardinality(Unreported) \in Nat
        /\ report.retried \in Nat /\ used \in Nat /\ MaxRetries \in Nat
    BY FS_CardinalityType, ConfigAssumption DEF BudgetOK, TypeOK, ReportType
  <1>2. CASE used' = used /\ Unreported' \subseteq Unreported
    <2>1. IsFiniteSet(Unreported') /\ Cardinality(Unreported') <= Cardinality(Unreported)
      BY <1>1, <1>2, FS_Subset
    <2>2. Cardinality(Unreported') \in Nat
      BY <2>1, FS_CardinalityType
    <2>. QED
      BY <1>1, <1>2, <2>1, <2>2 DEF BudgetOK
  <1>3. ASSUME used' = used + 1, used < MaxRetries, NEW x, Unreported' \subseteq Unreported \cup {x}
        PROVE  BudgetOK'
    <2>1. /\ IsFiniteSet(Unreported \cup {x})
          /\ Cardinality(Unreported \cup {x}) <= Cardinality(Unreported) + 1
      <3>1. /\ IsFiniteSet(Unreported \cup {x})
            /\ \/ Cardinality(Unreported \cup {x}) = Cardinality(Unreported)
               \/ Cardinality(Unreported \cup {x}) = Cardinality(Unreported) + 1
        BY <1>1, FS_AddElement, Zenon
      <3>. QED
        BY <1>1, <3>1
    <2>2. IsFiniteSet(Unreported') /\ Cardinality(Unreported') <= Cardinality(Unreported \cup {x})
      BY <1>3, <2>1, FS_Subset
    <2>3. Cardinality(Unreported') \in Nat /\ Cardinality(Unreported \cup {x}) \in Nat
      BY <2>1, <2>2, FS_CardinalityType
    <2>. QED
      BY <1>1, <1>3, <2>1, <2>2, <2>3 DEF BudgetOK
  <1>. QED
    BY <1>2, <1>3

\* A step of one group that leaves the journal alone.
LEMMA ReportFrame ==
  ASSUME TypeOK, TypeOK', RInv, NEW g \in Groups,
         UNCHANGED <<run, journal>>,
         \A h \in Groups \ {g} : SameCount(h),
         /\ report'.resumed = report.resumed /\ report'.created = report.created
         /\ report'.duplicate = report.duplicate /\ report'.retried = report.retried,
         Dirty => Dirty',
         Settled(g)',
         Accounted(g) => Accounted(g)',
         \/ used' = used /\ GroupRetries(g)' \subseteq GroupRetries(g)
         \/ /\ used' = used + 1 /\ used < MaxRetries
            /\ \E x : GroupRetries(g)' \subseteq GroupRetries(g) \cup {x}
  PROVE  RInv'
  <1>1. \A h \in Groups : Settled(h)'
    BY RetriesFrame DEF RInv
  <1>2. ReportMatchesJournal'
    BY DEF RInv, ReportMatchesJournal, Completed
  <1>3. ASSUME run # "idle" PROVE BudgetOK' /\ \A h \in Groups : Accounted(h)'
    <2>1. \A h \in Groups \ {g} : GroupRetries(h)' = GroupRetries(h)
      BY RetriesFrame
    <2>2. ASSUME NEW x, GroupRetries(g)' \subseteq GroupRetries(g) \cup {x}
          PROVE  Unreported' \subseteq Unreported \cup {x}
      BY <2>1, <2>2 DEF Unreported
    <2>3. GroupRetries(g)' \subseteq GroupRetries(g) => Unreported' \subseteq Unreported
      BY <2>1 DEF Unreported
    <2>4. BudgetOK'
      BY <1>3, <2>2, <2>3, BudgetFrame DEF RInv
    <2>5. \A h \in Groups \ {g} : Accounted(h)'
      <3>1. \A op : Completed(op) => Completed(op)'
        BY DEF Completed
      <3>. QED
        BY <1>3, <3>1, AccountedFrame DEF RInv, SameCount
    <2>. QED
      BY <1>3, <2>4, <2>5 DEF RInv
  <1>. QED
    BY <1>1, <1>2, <1>3 DEF RInv

\* What a group that stands at an operation holds.
LEMMA HeldType ==
  ASSUME TypeOK, NEW g \in Groups
  PROVE  /\ retries[g] \in Nat /\ Held(g) \in Nat
         /\ Held(g) = retries[g] \/ Held(g) = retries[g] + 1
         /\ pc[g] \notin {"checkWait", "uploadWait"} => Held(g) = retries[g]
         /\ pc[g] \in {"checkWait", "uploadWait"} => Held(g) = retries[g] + 1
  BY DEF TypeOK, Held

\* A group that concludes its operation, or returns, passes the retries of the
\* operation on with its outcome, or keeps the outcomes it had.
LEMMA RetriesPassedOn ==
  ASSUME TypeOK, NEW g \in Groups, NEW outs, NEW kind, NEW asset,
         outs = outcomes[g] \/ outs = With(g, kind, asset),
         outcomes' = [outcomes EXCEPT ![g] = outs],
         retries' = [retries EXCEPT ![g] = 0],
         pc'[g] \in {"next", "finished"}
  PROVE  GroupRetries(g)' \subseteq GroupRetries(g) /\ Settled(g)'
  <1>1. outcomes'[g] = outs /\ retries'[g] = 0
    BY DEF TypeOK
  <1>2. HeldRetries(g)' = {}
    BY <1>1 DEF HeldRetries, Held
  <1>3. OutcomeRetries(Outcome(cur[g], kind, asset, retries[g])) \subseteq HeldRetries(g)
    <2>1. 1..retries[g] \subseteq 1..Held(g)
      BY HeldType
    <2>. QED
      BY <2>1 DEF OutcomeRetries, HeldRetries, Outcome
  <1>4. \A k \in DOMAIN outs : OutcomeRetries(outs[k]) \subseteq GroupRetries(g)
    <2>1. CASE outs = outcomes[g]
      BY <2>1 DEF GroupRetries
    <2>2. CASE outs = With(g, kind, asset)
      <3>1. ASSUME NEW k \in DOMAIN outs
            PROVE  \/ k \in DOMAIN outcomes[g] /\ outs[k] = outcomes[g][k]
                   \/ outs[k] = Outcome(cur[g], kind, asset, retries[g])
        BY <2>2, WithElements
      <3>. QED
        BY <1>3, <3>1 DEF GroupRetries
    <2>. QED
      BY <2>1, <2>2
  <1>5. GroupRetries(g)' = UNION {OutcomeRetries(outs[k]) : k \in DOMAIN outs}
    BY <1>1, <1>2 DEF GroupRetries, OutcomeRetries
  <1>. QED
    BY <1>1, <1>4, <1>5 DEF Settled

\* The list of a group holds one operation less after the current one.
LEMMA AdvanceLeaves ==
  ASSUME TypeOK, NEW g \in Groups, cur[g] \in Members(g), Advance(g)
  PROVE  Todo(g) \subseteq Todo(g)' \cup {cur[g]}
  <1>1. cur[g] \in Ops /\ cur'[g] = After(cur[g])
    BY MembersAreOps DEF Advance, TypeOK
  <1>. SUFFICES ASSUME NEW op \in Members(g), op \in Images, VideoOf[op] = cur[g]
                PROVE  op = cur'[g]
    BY DEF Todo
  <1>2. cur[g] \in Videos
    BY DEF Videos
  <1>3. After(cur[g]) \in Images /\ VideoOf[After(cur[g])] = cur[g]
    BY <1>1, <1>2, AfterType
  <1>. QED
    BY <1>1, <1>3, PlanAssumption

\* A group that returns: the outcome added is a failure, the group is cancelled
\* or it was at the end of its list.
LEMMA ReportFinish ==
  ASSUME IInv, TypeOK', RInv, NEW g \in Groups, NEW outs, NEW c \in BOOLEAN, Finish(g, outs, c),
         UNCHANGED <<run, journal, used>>, pc[g] \in InLoop,
         \/ outs = outcomes[g] /\ (c \/ cur[g] = None)
         \/ \E kind \in Failure : outs = With(g, kind, None)
  PROVE  RInv'
  <1>. TypeOK
    BY DEF IInv
  <1>1. /\ pc'[g] = "finished" /\ outcomes'[g] = outs
        /\ \A h \in Groups \ {g} : SameCount(h)
    BY DEF Finish, TypeOK, SameCount, SamePlace
  <1>2. /\ report'.resumed = report.resumed /\ report'.created = report.created
        /\ report'.duplicate = report.duplicate /\ report'.retried = report.retried
        /\ report'.failed = report.failed /\ report'.indeterminate = report.indeterminate
        /\ report'.cancelled = (report.cancelled \/ c)
    BY DEF Finish, TypeOK, ReportType
  <1>3. GroupRetries(g)' \subseteq GroupRetries(g) /\ Settled(g)'
    BY <1>1, RetriesPassedOn DEF Finish
  <1>4. (Dirty => Dirty') /\ (c => Dirty')
    BY <1>2 DEF Dirty
  <1>5. Accounted(g) => Accounted(g)'
    <2>1. CASE c
      BY <1>4, <2>1 DEF Accounted
    <2>2. CASE outs = outcomes[g] /\ cur[g] = None
      <3>1. Todo(g) = {}
        BY <2>2, PlanAssumption, MembersAreOps DEF Todo
      <3>2. pc[g] # "pending"
        BY DEF InLoop, Working
      <3>. QED
        BY <1>1, <1>4, <2>2, <3>1, <3>2 DEF Accounted, Completed
    <2>3. ASSUME NEW kind \in Failure, outs = With(g, kind, None) PROVE Accounted(g)'
      <3>1. /\ Len(outcomes[g]) + 1 \in DOMAIN outs
            /\ outs[Len(outcomes[g]) + 1] = Outcome(cur[g], kind, None, retries[g])
        BY <2>3, WithElements
      <3>. QED
        BY <1>1, <3>1 DEF Accounted, Outcome
    <2>. QED
      BY <2>1, <2>2, <2>3
  <1>. QED
    BY <1>1, <1>2, <1>3, <1>4, <1>5, ReportFrame

\* operation::apply returned Completed(outcome).
LEMMA ReportConclude ==
  ASSUME IInv, TypeOK', RInv, NEW g \in Groups, pc[g] \in Working,
         NEW kind \in Success \cup Failure, NEW asset \in Checksums \cup {None},
         asset = None <=> kind \in Failure,
         Conclude(g, kind, asset), UNCHANGED <<run, journal, used>>
  PROVE  RInv'
  <1>. TypeOK
    BY DEF IInv
  <1>0. pc[g] \in InLoop /\ cur[g] \in Members(g)
    BY WorkingOp DEF InLoop
  <1>1. CASE cur[g] \in Videos /\ asset = None
    BY <1>0, <1>1, ReportFinish DEF Conclude
  <1>2. CASE ~(cur[g] \in Videos /\ asset = None)
    <2>1. Advance(g) /\ outcomes' = [outcomes EXCEPT ![g] = With(g, kind, asset)]
          /\ videoId' = [videoId EXCEPT ![g] = IF cur[g] \in Videos THEN asset ELSE @]
      BY <1>2 DEF Conclude
    <2>2. /\ pc'[g] = "next" /\ outcomes'[g] = With(g, kind, asset) /\ report' = report
          /\ retries' = [retries EXCEPT ![g] = 0]
          /\ \A h \in Groups \ {g} : SameCount(h)
      BY <2>1 DEF Advance, TypeOK, SameCount, SamePlace
    <2>3. GroupRetries(g)' \subseteq GroupRetries(g) /\ Settled(g)'
      BY <2>1, <2>2, RetriesPassedOn
    <2>4. Accounted(g) => Accounted(g)'
      <3>1. Todo(g) \subseteq Todo(g)' \cup {cur[g]}
        BY <1>0, <2>1, AdvanceLeaves
      <3>2. /\ \A k \in DOMAIN outcomes[g] : k \in DOMAIN outcomes'[g] /\ outcomes'[g][k] = outcomes[g][k]
            /\ \E k \in DOMAIN outcomes'[g] : outcomes'[g][k].op = cur[g]
        <4>1. PICK s : s = With(g, kind, asset)
          OBVIOUS
        <4>2. /\ Len(outcomes[g]) \in Nat
              /\ DOMAIN outcomes[g] = 1 .. Len(outcomes[g])
              /\ DOMAIN s = 1 .. (Len(outcomes[g]) + 1)
              /\ \A k \in DOMAIN outcomes[g] : s[k] = outcomes[g][k]
              /\ s[Len(outcomes[g]) + 1] = Outcome(cur[g], kind, asset, retries[g])
          BY <4>1, WithElements
        <4>3. s[Len(outcomes[g]) + 1].op = cur[g]
          BY <4>2 DEF Outcome
        <4>. QED
          BY <2>2, <4>1, <4>2, <4>3
      <3>3. pc[g] # "pending" /\ pc'[g] \in InLoop
        BY <2>2 DEF InLoop, Working
      <3>. QED
        BY <2>2, <3>1, <3>2, <3>3 DEF Accounted, Completed, Dirty
    <2>. QED
      BY <2>2, <2>3, <2>4, ReportFrame DEF Dirty
  <1>. QED
    BY <1>1, <1>2

\* A group that waits for something else, with or without a claim.
LEMMA ReportWait ==
  ASSUME IInv, TypeOK', RInv, NEW g \in Groups, pc[g] \in InLoop, NEW loc \in Working,
         pc' = [pc EXCEPT ![g] = loc], UNCHANGED <<cur, outcomes, videoId, report, run, journal>>,
         \A h \in Groups \ {g} : retries'[h] = retries[h],
         \/ used' = used /\ Held(g)' = Held(g)
         \/ used' = used + 1 /\ used < MaxRetries /\ Held(g)' = Held(g) + 1
  PROVE  RInv'
  <1>. TypeOK
    BY DEF IInv
  <1>1. /\ pc'[g] = loc /\ pc'[g] \in InLoop
        /\ \A h \in Groups \ {g} : SameCount(h)
    BY DEF TypeOK, SameCount, SamePlace, InLoop
  <1>2. Settled(g)'
    BY <1>1 DEF Settled, Working
  <1>3. Accounted(g) => Accounted(g)'
    <2>1. Todo(g)' = Todo(g) /\ pc[g] # "pending"
      BY DEF Todo, InLoop, Working
    <2>. QED
      BY <1>1, <2>1 DEF Accounted, Completed, Dirty
  <1>4. Held(g) \in Nat
    BY HeldType
  <1>5. UNION {OutcomeRetries(outcomes[g][k]) : k \in DOMAIN outcomes[g]}'
          = UNION {OutcomeRetries(outcomes[g][k]) : k \in DOMAIN outcomes[g]}
    BY DEF OutcomeRetries
  <1>6. CASE Held(g)' = Held(g)
    <2>1. HeldRetries(g)' = HeldRetries(g)
      BY <1>6 DEF HeldRetries
    <2>2. GroupRetries(g)' = GroupRetries(g)
      BY <1>5, <2>1 DEF GroupRetries
    <2>. QED
      BY <1>1, <1>2, <1>3, <1>4, <1>6, <2>2, ReportFrame DEF Dirty
  <1>7. CASE used' = used + 1 /\ used < MaxRetries /\ Held(g)' = Held(g) + 1
    <2>1. 1..(Held(g) + 1) = (1..Held(g)) \cup {Held(g) + 1}
      BY <1>4
    <2>2. HeldRetries(g)' = HeldRetries(g) \cup {<<cur[g], Held(g) + 1>>}
      BY <1>7, <2>1 DEF HeldRetries
    <2>3. GroupRetries(g)' \subseteq GroupRetries(g) \cup {<<cur[g], Held(g) + 1>>}
      BY <1>5, <2>2 DEF GroupRetries
    <2>. QED
      BY <1>1, <1>2, <1>3, <1>7, <2>3, ReportFrame DEF Dirty
  <1>. QED
    BY <1>6, <1>7

\* The steps of one operation.
LEMMA ReportOperation ==
  ASSUME IInv, TypeOK', RInv, NEW g \in Groups,
         \/ CheckDuplicate(g) \/ CheckAccept(g) \/ CheckCancelled(g)
         \/ RetryDelayOver(g) \/ SendUpload(g) \/ UploadOk(g)
         \/ UploadCancelled(g) \/ ReconcileDuplicate(g) \/ ReconcileUnknown(g)
         \/ \E class \in ErrorClass : CheckError(g, class) \/ UploadError(g, class)
  PROVE  RInv'
  <1>. TypeOK
    BY DEF IInv
  <1>0. pc[g] \in Working
    BY DEF Working, At, CheckDuplicate, CheckAccept, CheckCancelled,
           RetryDelayOver, SendUpload, UploadOk, UploadCancelled,
           ReconcileDuplicate, ReconcileUnknown, CheckError, UploadError
  <1>1. /\ pc[g] \in InLoop
        /\ Sha1[cur[g]] \in Checksums /\ Sha1[cur[g]] # None
    BY <1>0, WorkingOp, PlanAssumption DEF InLoop
  <1>2. /\ UNCHANGED <<run, journal>>
        /\ g \in DOMAIN pc /\ g \in DOMAIN retries /\ retries[g] \in Nat
    BY DEF OperationFrame, TypeOK, CheckDuplicate, CheckAccept, CheckCancelled,
           RetryDelayOver, SendUpload, UploadOk, UploadCancelled,
           ReconcileDuplicate, ReconcileUnknown, CheckError, UploadError
  <1>3. ASSUME NEW kind \in Success, Conclude(g, kind, Sha1[cur[g]]), used' = used
        PROVE  RInv'
    <2>1. kind \notin Failure
      BY DEF Success, Failure
    <2>. QED
      BY <1>0, <1>1, <1>2, <1>3, <2>1, ReportConclude
  <1>4. ASSUME NEW kind \in Failure, Conclude(g, kind, None), used' = used
        PROVE  RInv'
    BY <1>0, <1>2, <1>4, ReportConclude
  <1>5. ASSUME NEW outs, CancelGroup(g, outs), used' = used,
               outs = outcomes[g] \/ outs = With(g, "indeterminate", None)
        PROVE  RInv'
    <2>1. Finish(g, outs, TRUE)
      BY <1>5 DEF CancelGroup
    <2>2. "indeterminate" \in Failure
      BY DEF Failure
    <2>3. \/ outs = outcomes[g] /\ (TRUE \/ cur[g] = None)
          \/ \E kind \in Failure : outs = With(g, kind, None)
      BY <1>5, <2>2
    <2>. QED
      BY <1>1, <1>2, <1>5, <2>1, <2>3, ReportFinish
  <1>6. ASSUME NEW loc \in {"upload", "reconcile"}, Wait(g, loc), used' = used,
               pc[g] \notin {"checkWait", "uploadWait"}
        PROVE  RInv'
    <2>1. Held(g)' = Held(g)
      BY <1>2, <1>6 DEF Held, Wait
    <2>2. loc \in Working
      BY <1>6 DEF Working
    <2>. QED
      BY <1>1, <1>2, <1>6, <2>1, <2>2, ReportWait DEF Wait
  <1>7. ASSUME NEW loc \in {"checkWait", "uploadWait"}, Wait(g, loc), Claim, CanClaim,
               pc[g] \notin {"checkWait", "uploadWait"}
        PROVE  RInv'
    <2>1. Held(g)' = Held(g) + 1
      BY <1>2, <1>7 DEF Held, Wait
    <2>2. loc \in Working
      BY <1>7 DEF Working
    <2>. QED
      BY <1>1, <1>2, <1>7, <2>1, <2>2, ReportWait DEF Wait, Claim, CanClaim
  <1>8. CASE CheckDuplicate(g) \/ UploadOk(g) \/ ReconcileDuplicate(g)
    <2>1. used' = used /\ \E kind \in Success : Conclude(g, kind, Sha1[cur[g]])
      BY <1>8 DEF CheckDuplicate, UploadOk, ReconcileDuplicate, Success
    <2>. QED
      BY <1>3, <2>1
  <1>9. CASE CheckAccept(g)
    BY <1>6, <1>9 DEF CheckAccept, At
  <1>10. CASE CheckCancelled(g)
    BY <1>5, <1>10 DEF CheckCancelled
  <1>11. CASE UploadCancelled(g)
    BY <1>5, <1>11 DEF UploadCancelled
  <1>12. CASE ReconcileUnknown(g)
    BY <1>4, <1>5, <1>12 DEF ReconcileUnknown, Failure
  <1>13. CASE RetryDelayOver(g)
    <2>1. /\ pc' = [pc EXCEPT ![g] = "check"] /\ used' = used
          /\ retries' = [retries EXCEPT ![g] = @ + 1]
          /\ UNCHANGED <<cur, outcomes, videoId, report>>
          /\ pc[g] \in {"checkWait", "uploadWait"}
      BY <1>13 DEF RetryDelayOver, At
    <2>2. Held(g)' = Held(g)
      BY <1>2, <2>1 DEF Held
    <2>3. \A h \in Groups \ {g} : retries'[h] = retries[h]
      BY <2>1 DEF TypeOK
    <2>4. "check" \in Working
      BY DEF Working
    <2>. QED
      BY <1>1, <1>2, <2>1, <2>2, <2>3, <2>4, ReportWait
  <1>14. CASE SendUpload(g)
    <2>1. /\ UNCHANGED <<used, report, pc, cur, retries, videoId, outcomes>>
      BY <1>14 DEF SendUpload
    <2>2. pc' = [pc EXCEPT ![g] = pc[g]]
      BY <2>1 DEF TypeOK
    <2>3. Held(g)' = Held(g)
      BY <2>1 DEF Held
    <2>. QED
      BY <1>0, <1>1, <1>2, <2>1, <2>2, <2>3, ReportWait
  <1>15. ASSUME NEW class \in ErrorClass, CheckError(g, class) PROVE RInv'
    <2>1. CASE RetryAllowed(g, class)
      BY <1>7, <1>15, <2>1 DEF CheckError, At, RetryAllowed
    <2>2. CASE ~RetryAllowed(g, class)
      BY <1>4, <1>15, <2>2 DEF CheckError, Failure
    <2>. QED
      BY <2>1, <2>2
  <1>16. ASSUME NEW class \in ErrorClass, UploadError(g, class) PROVE RInv'
    <2>1. CASE RetryAllowed(g, class)
      BY <1>7, <1>16, <2>1 DEF UploadError, At, RetryAllowed
    <2>2. CASE ~RetryAllowed(g, class) /\ class \in Uncertain
      BY <1>6, <1>16, <2>2 DEF UploadError, At
    <2>3. CASE ~RetryAllowed(g, class) /\ class \notin Uncertain
      BY <1>4, <1>16, <2>3 DEF UploadError, Failure
    <2>. QED
      BY <2>1, <2>2, <2>3
  <1>. QED
    BY <1>8, <1>9, <1>10, <1>11, <1>12, <1>13, <1>14, <1>15, <1>16

\* The head of the loop in apply_group.
LEMMA ReportNextOperation ==
  ASSUME IInv, TypeOK', RInv, NEW g \in Groups, NextOperation(g)
  PROVE  RInv'
  <1>. TypeOK
    BY DEF IInv
  <1>1. /\ pc[g] = "next" /\ pc[g] \in InLoop
        /\ UNCHANGED <<run, journal, used>>
        /\ retries[g] = 0 /\ cur[g] \in Members(g) \cup {None}
    BY DEF NextOperation, InLoop, RInv, Settled, IInv, GroupOK, PlaceOK
  <1>2. CASE cur[g] = None /\ Finish(g, outcomes[g], FALSE)
    BY <1>1, <1>2, ReportFinish
  <1>3. CASE CancelGroup(g, outcomes[g])
    <2>1. Finish(g, outcomes[g], TRUE)
      BY <1>3 DEF CancelGroup
    <2>2. outcomes[g] = outcomes[g] /\ (TRUE \/ cur[g] = None)
      OBVIOUS
    <2>. QED
      BY <1>1, <2>1, <2>2, ReportFinish
  <1>4. CASE /\ cur[g] # None /\ completed[cur[g]] # None /\ Advance(g)
             /\ videoId' = [videoId EXCEPT ![g] =
                    IF cur[g] \in Videos THEN completed[cur[g]] ELSE @]
             /\ UNCHANGED outcomes
    <2>1. cur[g] \in Members(g) /\ Completed(cur[g])
      BY <1>1, <1>4, MembersAreOps DEF IInv, SnapshotTrue
    <2>2. Todo(g) \subseteq Todo(g)' \cup {cur[g]}
      BY <1>4, <2>1, AdvanceLeaves
    <2>3. /\ pc'[g] = "next" /\ report' = report /\ retries'[g] = 0
          /\ retries' = [retries EXCEPT ![g] = 0]
          /\ outcomes' = [outcomes EXCEPT ![g] = outcomes[g]]
          /\ \A h \in Groups \ {g} : SameCount(h)
      BY <1>4 DEF Advance, TypeOK, SameCount, SamePlace
    <2>4. GroupRetries(g)' \subseteq GroupRetries(g) /\ Settled(g)'
      BY <2>3, RetriesPassedOn
    <2>5. Accounted(g) => Accounted(g)'
      <3>1. pc[g] # "pending" /\ pc'[g] \in InLoop /\ outcomes' = outcomes
        BY <1>1, <1>4, <2>3 DEF InLoop
      <3>. QED
        BY <1>1, <2>1, <2>2, <2>3, <3>1 DEF Accounted, Completed, Dirty
    <2>. QED
      BY <1>1, <2>3, <2>4, <2>5, ReportFrame DEF Dirty
  <1>5. CASE /\ pc' = [pc EXCEPT ![g] = "check"]
             /\ UNCHANGED <<cur, retries, videoId, outcomes, report>>
    <2>1. Held(g)' = Held(g)
      BY <1>1, <1>5 DEF Held, TypeOK
    <2>2. "check" \in Working
      BY DEF Working
    <2>. QED
      BY <1>1, <1>5, <2>1, <2>2, ReportWait
  <1>. QED
    BY <1>2, <1>3, <1>4, <1>5 DEF NextOperation

\* A group starts with its whole list to do, and leaves once its outcomes are
\* in the journal.
LEMMA ReportStartCollect ==
  ASSUME IInv, TypeOK', RInv, NEW g \in Groups, StartGroup(g) \/ Collect(g)
  PROVE  RInv'
  <1>. TypeOK /\ PlaceOK(g)
    BY DEF IInv, GroupOK
  <1>1. /\ UNCHANGED <<run, journal, used, report, retries, outcomes>>
        /\ pc[g] \in {"pending", "finished"} /\ pc'[g] \in {"next", "absent"}
        /\ \A h \in Groups \ {g} : SameCount(h)
    BY DEF StartGroup, Collect, runVars, TypeOK, SameCount, SamePlace
  <1>2. retries[g] = 0 /\ retries'[g] = 0
    BY <1>1 DEF RInv, Settled
  <1>3. Settled(g)'
    BY <1>2 DEF Settled
  <1>4. GroupRetries(g)' \subseteq GroupRetries(g)
    <2>1. HeldRetries(g)' = {}
      BY <1>1, <1>2 DEF HeldRetries, Held
    <2>2. UNION {OutcomeRetries(outcomes[g][k]) : k \in DOMAIN outcomes[g]}'
            = UNION {OutcomeRetries(outcomes[g][k]) : k \in DOMAIN outcomes[g]}
      BY <1>1 DEF OutcomeRetries
    <2>. QED
      BY <2>1, <2>2 DEF GroupRetries
  <1>5. Accounted(g) => Accounted(g)'
    <2>1. CASE StartGroup(g)
      <3>1. pc'[g] = "next" /\ cur'[g] = g /\ pc[g] = "pending" /\ "next" \in InLoop
        BY <2>1 DEF StartGroup, TypeOK, InLoop
      <3>2. Members(g) \subseteq Todo(g)'
        BY <3>1 DEF Todo, Members
      <3>. QED
        BY <1>1, <3>1, <3>2 DEF Accounted
    <2>2. CASE Collect(g)
      <3>1. pc[g] = "finished" /\ outcomes[g] = <<>>
        BY <2>2 DEF Collect
      <3>2. pc[g] \notin InLoop
        BY <3>1 DEF InLoop, Working
      <3>. QED
        BY <1>1, <3>1, <3>2 DEF Accounted, Completed, Dirty
    <2>. QED
      BY <2>1, <2>2
  <1>. QED
    BY <1>1, <1>3, <1>4, <1>5, ReportFrame DEF Dirty

\* A group holds retries of its own operations only.
LEMMA RetriesOwned ==
  ASSUME IInv, RInv, NEW h \in Groups, NEW x \in GroupRetries(h)
  PROVE  \E op \in Members(h), n \in Nat : x = <<op, n>>
  <1>. TypeOK
    BY DEF IInv
  <1>1. CASE x \in HeldRetries(h)
    <2>1. PICK n \in 1..Held(h) : x = <<cur[h], n>>
      BY <1>1 DEF HeldRetries
    <2>2. n \in Nat /\ Held(h) # 0
      BY HeldType
    <2>3. pc[h] \in Working
      BY <2>2, HeldType DEF RInv, Settled, TypeOK, PCs, Working
    <2>. QED
      BY <2>1, <2>2, <2>3, WorkingOp
  <1>2. ASSUME NEW k \in DOMAIN outcomes[h], x \in OutcomeRetries(outcomes[h][k])
        PROVE  \E op \in Members(h), n \in Nat : x = <<op, n>>
    <2>1. outcomes[h][k] \in OutcomeType
      BY DEF TypeOK
    <2>2. PICK n \in 1..outcomes[h][k].retries : x = <<outcomes[h][k].op, n>>
      BY <1>2 DEF OutcomeRetries
    <2>3. n \in Nat
      BY <2>1 DEF OutcomeType
    <2>. QED
      BY <2>2, <2>3 DEF IInv, GroupOK, OutcomesOK
  <1>. QED
    BY <1>1, <1>2 DEF GroupRetries

\* An outcome carries as many numbered retries as it says.
LEMMA OutcomeCount ==
  ASSUME NEW out \in OutcomeType
  PROVE  IsFiniteSet(OutcomeRetries(out)) /\ Cardinality(OutcomeRetries(out)) = out.retries
  <1>1. out.retries \in Nat
    BY DEF OutcomeType
  <1>2. IsFiniteSet(1..out.retries) /\ Cardinality(1..out.retries) = out.retries
    BY <1>1, FS_Interval
  <1>. DEFINE f == [n \in 1..out.retries |-> <<out.op, n>>]
  <1>3. f \in Bijection(1..out.retries, OutcomeRetries(out))
    BY DEF Bijection, Injection, Surjection, IsInjective, OutcomeRetries
  <1>4. ExistsBijection(1..out.retries, OutcomeRetries(out))
    BY <1>3 DEF ExistsBijection
  <1>. QED
    BY <1>2, <1>4, FS_Bijection

\* The first outcome of a finished group goes to the journal and to the report.
LEMMA ReportAppend ==
  ASSUME IInv, TypeOK', RInv, NEW g \in Groups, Append1(g)
  PROVE  RInv'
  <1>. PICK out : out = Head(outcomes[g])
    OBVIOUS
  <1>. TypeOK /\ OutcomesOK(g)
    BY DEF IInv, GroupOK
  <1>1. /\ outcomes[g] \in Seq(OutcomeType) /\ outcomes[g] # <<>>
        /\ 1 \in DOMAIN outcomes[g] /\ out = outcomes[g][1] /\ out \in OutcomeType
    BY DEF TypeOK, Append1
  <1>2. out.op \in Members(g) /\ out.op \in Ops /\ ~Completed(out.op)
    BY <1>1, MembersAreOps DEF OutcomesOK
  <1>3. /\ pc[g] = "finished"
        /\ journal'[out.op] = Event(out.kind, out.asset)
        /\ \A op \in Ops : op # out.op => journal'[op] = journal[op]
        /\ report' = Recorded(report, out)
        /\ outcomes'[g] = Tail(outcomes[g])
        /\ \A h \in Groups \ {g} : SameCount(h)
        /\ UNCHANGED <<run, used, pc, cur, retries>>
    BY <1>2 DEF Append1, TypeOK, SameCount, SamePlace
  <1>4. /\ Completed(out.op)' <=> out.kind \in Success
        /\ \A op \in Ops : op # out.op => (Completed(op)' <=> Completed(op))
    BY <1>3 DEF Completed, Event
  <1>5. /\ Len(outcomes[g]) \in Nat
        /\ DOMAIN outcomes[g] = 1 .. Len(outcomes[g])
        /\ DOMAIN outcomes'[g] = 1 .. (Len(outcomes[g]) - 1)
        /\ \A k \in DOMAIN outcomes'[g] :
               outcomes'[g][k] = outcomes[g][k + 1] /\ k + 1 \in DOMAIN outcomes[g]
    BY <1>1, <1>3
  <1>6. /\ out.kind \in Success \cup Failure /\ out.retries \in Nat
        /\ \A kind : Count(out, kind) \in {0, 1}
    BY <1>1 DEF OutcomeType, Count
  <1>7. /\ report.resumed \in Nat /\ report.created \in Nat /\ report.duplicate \in Nat
        /\ report.failed \in Nat /\ report.indeterminate \in Nat /\ report.retried \in Nat
    BY DEF TypeOK, ReportType
  <1>8. /\ report'.resumed = report.resumed
        /\ report'.created = report.created + Count(out, "created")
        /\ report'.duplicate = report.duplicate + Count(out, "duplicate")
        /\ report'.failed = report.failed + Count(out, "failed")
        /\ report'.indeterminate = report.indeterminate + Count(out, "indeterminate")
        /\ report'.retried = report.retried + out.retries
        /\ report'.cancelled = report.cancelled
    BY <1>3 DEF Recorded, TypeOK, ReportType
  <1>9. \A h \in Groups : Settled(h)'
    BY <1>3 DEF RInv, Settled
  <1>10. ReportMatchesJournal'
    <2>. SUFFICES ASSUME run # "idle"
                  PROVE  Cardinality({op \in Ops : Completed(op)}')
                           = report'.resumed + report'.created + report'.duplicate
      BY <1>3 DEF ReportMatchesJournal
    <2>. DEFINE C == {op \in Ops : Completed(op)}
    <2>1. IsFiniteSet(C) /\ Cardinality(C) = report.resumed + report.created + report.duplicate
      BY FS_Subset, PlanAssumption DEF RInv, ReportMatchesJournal
    <2>2. CASE out.kind \in Success
      <3>1. C' = C \cup {out.op} /\ out.op \notin C
        BY <1>2, <1>4, <2>2
      <3>2. Cardinality(C \cup {out.op}) = Cardinality(C) + 1
        BY <2>1, <3>1, FS_AddElement
      <3>3. Count(out, "created") + Count(out, "duplicate") = 1
        BY <2>2 DEF Count, Success
      <3>4. Cardinality(C') = Cardinality(C) + 1
        BY <3>1, <3>2
      <3>. HIDE DEF C
      <3>5. Cardinality(C') = report'.resumed + report'.created + report'.duplicate
        BY <1>6, <1>7, <1>8, <2>1, <3>3, <3>4
      <3>. QED
        BY <3>5 DEF C
    <2>3. CASE out.kind \notin Success
      <3>1. C' = C
        BY <1>2, <1>4, <2>3
      <3>2. Count(out, "created") = 0 /\ Count(out, "duplicate") = 0
        BY <2>3 DEF Count, Success
      <3>. HIDE DEF C
      <3>3. Cardinality(C') = report'.resumed + report'.created + report'.duplicate
        BY <1>7, <1>8, <2>1, <3>1, <3>2
      <3>. QED
        BY <3>3 DEF C
    <2>. QED
      BY <2>2, <2>3
  <1>11. ASSUME run # "idle" PROVE BudgetOK'
    <2>1. OutcomeRetries(out) \subseteq Unreported
      BY <1>1 DEF Unreported, GroupRetries
    <2>2. ASSUME NEW h \in Groups \ {g}
          PROVE  GroupRetries(h)' \subseteq Unreported \ OutcomeRetries(out)
      <3>1. GroupRetries(h)' = GroupRetries(h)
        BY <1>3, RetriesFrame
      <3>2. ASSUME NEW x \in GroupRetries(h) PROVE x \notin OutcomeRetries(out)
        <4>1. PICK op \in Members(h), n \in Nat : x = <<op, n>>
          BY RetriesOwned
        <4>2. op # out.op
          BY <1>2, MembersDisjoint
        <4>. QED
          BY <4>1, <4>2 DEF OutcomeRetries
      <3>. QED
        BY <3>1, <3>2 DEF Unreported
    <2>3. GroupRetries(g)' \subseteq Unreported \ OutcomeRetries(out)
      <3>1. HeldRetries(g)' = {}
        <4>1. Held(g)' = 0
          BY <1>3 DEF Held, RInv, Settled
        <4>. QED
          BY <4>1 DEF HeldRetries
      <3>2. ASSUME NEW k \in DOMAIN outcomes'[g]
            PROVE  OutcomeRetries(outcomes'[g][k]) \subseteq Unreported \ OutcomeRetries(out)
        <4>1. /\ k + 1 # 1 /\ k + 1 \in DOMAIN outcomes[g]
              /\ outcomes'[g][k] = outcomes[g][k + 1]
          BY <1>5
        <4>2. outcomes'[g][k].op # out.op
          BY <1>1, <4>1 DEF OutcomesOK
        <4>3. OutcomeRetries(outcomes'[g][k]) \subseteq GroupRetries(g)
          BY <4>1 DEF GroupRetries
        <4>4. OutcomeRetries(outcomes'[g][k]) \cap OutcomeRetries(out) = {}
          BY <4>2 DEF OutcomeRetries
        <4>. QED
          BY <4>3, <4>4 DEF Unreported
      <3>3. GroupRetries(g)' = UNION {OutcomeRetries(outcomes'[g][k]) : k \in DOMAIN outcomes'[g]}
        BY <3>1 DEF GroupRetries, OutcomeRetries
      <3>. QED
        BY <3>2, <3>3
    <2>4. Unreported' \subseteq Unreported \ OutcomeRetries(out)
      BY <2>2, <2>3 DEF Unreported
    <2>5. IsFiniteSet(Unreported) /\ report.retried + Cardinality(Unreported) <= used /\ used <= MaxRetries
      BY <1>11 DEF RInv, BudgetOK
    <2>6. /\ IsFiniteSet(Unreported \ OutcomeRetries(out))
          /\ Cardinality(Unreported \ OutcomeRetries(out)) = Cardinality(Unreported) - out.retries
      <3>1. Unreported \cap OutcomeRetries(out) = OutcomeRetries(out)
        BY <2>1
      <3>. QED
        <4>1. Cardinality(OutcomeRetries(out)) = out.retries
          BY <1>1, OutcomeCount
        <4>2. /\ IsFiniteSet(Unreported \ OutcomeRetries(out))
              /\ Cardinality(Unreported \ OutcomeRetries(out))
                   = Cardinality(Unreported) - Cardinality(Unreported \cap OutcomeRetries(out))
          BY <2>5, FS_Difference, Zenon
        <4>. QED
          BY <3>1, <4>1, <4>2, Zenon
    <2>7. /\ IsFiniteSet(Unreported')
          /\ Cardinality(Unreported') <= Cardinality(Unreported \ OutcomeRetries(out))
      BY <2>4, <2>6, FS_Subset
    <2>8. /\ Cardinality(Unreported') \in Nat /\ Cardinality(Unreported) \in Nat
          /\ used \in Nat /\ MaxRetries \in Nat
      BY <2>5, <2>7, FS_CardinalityType, ConfigAssumption DEF TypeOK
    <2>. QED
      BY <1>3, <1>6, <1>7, <1>8, <2>5, <2>6, <2>7, <2>8 DEF BudgetOK
  <1>12. Dirty => Dirty'
    BY <1>6, <1>7, <1>8 DEF Dirty
  <1>13. out.kind \in Failure => Dirty'
    BY <1>6, <1>7, <1>8 DEF Dirty, Count, Failure
  <1>14. \A op \in Ops : Completed(op) => Completed(op)'
    BY <1>2, <1>4
  <1>15. Accounted(g) => Accounted(g)'
    <2>1. CASE Dirty \/ out.kind \in Failure
      BY <1>12, <1>13, <2>1 DEF Accounted
    <2>2. ASSUME NEW k \in DOMAIN outcomes[g], k # 1
          PROVE  k - 1 \in DOMAIN outcomes'[g] /\ outcomes'[g][k - 1] = outcomes[g][k]
      BY <1>5, <2>2
    <2>3. CASE \E k \in DOMAIN outcomes[g] : outcomes[g][k].kind \in Failure
      BY <1>1, <1>12, <1>13, <2>2, <2>3 DEF Accounted
    <2>4. CASE /\ out.kind \notin Failure
               /\ \A op \in Members(g) :
                     \/ Completed(op)
                     \/ pc[g] = "pending"
                     \/ pc[g] \in InLoop /\ op \in Todo(g)
                     \/ \E k \in DOMAIN outcomes[g] : outcomes[g][k].op = op
      <3>1. pc[g] # "pending" /\ pc[g] \notin InLoop
        BY <1>3 DEF InLoop, Working
      <3>2. ASSUME NEW op \in Members(g)
            PROVE  Completed(op)' \/ \E k \in DOMAIN outcomes'[g] : outcomes'[g][k].op = op
        <4>1. CASE Completed(op) \/ op = out.op
          BY <1>4, <1>6, <1>14, <2>4, <4>1, MembersAreOps
        <4>2. ASSUME NEW k \in DOMAIN outcomes[g], outcomes[g][k].op = op, op # out.op
              PROVE  \E l \in DOMAIN outcomes'[g] : outcomes'[g][l].op = op
          <5>1. k # 1
            BY <1>1, <4>2
          <5>. QED
            BY <2>2, <4>2, <5>1
        <4>. QED
          BY <2>4, <3>1, <4>1, <4>2
      <3>. QED
        BY <3>2 DEF Accounted
    <2>. QED
      BY <2>1, <2>3, <2>4 DEF Accounted
  <1>16. ASSUME run # "idle", NEW h \in Groups PROVE Accounted(h)'
    <2>1. CASE h = g
      BY <1>15, <1>16, <2>1 DEF RInv
    <2>2. CASE h # g
      BY <1>3, <1>12, <1>14, <1>16, <2>2, AccountedFrame, MembersAreOps DEF RInv, SameCount
    <2>. QED
      BY <2>1, <2>2
  <1>. QED
    BY <1>3, <1>9, <1>10, <1>11, <1>16 DEF RInv

\* A run starts with nothing to report and with a list for every group that is
\* not complete; ending, cancelling and losing it add nothing.
LEMMA ReportRun ==
  ASSUME IInv, TypeOK', RInv, StartRun \/ EndRun \/ Cancel \/ Crash
  PROVE  RInv'
  <1>. TypeOK
    BY DEF IInv
  <1>1. CASE StartRun
    <2>1. /\ UNCHANGED <<journal, cur, retries, outcomes>> /\ run' = "active" /\ used' = 0
          /\ report' = NewReport(Cardinality({op \in Ops : Completed(op)}))
          /\ \A g \in Groups : pc'[g] = IF Pending(g) THEN "pending" ELSE "absent"
      BY <1>1 DEF StartRun
    <2>2. ASSUME NEW g \in Groups
          PROVE  retries[g] = 0 /\ outcomes[g] = <<>> /\ DOMAIN outcomes[g] = {}
      BY <1>1 DEF StartRun, IInv, RunOK, GroupOK, PlaceOK, RInv, Settled
    <2>3. \A g \in Groups : Settled(g)'
      BY <2>1, <2>2 DEF Settled
    <2>4. ReportMatchesJournal'
      <3>. DEFINE C == {op \in Ops : Completed(op)}
      <3>1. C' = C
        BY <2>1 DEF Completed
      <3>2. Cardinality(C) \in Nat
        BY FS_Subset, FS_CardinalityType, PlanAssumption
      <3>3. report'.resumed = Cardinality(C) /\ report'.created = 0 /\ report'.duplicate = 0
        BY <2>1 DEF NewReport
      <3>. HIDE DEF C
      <3>4. Cardinality(C') = report'.resumed + report'.created + report'.duplicate
        BY <3>1, <3>2, <3>3
      <3>. QED
        BY <3>4 DEF ReportMatchesJournal, C
    <2>5. BudgetOK'
      <3>1. ASSUME NEW g \in Groups PROVE GroupRetries(g)' = {}
        <4>1. Held(g)' = 0
          BY <2>1, <2>2 DEF Held
        <4>. QED
          BY <2>1, <2>2, <4>1 DEF GroupRetries, HeldRetries
      <3>2. Unreported' = {}
        BY <3>1 DEF Unreported
      <3>3. report'.retried = 0
        BY <2>1 DEF NewReport
      <3>. QED
        BY <2>1, <3>2, <3>3, FS_EmptySet, ConfigAssumption DEF BudgetOK
    <2>6. \A g \in Groups : Accounted(g)'
      BY <2>1 DEF Accounted, Pending, Completed
    <2>. QED
      BY <2>3, <2>4, <2>5, <2>6 DEF RInv
  <1>2. CASE EndRun \/ Cancel
    <2>1. /\ UNCHANGED <<journal, used, report, pc, cur, retries, outcomes, videoId>>
          /\ run # "idle"
      BY <1>2 DEF EndRun, Cancel, groupVars
    <2>2. \A g \in Groups : SameCount(g)
      BY <2>1 DEF SameCount, SamePlace
    <2>3. Unreported' = Unreported
      BY <2>2, RetriesFrame DEF Unreported
    <2>4. BudgetOK'
      BY <2>1, <2>3 DEF RInv, BudgetOK
    <2>5. \A g \in Groups : Accounted(g)'
      BY <2>1, <2>2, AccountedFrame DEF RInv, Completed, Dirty, SameCount
    <2>6. ReportMatchesJournal'
      BY <2>1 DEF RInv, ReportMatchesJournal, Completed
    <2>. QED
      BY <2>1, <2>4, <2>5, <2>6 DEF RInv, Settled
  <1>3. CASE Crash
    BY <1>3 DEF Crash, RInv, Settled, ReportMatchesJournal
  <1>. QED
    BY <1>1, <1>2, <1>3

\* What the server does, and what it does late, is no part of the report.
LEMMA ReportServer ==
  ASSUME RInv, UNCHANGED <<journal, run, used, report, pc, cur, retries, outcomes, videoId>>
  PROVE  RInv'
  <1>1. \A g \in Groups : SameCount(g)
    BY DEF SameCount, SamePlace
  <1>2. Unreported' = Unreported
    BY <1>1, RetriesFrame DEF Unreported
  <1>3. run # "idle" => BudgetOK'
    BY <1>2 DEF RInv, BudgetOK
  <1>4. run # "idle" => \A g \in Groups : Accounted(g)'
    BY <1>1, AccountedFrame DEF RInv, Completed, Dirty, SameCount
  <1>5. ReportMatchesJournal'
    BY DEF RInv, ReportMatchesJournal, Completed
  <1>. QED
    BY <1>3, <1>4, <1>5 DEF RInv, Settled

\* Before the first run there is nothing to report.
LEMMA InitRInv == Init => RInv
  BY DEF Init, RInv, Settled, ReportMatchesJournal

\* Every step keeps the report true.
LEMMA NextRInv == IInv /\ IInv' /\ RInv /\ [Next]_vars => RInv'
  <1>. SUFFICES ASSUME IInv, IInv', RInv, [Next]_vars PROVE RInv'
    OBVIOUS
  <1>. TypeOK'
    BY DEF IInv
  <1>1. CASE UNCHANGED vars
    BY <1>1, ReportServer DEF vars, runVars, groupVars
  <1>2. CASE StartRun \/ EndRun \/ Cancel \/ Crash
    BY <1>2, ReportRun
  <1>3. ASSUME NEW g \in Groups, GroupStep(g) PROVE RInv'
    BY <1>3, ReportOperation, ReportNextOperation, ReportStartCollect, ReportAppend
       DEF GroupStep
  <1>4. ASSUME NEW g \in Groups, ServerCommit(g) PROVE RInv'
    BY <1>4, ReportServer DEF ServerCommit, runVars
  <1>5. ASSUME NEW u \in late, LateCommit(u) PROVE RInv'
    BY <1>5, ReportServer DEF LateCommit, runVars, groupVars
  <1>. QED
    BY <1>1, <1>2, <1>3, <1>4, <1>5 DEF Next

\* What the report is true of is an invariant of the executor.
THEOREM ReportInvariance == Spec => []RInv
  BY Invariance, InitRInv, NextRInv, PTL DEF Spec

\* A clean report is the report of a complete plan: once the last group is
\* gone nothing is left to do and nothing is on its way.
LEMMA CleanIsComplete == IInv /\ RInv => CleanReportMeansComplete
  <1>. SUFFICES ASSUME IInv, RInv, run = "reported", report.failed = 0,
                       report.indeterminate = 0, ~report.cancelled,
                       NEW op \in Ops
                PROVE  Completed(op)
    BY DEF CleanReportMeansComplete
  <1>1. PICK g \in Groups : op \in Members(g)
    BY PlanAssumption DEF Groups, Members
  <1>2. pc[g] = "absent" /\ outcomes[g] = <<>>
    BY DEF IInv, RunOK, GroupOK, PlaceOK
  <1>3. ~Dirty
    BY DEF Dirty
  <1>4. Accounted(g)
    BY DEF RInv
  <1>. QED
    BY <1>1, <1>2, <1>3, <1>4 DEF Accounted, InLoop, Working

\* What ApplyReport says is true: its counters are those of the checkpoint, its
\* retries never exceed what RetryBudget granted, and without a failure, an
\* indeterminate outcome or a cancellation the whole plan is complete.
THEOREM ReportsAreTrue == Spec => []ReportIsTrue
  <1>1. IInv /\ RInv => ReportIsTrue
    <2>. SUFFICES ASSUME IInv, RInv PROVE ReportIsTrue
      OBVIOUS
    <2>1. RetriesWithinBudget
      BY DEF RInv, BudgetOK, RetriesWithinBudget
    <2>. QED
      BY <2>1, CleanIsComplete DEF RInv, ReportIsTrue
  <1>. QED
    BY <1>1, Invariance, ReportInvariance, PTL
=============================================================================
