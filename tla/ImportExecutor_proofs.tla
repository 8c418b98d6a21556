------------------------ MODULE ImportExecutor_proofs ------------------------
(***************************************************************************)
(* Proofs about ImportExecutor, for every plan, every set of albums the    *)
(* owner has, every retry configuration and any number of runs, crashes    *)
(* and requests that are acted upon late.                                  *)
(***************************************************************************)
EXTENDS ImportExecutor, FiniteSetTheorems, SequenceTheorems, TLAPS

-----------------------------------------------------------------------------
(* The inductive invariant *)

OpWork == {"prepare", "check", "upload", "final"}
OpPCs == OpWork \cup {"describe", "metadata"}
OpPhase == OpPCs \cup {"operations"}
AlbumWork == {"lookup", "create", "relook"}
AlbumPCs == AlbumWork \cup {"fill", "members"}
AlbumPhase == AlbumPCs \cup {"albums"}

\* Where the run is, what it has taken up, and which request is under way.
PlaceOK ==
    /\ run = "active" <=> pc # "off"
    /\ pc \in OpPhase => visited \subseteq Ops
    /\ pc \in AlbumPhase => visited \subseteq Albums
    /\ pc \in OpPCs \cup AlbumPCs => cur \in visited
    /\ request # None <=> pc \in Writes \cup Reads
    /\ request = "sent" => pc \in Writes
    /\ request \in {"created", "duplicate"} => pc = "upload"
    /\ request = "done" => pc \in {"metadata", "create", "members"}
    /\ run # "idle" => staged \subseteq IF pc \in {"check", "upload", "final"} THEN {cur} ELSE {}

\* What the effect at hand is there for.
EffectOK ==
    /\ pc \in OpWork => /\ AssetId(state, cur) = None
                        /\ cur \in Images => assetIds[VideoOf[cur]] # None
    /\ pc \in {"describe", "metadata"} => assetIds[cur] # None
    /\ pc = "metadata" => cur \in Described /\ ~MetadataDone(state, cur)
    /\ pc \in AlbumPhase => AllAssetsKnown
    /\ pc \in AlbumWork => AlbumRef(state, cur) = None
    /\ pc \in {"fill", "members"} => albumId # None /\ AlbumRef(journal, cur) = albumId
    /\ pc = "members" => ~MembersDone(state, cur)

\* The effects this run has not come to.
AssetOpen(op) == pc \in OpPhase /\ (op \notin visited \/ (op = cur /\ pc \in OpWork))
MetadataOpen(op) == pc \in OpPhase /\ (op \notin visited \/ (op = cur /\ pc \in OpPCs))
AlbumOpen(a) ==
    \/ pc \in OpPhase
    \/ pc \in AlbumPhase /\ (a \notin visited \/ (a = cur /\ pc \in AlbumWork))
MembersOpen(a) ==
    \/ pc \in OpPhase
    \/ pc \in AlbumPhase /\ (a \notin visited \/ (a = cur /\ pc \in AlbumPCs))

\* For those the checkpoint as read at the start is still the checkpoint.
SnapshotOK ==
    /\ \A op \in Ops : AssetOpen(op) => journal[<<"asset", op>>] = state[<<"asset", op>>]
    /\ \A op \in Ops : MetadataOpen(op) => journal[<<"metadata", op>>] = state[<<"metadata", op>>]
    /\ \A a \in Albums : AlbumOpen(a) => journal[<<"album", a>>] = state[<<"album", a>>]
    /\ \A a \in Albums : MembersOpen(a) => journal[<<"members", a>>] = state[<<"members", a>>]

\* An answer in hand is the server's, and an album of a name that was missing
\* is one of the import's own.
AnswerOK ==
    /\ request \in {"created", "duplicate"} => assets[Sha1[cur]] # None
    /\ (pc = "metadata" /\ request = "done") => assets[Sha1[cur]].meta # None
    /\ (pc = "create" /\ request = "done") =>
           answer \in DOMAIN albums /\ albums[answer].ours /\ albums[answer].name = cur
    /\ pc \in {"create", "relook"} =>
           \A i \in DOMAIN albums : albums[i].name = cur => albums[i].ours
    /\ (pc = "members" /\ request = "done") => AlbumMembers(cur) \subseteq albums[albumId].members

\* A durable effect of the checkpoint is on the server.
IsDone(e) == journal[e].kind \in Durable
AssetTrue(op) ==
    IsDone(<<"asset", op>>) =>
        /\ journal[<<"asset", op>>].kind \in {"created", "duplicate"}
        /\ journal[<<"asset", op>>].id = Sha1[op]
        /\ assets[Sha1[op]] # None
MetadataTrue(op) ==
    IsDone(<<"metadata", op>>) =>
        /\ journal[<<"metadata", op>>].kind = "completed"
        /\ assets[Sha1[op]] # None
        /\ assets[Sha1[op]].meta # None
Planned(a) == {Sha1[op] : op \in {o \in Ops : a \in AlbumsOf[o]}}
AlbumTrue(a) ==
    IsDone(<<"album", a>>) =>
        /\ journal[<<"album", a>>].kind \in {"created", "reused"}
        /\ journal[<<"album", a>>].id \in DOMAIN albums
        /\ albums[journal[<<"album", a>>].id].name = a
        /\ journal[<<"album", a>>].kind = "created" => albums[journal[<<"album", a>>].id].ours
MembersTrue(a) ==
    IsDone(<<"members", a>>) =>
        /\ journal[<<"members", a>>].kind = "completed"
        /\ IsDone(<<"album", a>>)
        /\ Planned(a) \subseteq albums[journal[<<"album", a>>].id].members

JournalTrue ==
    /\ \A op \in Ops : AssetTrue(op) /\ MetadataTrue(op)
    /\ \A a \in Albums : AlbumTrue(a) /\ MembersTrue(a)

IdsAgree == \A op \in Ops : assetIds[op] = AssetId(journal, op)

AllDurable == \A op \in Ops : IsDone(<<"asset", op>>)

\* What the server makes of a request, now or later, is right.
BodyOK(b) ==
    /\ b.kind = "metadata" =>
           b.on \in Described /\ b.with = Sha1[b.on] /\ assets[b.with] # None
    /\ b.kind = "create" => AllDurable
    /\ b.kind = "members" => b.on \in DOMAIN albums /\ AllDurable

LateOK == IsFiniteSet(late) /\ \A b \in late : BodyOK(b)

\* Metadata on the server is that of an operation of the same media.
MetaOK ==
    \A c \in Checksums : (assets[c] # None /\ assets[c].meta # None) =>
        assets[c].meta \in Described /\ Sha1[assets[c].meta] = c

\* Albums are touched only once every asset is durable.
TouchedLast ==
    (\E i \in DOMAIN albums : albums[i].ours \/ albums[i].members # {}) => AllDurable

IInv ==
    /\ TypeOK
    /\ PlaceOK
    /\ EffectOK
    /\ SnapshotOK
    /\ AnswerOK
    /\ JournalTrue
    /\ IdsAgree
    /\ LateOK
    /\ MetaOK
    /\ TouchedLast

-----------------------------------------------------------------------------
(* The report *)

Dirty == report.failed > 0 \/ report.indeterminate > 0 \/ report.cancelled

OperationDone(op) ==
    IsDone(<<"asset", op>>) /\ (op \in Described => IsDone(<<"metadata", op>>))
AlbumDoneAll(a) == IsDone(<<"album", a>>) /\ IsDone(<<"members", a>>)

\* Whatever the run is through with is done.
Through ==
    /\ pc \in OpPhase => \A op \in visited : (op = cur /\ pc \in OpPCs) \/ OperationDone(op)
    /\ pc \in AlbumPhase =>
           /\ \A op \in Ops : OperationDone(op)
           /\ \A a \in visited : (a = cur /\ pc \in AlbumPCs) \/ AlbumDoneAll(a)
    /\ run = "reported" =>
           /\ \A op \in Ops : OperationDone(op)
           /\ \A a \in Albums : AlbumDoneAll(a)

\* Unless the report says otherwise.
Accounted == Dirty \/ Through

RInv == ReportMatchesJournal /\ (run # "idle" => Accounted)

-----------------------------------------------------------------------------
(* The model's operators *)

\* Loops and requests are apart.
LEMMA PhasesApart ==
  /\ Writes \cup Reads = (OpPCs \cup AlbumPCs) \ {"prepare", "describe", "fill"}
  /\ OpPhase \cap AlbumPhase = {} /\ "off" \notin OpPhase \cup AlbumPhase
  /\ PCs = OpPhase \cup AlbumPhase \cup {"off"}
  /\ "operations" \notin OpPCs \cup AlbumPCs /\ "albums" \notin OpPCs \cup AlbumPCs
  BY DEF Writes, Reads, OpPCs, AlbumPCs, OpPhase, AlbumPhase, OpWork, AlbumWork, PCs

\* What the run is at is an operation or an album of the plan.
LEMMA AtHand ==
  ASSUME IInv
  PROVE  /\ pc \in OpPCs => cur \in Ops /\ Sha1[cur] \in Checksums
         /\ pc \in AlbumPCs => cur \in Albums
  BY PhasesApart, PlanAssumption DEF IInv, PlaceOK, OpPhase, AlbumPhase

\* The journal key of the effect at hand.
LEMMA KeyIs ==
  /\ pc \in {"check", "upload", "final"} => Key = <<"asset", cur>>
  /\ pc = "metadata" => Key = <<"metadata", cur>>
  /\ pc \in {"lookup", "create", "relook"} => Key = <<"album", cur>>
  /\ pc = "members" => Key = <<"members", cur>>
  BY DEF Key

\* What ImportState reads in a journal that is true.
LEMMA ReadsJournal ==
  ASSUME JournalTrue
  PROVE  /\ \A op \in Ops : AssetId(journal, op) =
                IF IsDone(<<"asset", op>>) THEN Sha1[op] ELSE None
         /\ \A op \in Ops : (AssetId(journal, op) # None) <=> IsDone(<<"asset", op>>)
         /\ \A op \in Ops : MetadataDone(journal, op) <=> IsDone(<<"metadata", op>>)
         /\ \A a \in Albums : AlbumRef(journal, a) =
                IF IsDone(<<"album", a>>) THEN journal[<<"album", a>>].id ELSE None
         /\ \A a \in Albums : MembersDone(journal, a) <=> IsDone(<<"members", a>>)
  <1>1. /\ {"created", "duplicate"} \subseteq Durable /\ {"created", "reused"} \subseteq Durable
        /\ "completed" \in Durable
    BY DEF Durable
  <1>2. \A op \in Ops : Sha1[op] # None
    BY PlanAssumption
  <1>3. \A op \in Ops : AssetId(journal, op) = IF IsDone(<<"asset", op>>) THEN Sha1[op] ELSE None
    BY <1>1 DEF AssetId, IsDone, JournalTrue, AssetTrue
  <1>4. \A op \in Ops : MetadataDone(journal, op) <=> IsDone(<<"metadata", op>>)
    BY <1>1 DEF MetadataDone, IsDone, JournalTrue, MetadataTrue
  <1>5. \A a \in Albums : AlbumRef(journal, a) =
                IF IsDone(<<"album", a>>) THEN journal[<<"album", a>>].id ELSE None
    BY <1>1 DEF AlbumRef, IsDone, JournalTrue, AlbumTrue
  <1>6. \A a \in Albums : MembersDone(journal, a) <=> IsDone(<<"members", a>>)
    BY <1>1 DEF MembersDone, IsDone, JournalTrue, MembersTrue
  <1>. QED
    BY <1>2, <1>3, <1>4, <1>5, <1>6

\* Keys of different effects differ.
LEMMA Keys ==
  /\ \A op \in Ops : <<"asset", op>> \in Effects /\ <<"metadata", op>> \in Effects
  /\ \A a \in Albums : <<"album", a>> \in Effects /\ <<"members", a>> \in Effects
  /\ \A e \in Effects :
        \/ \E op \in Ops : e = <<"asset", op>> \/ e = <<"metadata", op>>
        \/ \E a \in Albums : e = <<"album", a>> \/ e = <<"members", a>>
  BY DEF Effects

\* The effect a request is for is not durable yet.
LEMMA KeyOpen ==
  ASSUME IInv, pc \in Writes \cup Reads
  PROVE  Key \in Effects /\ ~IsDone(Key)
  <1>. /\ JournalTrue /\ SnapshotOK /\ EffectOK
    BY DEF IInv
  <1>1. CASE pc \in {"check", "upload", "final"}
    <2>1. Key = <<"asset", cur>> /\ cur \in Ops /\ AssetOpen(cur) /\ AssetId(state, cur) = None
      BY <1>1, KeyIs, AtHand DEF AssetOpen, OpPhase, OpPCs, OpWork, EffectOK
    <2>2. AssetId(journal, cur) = None
      BY <2>1 DEF SnapshotOK, AssetId
    <2>. QED
      BY <2>1, <2>2, ReadsJournal, Keys
  <1>2. CASE pc = "metadata"
    <2>1. Key = <<"metadata", cur>> /\ cur \in Ops /\ MetadataOpen(cur) /\ ~MetadataDone(state, cur)
      BY <1>2, KeyIs, AtHand DEF MetadataOpen, OpPhase, OpPCs, EffectOK
    <2>2. ~MetadataDone(journal, cur)
      BY <2>1 DEF SnapshotOK, MetadataDone
    <2>. QED
      BY <2>1, <2>2, ReadsJournal, Keys
  <1>3. CASE pc \in {"lookup", "create", "relook"}
    <2>1. Key = <<"album", cur>> /\ cur \in Albums /\ AlbumOpen(cur) /\ AlbumRef(state, cur) = None
      BY <1>3, KeyIs, AtHand DEF AlbumOpen, AlbumPhase, AlbumPCs, AlbumWork, EffectOK
    <2>2. AlbumRef(journal, cur) = None
      BY <2>1 DEF SnapshotOK, AlbumRef
    <2>3. ~IsDone(<<"album", cur>>)
      <3>1. ASSUME IsDone(<<"album", cur>>) PROVE FALSE
        <4>1. journal[<<"album", cur>>].id = None
          BY <2>1, <2>2, <3>1, ReadsJournal
        <4>2. None \in DOMAIN albums
          BY <2>1, <3>1, <4>1 DEF JournalTrue, AlbumTrue
        <4>3. DOMAIN albums \subseteq Nat
          BY DEF IInv, TypeOK
        <4>. QED
          BY <4>2, <4>3, PlanAssumption
      <3>. QED
        BY <3>1
    <2>. QED
      BY <2>1, <2>3, Keys
  <1>4. CASE pc = "members"
    <2>1. Key = <<"members", cur>> /\ cur \in Albums /\ MembersOpen(cur) /\ ~MembersDone(state, cur)
      BY <1>4, KeyIs, AtHand DEF MembersOpen, AlbumPhase, AlbumPCs, EffectOK
    <2>2. ~MembersDone(journal, cur)
      BY <2>1 DEF SnapshotOK, MembersDone
    <2>. QED
      BY <2>1, <2>2, ReadsJournal, Keys
  <1>. QED
    BY <1>1, <1>2, <1>3, <1>4 DEF Writes, Reads

\* Once every asset is durable a run may ask for albums.
LEMMA KnownIsDurable ==
  ASSUME IInv
  PROVE  AllAssetsKnown <=> AllDurable
  BY ReadsJournal DEF IInv, IdsAgree, AllAssetsKnown, AllDurable

\* The members a run adds to an album are the planned ones.
LEMMA MembersArePlanned ==
  ASSUME IInv, NEW a \in Albums
  PROVE  /\ AlbumMembers(a) \subseteq Checksums
         /\ AllDurable => AlbumMembers(a) = Planned(a)
  <1>1. \A op \in Ops : assetIds[op] = IF IsDone(<<"asset", op>>) THEN Sha1[op] ELSE None
    BY ReadsJournal DEF IInv, IdsAgree
  <1>2. \A op \in Ops : Sha1[op] \in Checksums /\ Sha1[op] # None
    BY PlanAssumption
  <1>. QED
    BY <1>1, <1>2 DEF AlbumMembers, Planned, AllDurable

\* The request at hand is a request, and right.
LEMMA BodyIsOK ==
  ASSUME IInv, request = "sent"
  PROVE  Body \in RequestType /\ BodyOK(Body)
  <1>. TypeOK /\ EffectOK
    BY DEF IInv
  <1>1. pc \in Writes
    BY DEF IInv, PlaceOK
  <1>2. CASE pc = "upload"
    <2>1. Body = [kind |-> "upload", on |-> cur, with |-> LiveVideoId(cur)]
      BY <1>2 DEF Body
    <2>2. cur \in Ops
      BY <1>2, AtHand DEF OpPCs, OpWork
    <2>3. LiveVideoId(cur) \in Checksums \cup {None}
      BY <2>2, PlanAssumption DEF LiveVideoId, TypeOK
    <2>. QED
      BY <2>1, <2>2, <2>3 DEF RequestType, BodyOK
  <1>3. CASE pc = "metadata"
    <2>1. Body = [kind |-> "metadata", on |-> cur, with |-> assetIds[cur]]
      BY <1>3 DEF Body
    <2>2. cur \in Ops /\ Sha1[cur] \in Checksums /\ cur \in Described /\ assetIds[cur] # None
      BY <1>3, AtHand DEF OpPCs, EffectOK
    <2>3. assetIds[cur] = Sha1[cur] /\ assets[Sha1[cur]] # None
      BY <2>2, ReadsJournal DEF IInv, IdsAgree, JournalTrue, AssetTrue
    <2>. QED
      BY <2>1, <2>2, <2>3 DEF RequestType, BodyOK
  <1>4. CASE pc = "members"
    <2>1. Body = [kind |-> "members", on |-> albumId, with |-> AlbumMembers(cur)]
      BY <1>4 DEF Body
    <2>2. cur \in Albums /\ albumId # None /\ AlbumRef(journal, cur) = albumId /\ AllDurable
      BY <1>4, AtHand, KnownIsDurable DEF AlbumPCs, AlbumPhase, EffectOK
    <2>3. albumId \in DOMAIN albums
      BY <2>2, ReadsJournal DEF IInv, JournalTrue, AlbumTrue
    <2>4. albumId \in Nat /\ AlbumMembers(cur) \subseteq Checksums
      BY <2>2, MembersArePlanned DEF TypeOK
    <2>. QED
      BY <2>1, <2>2, <2>3, <2>4 DEF RequestType, BodyOK
  <1>5. CASE pc = "create"
    <2>. DEFINE copy(n) == [kind |-> "create", on |-> cur, with |-> n]
                N == 0..Cardinality(late)
    <2>1. cur \in Albums /\ AllDurable
      BY <1>5, AtHand, KnownIsDurable DEF AlbumPCs, AlbumPhase, AlbumWork, EffectOK
    <2>2. IsFiniteSet(late) /\ Cardinality(late) \in Nat
      BY FS_CardinalityType DEF IInv, LateOK
    <2>3. \E n \in N : copy(n) \notin late
      <3>. SUFFICES ASSUME \A n \in N : copy(n) \in late PROVE FALSE
        OBVIOUS
      <3>1. IsFiniteSet(N) /\ Cardinality(N) = Cardinality(late) + 1
        BY <2>2, FS_Interval
      <3>. DEFINE f == [n \in N |-> copy(n)]
      <3>2. f \in [N -> late] /\ \A m, n \in N : f[m] = f[n] => m = n
        <4>1. f \in [N -> late]
          OBVIOUS
        <4>2. ASSUME NEW m \in N, NEW n \in N, f[m] = f[n] PROVE m = n
          <5>1. copy(m) = copy(n)
            BY <4>2
          <5>2. copy(m).with = m /\ copy(n).with = n
            OBVIOUS
          <5>. QED
            BY <5>1, <5>2
        <4>. QED
          BY <4>1, <4>2
      <3>3. Cardinality(late) < Cardinality(N)
        BY <2>2, <3>1
      <3>. HIDE DEF f, N, copy
      <3>4. \E m, n \in N : m # n /\ f[m] = f[n]
        BY <2>2, <3>1, <3>2, <3>3, FS_PigeonHole
      <3>. QED
        BY <3>2, <3>4
    <2>4. PICK n \in N : Body = copy(n)
      <3>1. Body = [kind |-> pc, on |-> cur,
                    with |-> CHOOSE n \in 0..Cardinality(late) :
                        [kind |-> pc, on |-> cur, with |-> n] \notin late]
        BY <1>5 DEF Body
      <3>. QED
        BY <1>5, <2>3, <3>1
    <2>5. n \in Nat
      BY <2>2
    <2>. QED
      BY <2>1, <2>4, <2>5 DEF RequestType, BodyOK
  <1>. QED
    BY <1>1, <1>2, <1>3, <1>4, <1>5 DEF Writes

-----------------------------------------------------------------------------
(* The server only grows *)

AssetsGrow ==
    \A c \in Checksums : assets[c] # None =>
        assets'[c] # None /\ (assets[c].meta # None => assets'[c].meta # None)
AlbumsGrow ==
    /\ DOMAIN albums \subseteq DOMAIN albums'
    /\ \A i \in DOMAIN albums :
          /\ albums'[i].name = albums[i].name
          /\ albums'[i].ours = albums[i].ours
          /\ albums[i].members \subseteq albums'[i].members
    /\ \A i \in DOMAIN albums' \ DOMAIN albums : albums'[i].ours

\* What an act of the server on a right request leaves behind.
LEMMA ActOnAssets ==
  ASSUME TypeOK, MetaOK, NEW b \in RequestType, BodyOK(b), b.kind \in {"upload", "metadata"}, Act(b)
  PROVE  /\ assets' \in [Checksums -> AssetType \cup {None}]
         /\ UNCHANGED albums /\ AssetsGrow /\ MetaOK'
         /\ b.kind = "upload" => assets'[Sha1[b.on]] # None
         /\ b.kind = "metadata" => assets'[b.with].meta # None
         /\ \A c \in Checksums : assets'[c] # None =>
                assets[c] # None \/ (b.kind = "upload" /\ c = Sha1[b.on])
  <1>1. CASE b.kind = "upload"
    <2>1. b.on \in Ops /\ b.with \in Checksums \cup {None} /\ Sha1[b.on] \in Checksums
      BY <1>1, PlanAssumption DEF RequestType
    <2>2. PICK new : new = [by |-> b.on, link |-> b.with, meta |-> None]
      OBVIOUS
    <2>3. new \in AssetType /\ new # None /\ new.meta = None
      BY <2>1, <2>2, PlanAssumption DEF AssetType
    <2>4. UNCHANGED albums /\ assets' = IF assets[Sha1[b.on]] = None
                  THEN [assets EXCEPT ![Sha1[b.on]] = new] ELSE assets
      BY <1>1, <2>2 DEF Act
    <2>5. assets' \in [Checksums -> AssetType \cup {None}]
      BY <2>1, <2>3, <2>4 DEF TypeOK
    <2>6. \A c \in Checksums :
              assets'[c] = IF c = Sha1[b.on] /\ assets[c] = None THEN new ELSE assets[c]
      BY <2>1, <2>4 DEF TypeOK
    <2>7. AssetsGrow
      BY <2>6 DEF AssetsGrow
    <2>8. MetaOK'
      BY <2>3, <2>6 DEF MetaOK
    <2>. QED
      BY <1>1, <2>1, <2>3, <2>4, <2>5, <2>6, <2>7, <2>8
  <1>2. CASE b.kind = "metadata"
    <2>1. /\ b.on \in Ops /\ b.on \in Described /\ b.with \in Checksums
          /\ b.with = Sha1[b.on] /\ assets[b.with] # None
      BY <1>2, PlanAssumption DEF BodyOK, RequestType
    <2>2. UNCHANGED albums /\ assets' = [assets EXCEPT ![b.with].meta = b.on]
      BY <1>2 DEF Act
    <2>3. assets[b.with] \in AssetType
      BY <2>1 DEF TypeOK
    <2>4. PICK new : new = [assets[b.with] EXCEPT !.meta = b.on]
      OBVIOUS
    <2>5. new \in AssetType /\ new.meta = b.on /\ new # None /\ b.on # None
      BY <2>1, <2>3, <2>4, PlanAssumption DEF AssetType
    <2>6. assets' = [assets EXCEPT ![b.with] = new]
      BY <2>2, <2>4
    <2>7. assets' \in [Checksums -> AssetType \cup {None}]
      BY <2>1, <2>5, <2>6 DEF TypeOK
    <2>8. \A c \in Checksums : assets'[c] = IF c = b.with THEN new ELSE assets[c]
      BY <2>1, <2>6 DEF TypeOK
    <2>9. AssetsGrow
      BY <2>5, <2>8 DEF AssetsGrow
    <2>10. MetaOK'
      BY <2>1, <2>5, <2>8 DEF MetaOK
    <2>. QED
      BY <1>2, <2>1, <2>2, <2>5, <2>7, <2>8, <2>9, <2>10
  <1>. QED
    BY <1>1, <1>2

\* The same for a request about albums.
LEMMA ActOnAlbums ==
  ASSUME TypeOK, NEW b \in RequestType, BodyOK(b), b.kind \in {"create", "members"}, Act(b)
  PROVE  /\ albums' \in Seq(AlbumType)
         /\ UNCHANGED assets /\ AlbumsGrow
         /\ b.kind = "create" =>
                /\ Len(albums) + 1 \in DOMAIN albums'
                /\ albums'[Len(albums) + 1].ours /\ albums'[Len(albums) + 1].name = b.on
         /\ b.kind = "members" => b.with \subseteq albums'[b.on].members
  <1>0. albums \in Seq(AlbumType)
    BY DEF TypeOK
  <1>1. CASE b.kind = "create"
    <2>1. b.on \in Albums
      BY <1>1 DEF RequestType
    <2>2. UNCHANGED assets /\ albums' = Append(albums, Album(b.on, TRUE))
      BY <1>1 DEF Act
    <2>3. PICK new : new = Album(b.on, TRUE)
      OBVIOUS
    <2>4. new \in AlbumType /\ new.ours /\ new.name = b.on
      BY <2>1, <2>3 DEF Album, AlbumType
    <2>5. /\ albums' \in Seq(AlbumType) /\ Len(albums) \in Nat
          /\ DOMAIN albums = 1..Len(albums) /\ DOMAIN albums' = 1..(Len(albums) + 1)
          /\ \A i \in DOMAIN albums : albums'[i] = albums[i]
          /\ albums'[Len(albums) + 1] = new
      <3>1. albums' = Append(albums, new)
        BY <2>2, <2>3
      <3>2. Len(albums) \in Nat /\ DOMAIN albums = 1..Len(albums)
        BY <1>0
      <3>3. /\ Append(albums, new) \in Seq(AlbumType)
            /\ Len(Append(albums, new)) = Len(albums) + 1
            /\ \A i \in 1..Len(albums) : Append(albums, new)[i] = albums[i]
            /\ Append(albums, new)[Len(albums) + 1] = new
        BY <1>0, <2>4, AppendProperties
      <3>. QED
        BY <3>1, <3>2, <3>3
    <2>6. AlbumsGrow
      <3>1. ASSUME NEW i \in DOMAIN albums' \ DOMAIN albums PROVE albums'[i].ours
        <4>1. i = Len(albums) + 1
          BY <2>5
        <4>. QED
          BY <2>4, <2>5, <4>1
      <3>2. DOMAIN albums \subseteq DOMAIN albums'
        BY <2>5
      <3>. QED
        BY <2>5, <3>1, <3>2 DEF AlbumsGrow
    <2>7. Len(albums) + 1 \in DOMAIN albums'
      BY <2>5
    <2>. QED
      BY <1>1, <2>2, <2>4, <2>5, <2>6, <2>7
  <1>2. CASE b.kind = "members"
    <2>1. b.on \in DOMAIN albums /\ b.with \subseteq Checksums
      BY <1>2 DEF BodyOK, RequestType
    <2>2. UNCHANGED assets /\ albums' = [albums EXCEPT ![b.on].members = @ \cup b.with]
      BY <1>2 DEF Act
    <2>3. PICK new : new = [albums[b.on] EXCEPT !.members = @ \cup b.with]
      OBVIOUS
    <2>4. albums[b.on] \in AlbumType
      BY <1>0, <2>1
    <2>5. /\ new \in AlbumType /\ new.name = albums[b.on].name /\ new.ours = albums[b.on].ours
          /\ new.members = albums[b.on].members \cup b.with
      BY <2>1, <2>3, <2>4 DEF AlbumType
    <2>6. albums' = [albums EXCEPT ![b.on] = new]
      BY <2>2, <2>3
    <2>7. albums' \in Seq(AlbumType) /\ DOMAIN albums' = DOMAIN albums
      BY <1>0, <2>1, <2>5, <2>6
    <2>8. \A i \in DOMAIN albums : albums'[i] = IF i = b.on THEN new ELSE albums[i]
      BY <2>6
    <2>9. AlbumsGrow
      BY <2>5, <2>7, <2>8 DEF AlbumsGrow
    <2>. QED
      BY <1>2, <2>1, <2>2, <2>5, <2>7, <2>8, <2>9
  <1>. QED
    BY <1>1, <1>2

\* An act of the server on a right request grows it, and touches albums only
\* when every asset is durable.
LEMMA ActOK ==
  ASSUME IInv, NEW b \in RequestType, BodyOK(b), Act(b), UNCHANGED journal
  PROVE  /\ assets' \in [Checksums -> AssetType \cup {None}]
         /\ albums' \in Seq(AlbumType)
         /\ AssetsGrow /\ AlbumsGrow /\ MetaOK' /\ TouchedLast'
  <1>. TypeOK /\ MetaOK /\ TouchedLast
    BY DEF IInv
  <1>1. CASE b.kind \in {"upload", "metadata"}
    <2>1. AlbumsGrow /\ TouchedLast' /\ albums' \in Seq(AlbumType)
      BY <1>1, ActOnAssets DEF AlbumsGrow, TouchedLast, AllDurable, IsDone, TypeOK
    <2>. QED
      BY <1>1, <2>1, ActOnAssets
  <1>2. CASE b.kind \in {"create", "members"}
    <2>1. UNCHANGED assets
      BY <1>2, ActOnAlbums
    <2>2. AssetsGrow /\ MetaOK' /\ assets' \in [Checksums -> AssetType \cup {None}]
      BY <2>1 DEF AssetsGrow, MetaOK, TypeOK
    <2>3. TouchedLast'
      BY <1>2 DEF BodyOK, TouchedLast, AllDurable, IsDone
    <2>. QED
      BY <1>2, <2>2, <2>3, ActOnAlbums
  <1>. QED
    BY <1>1, <1>2 DEF RequestType

-----------------------------------------------------------------------------
(* What steps leave alone *)

\* A true journal stays true while the server grows.
LEMMA JournalFrame ==
  ASSUME IInv, UNCHANGED journal, AssetsGrow, AlbumsGrow
  PROVE  /\ JournalTrue'
         /\ \A b \in late : BodyOK(b)'
  <1>. JournalTrue
    BY DEF IInv
  <1>1. \A e : IsDone(e)' <=> IsDone(e)
    BY DEF IsDone
  <1>2. \A op \in Ops : Sha1[op] \in Checksums
    BY PlanAssumption
  <1>3. \A op \in Ops : AssetTrue(op)' /\ MetadataTrue(op)'
    BY <1>1, <1>2 DEF JournalTrue, AssetTrue, MetadataTrue, AssetsGrow
  <1>4. \A a \in Albums : AlbumTrue(a)'
    BY <1>1 DEF JournalTrue, AlbumTrue, AlbumsGrow
  <1>5. ASSUME NEW a \in Albums PROVE MembersTrue(a)'
    <2>. SUFFICES ASSUME IsDone(<<"members", a>>) PROVE MembersTrue(a)'
      BY <1>1 DEF MembersTrue
    <2>1. /\ journal[<<"members", a>>].kind = "completed" /\ IsDone(<<"album", a>>)
          /\ Planned(a) \subseteq albums[journal[<<"album", a>>].id].members
          /\ journal[<<"album", a>>].id \in DOMAIN albums
      BY DEF JournalTrue, MembersTrue, AlbumTrue
    <2>2. albums[journal[<<"album", a>>].id].members \subseteq albums'[journal'[<<"album", a>>].id].members
      BY <2>1 DEF AlbumsGrow
    <2>3. Planned(a) \subseteq albums'[journal'[<<"album", a>>].id].members
      BY <2>1, <2>2
    <2>. QED
      BY <1>1, <2>1, <2>3 DEF MembersTrue, Planned
  <1>6. ASSUME NEW b \in late PROVE BodyOK(b)'
    <2>1. BodyOK(b) /\ b \in RequestType
      BY DEF IInv, LateOK, TypeOK
    <2>2. AllDurable' <=> AllDurable
      BY <1>1 DEF AllDurable
    <2>3. b.kind = "metadata" => b.with \in Checksums
      BY <2>1 DEF RequestType
    <2>. QED
      BY <2>1, <2>2, <2>3 DEF BodyOK, AssetsGrow, AlbumsGrow
  <1>. QED
    BY <1>3, <1>4, <1>5, <1>6 DEF JournalTrue

\* A request given up is a right one, and there are finitely many.
LEMMA LateFrame ==
  ASSUME IInv, UNCHANGED <<assets, albums>>,
         \A op \in Ops : IsDone(<<"asset", op>>) => IsDone(<<"asset", op>>)',
         late' \in {late, Abandoned}
  PROVE  LateOK' /\ late' \subseteq RequestType
  <1>1. IsFiniteSet(Abandoned) /\ Abandoned \subseteq RequestType /\ \A b \in Abandoned : BodyOK(b)
    <2>1. CASE request = "sent"
      <3>1. Abandoned = late \cup {Body}
        BY <2>1 DEF Abandoned
      <3>2. IsFiniteSet(late \cup {Body})
        BY FS_AddElement DEF IInv, LateOK
      <3>. QED
        BY <2>1, <3>1, <3>2, BodyIsOK DEF IInv, LateOK, TypeOK
    <2>2. CASE request # "sent"
      BY <2>2 DEF Abandoned, IInv, LateOK, TypeOK
    <2>. QED
      BY <2>1, <2>2
  <1>2. IsFiniteSet(late') /\ late' \subseteq RequestType /\ \A b \in late' : BodyOK(b)
    BY <1>1 DEF IInv, LateOK, TypeOK
  <1>3. AllDurable => AllDurable'
    BY DEF AllDurable
  <1>. QED
    BY <1>2, <1>3 DEF LateOK, BodyOK

\* A step that leaves the server, the journal and the known assets alone.
LEMMA QuietStep ==
  ASSUME IInv, UNCHANGED <<assets, albums, journal, assetIds>>, late' \in {late, Abandoned},
         TypeOK', PlaceOK', EffectOK', SnapshotOK', AnswerOK'
  PROVE  IInv'
  <1>1. AssetsGrow /\ AlbumsGrow
    BY DEF AssetsGrow, AlbumsGrow
  <1>2. JournalTrue'
    BY <1>1, JournalFrame
  <1>3. LateOK'
    <2>1. \A e : IsDone(e) => IsDone(e)'
      BY DEF IsDone
    <2>. QED
      BY <2>1, LateFrame
  <1>4. IdsAgree' /\ MetaOK' /\ TouchedLast'
    BY DEF IInv, IdsAgree, AssetId, MetaOK, TouchedLast, AllDurable, IsDone
  <1>. QED
    BY <1>2, <1>3, <1>4 DEF IInv

\* Between two runs, and when one returns, nothing is at hand.
LEMMA ReturnOK ==
  ASSUME pc' = "off", run' # "active", request' = None, run' # "idle" => staged' = {}
  PROVE  PlaceOK' /\ EffectOK' /\ SnapshotOK' /\ AnswerOK'
  <1>1. /\ pc' \notin OpPhase \cup AlbumPhase \cup OpPCs \cup AlbumPCs \cup Writes \cup Reads
        /\ pc' \notin OpWork \cup AlbumWork \cup {"describe", "metadata", "fill", "members"}
        /\ pc' \notin {"create", "relook"} /\ pc' \notin {"fill", "members"}
        /\ pc' \notin {"describe", "metadata"}
    BY DEF OpPhase, AlbumPhase, OpPCs, AlbumPCs, Writes, Reads, OpWork, AlbumWork
  <1>2. request' \notin {"sent", "created", "duplicate", "done"}
    BY PlanAssumption
  <1>3. PlaceOK'
    BY <1>1, <1>2 DEF PlaceOK
  <1>4. EffectOK'
    BY <1>1 DEF EffectOK
  <1>5. SnapshotOK'
    BY <1>1 DEF SnapshotOK, AssetOpen, MetadataOpen, AlbumOpen, MembersOpen
  <1>6. AnswerOK'
    BY <1>1, <1>2 DEF AnswerOK
  <1>. QED
    BY <1>3, <1>4, <1>5, <1>6

\* The snapshot stays right about what is still open.
LEMMA SnapshotFrame ==
  ASSUME SnapshotOK, UNCHANGED state,
         \A op \in Ops : AssetOpen(op)' => AssetOpen(op) /\ journal'[<<"asset", op>>] = journal[<<"asset", op>>],
         \A op \in Ops : MetadataOpen(op)' => MetadataOpen(op) /\ journal'[<<"metadata", op>>] = journal[<<"metadata", op>>],
         \A a \in Albums : AlbumOpen(a)' => AlbumOpen(a) /\ journal'[<<"album", a>>] = journal[<<"album", a>>],
         \A a \in Albums : MembersOpen(a)' => MembersOpen(a) /\ journal'[<<"members", a>>] = journal[<<"members", a>>]
  PROVE  SnapshotOK'
  BY DEF SnapshotOK

\* The run is at the head of a loop.
LEMMA HeadOK ==
  ASSUME IInv, pc' \in {"operations", "albums"}, request' = None, staged' = {}, run' = "active",
         pc' = "operations" => visited' \subseteq Ops,
         pc' = "albums" => visited' \subseteq Albums /\ AllAssetsKnown'
  PROVE  PlaceOK' /\ EffectOK' /\ AnswerOK'
  <1>1. /\ pc' \notin OpPCs \cup AlbumPCs \cup Writes \cup Reads
        /\ pc' \notin OpWork \cup AlbumWork \cup {"describe", "metadata", "fill", "members"}
        /\ pc' \notin {"create", "relook"} /\ pc' \notin {"fill", "members"}
        /\ pc' \notin {"describe", "metadata"} /\ pc' # "off"
    BY DEF OpPCs, AlbumPCs, Writes, Reads, OpWork, AlbumWork
  <1>2. (pc' \in OpPhase => pc' = "operations") /\ (pc' \in AlbumPhase => pc' = "albums")
    BY DEF OpPhase, AlbumPhase, OpPCs, AlbumPCs, OpWork, AlbumWork
  <1>3. request' \notin {"sent", "created", "duplicate", "done"}
    BY PlanAssumption
  <1>4. PlaceOK'
    BY <1>1, <1>2, <1>3 DEF PlaceOK
  <1>5. EffectOK'
    BY <1>1, <1>2 DEF EffectOK
  <1>6. AnswerOK'
    BY <1>1, <1>3 DEF AnswerOK
  <1>. QED
    BY <1>4, <1>5, <1>6

\* The run goes back to the head of the loop it is in.
LEMMA BackToHead ==
  ASSUME IInv, UNCHANGED <<state, visited>>,
         \/ pc \in OpPhase /\ pc' = "operations"
         \/ pc \in AlbumPhase /\ pc' = "albums",
         \A e \in Effects : journal'[e] # journal[e] => pc \in OpPCs \cup AlbumPCs /\ e[2] = cur /\
                (pc \in OpPCs => e[1] \in {"asset", "metadata"}) /\
                (pc \in AlbumPCs => e[1] \in {"album", "members"})
  PROVE  SnapshotOK'
  <1>. SnapshotOK /\ (pc \in OpPCs \cup AlbumPCs => cur \in visited)
    BY DEF IInv, PlaceOK
  <1>0. /\ OpPhase \cap AlbumPhase = {} /\ OpPCs \subseteq OpPhase /\ AlbumPCs \subseteq AlbumPhase
        /\ "operations" \in OpPhase /\ "albums" \in AlbumPhase
        /\ "operations" \notin OpPCs \cup OpWork /\ "albums" \notin AlbumPCs \cup AlbumWork
    BY DEF OpPhase, AlbumPhase, OpPCs, AlbumPCs, OpWork, AlbumWork
  <1>1. ASSUME NEW op \in Ops, AssetOpen(op)'
        PROVE  AssetOpen(op) /\ journal'[<<"asset", op>>] = journal[<<"asset", op>>]
    <2>1. pc \in OpPhase /\ op \notin visited
      BY <1>0, <1>1 DEF AssetOpen
    <2>2. <<"asset", op>> \in Effects /\ <<"asset", op>>[2] = op
      BY Keys
    <2>. QED
      BY <1>0, <2>1, <2>2 DEF AssetOpen
  <1>2. ASSUME NEW op \in Ops, MetadataOpen(op)'
        PROVE  MetadataOpen(op) /\ journal'[<<"metadata", op>>] = journal[<<"metadata", op>>]
    <2>1. pc \in OpPhase /\ op \notin visited
      BY <1>0, <1>2 DEF MetadataOpen
    <2>2. <<"metadata", op>> \in Effects /\ <<"metadata", op>>[2] = op
      BY Keys
    <2>. QED
      BY <1>0, <2>1, <2>2 DEF MetadataOpen
  <1>3. ASSUME NEW a \in Albums, AlbumOpen(a)'
        PROVE  AlbumOpen(a) /\ journal'[<<"album", a>>] = journal[<<"album", a>>]
    <2>1. pc \in OpPhase \/ (pc \in AlbumPhase /\ a \notin visited)
      BY <1>0, <1>3 DEF AlbumOpen
    <2>2. <<"album", a>> \in Effects /\ <<"album", a>>[2] = a /\ <<"album", a>>[1] = "album"
      BY Keys
    <2>. QED
      BY <1>0, <2>1, <2>2 DEF AlbumOpen
  <1>4. ASSUME NEW a \in Albums, MembersOpen(a)'
        PROVE  MembersOpen(a) /\ journal'[<<"members", a>>] = journal[<<"members", a>>]
    <2>1. pc \in OpPhase \/ (pc \in AlbumPhase /\ a \notin visited)
      BY <1>0, <1>4 DEF MembersOpen
    <2>2. <<"members", a>> \in Effects /\ <<"members", a>>[2] = a /\ <<"members", a>>[1] = "members"
      BY Keys
    <2>. QED
      BY <1>0, <2>1, <2>2 DEF MembersOpen
  <1>. QED
    BY <1>1, <1>2, <1>3, <1>4, SnapshotFrame

-----------------------------------------------------------------------------
(* Steps within one effect *)

SameKey(p, q) ==
    \/ p \in {"check", "upload", "final"} /\ q \in {"check", "upload", "final"}
    \/ p \in AlbumWork /\ q \in AlbumWork
    \/ p = q /\ p \in {"metadata", "members"}

\* The next request for the effect at hand.
LEMMA SameEffect ==
  ASSUME IInv, TypeOK',
         UNCHANGED <<assets, albums, journal, assetIds, state, run, staged, cur, visited, albumId>>,
         late' \in {late, Abandoned}, SameKey(pc, pc'),
         request' \in {"ready", "wait", "sent"}, request' = "sent" => pc' \in Writes,
         pc' \in {"create", "relook"} => pc \in {"create", "relook"} \/ OwnedAlbums(cur) = {}
  PROVE  IInv'
  <1>. PlaceOK /\ EffectOK /\ SnapshotOK /\ AnswerOK
    BY DEF IInv
  <1>1. /\ pc \in Writes \cup Reads /\ pc' \in Writes \cup Reads
        /\ pc \in OpPhase <=> pc' \in OpPhase
        /\ pc \in AlbumPhase <=> pc' \in AlbumPhase
        /\ pc \in OpPCs <=> pc' \in OpPCs
        /\ pc \in AlbumPCs <=> pc' \in AlbumPCs
        /\ pc \in OpWork <=> pc' \in OpWork
        /\ pc \in AlbumWork <=> pc' \in AlbumWork
        /\ pc = "metadata" <=> pc' = "metadata"
        /\ pc = "members" <=> pc' = "members"
        /\ pc' \notin {"describe", "fill", "off"} /\ pc \notin {"describe", "fill", "off"}
        /\ pc \in {"check", "upload", "final"} <=> pc' \in {"check", "upload", "final"}
    BY DEF SameKey, Writes, Reads, OpPhase, AlbumPhase, OpPCs, AlbumPCs, OpWork, AlbumWork
  <1>2. request' \notin {"created", "duplicate", "done"} /\ request' # None
    BY PlanAssumption
  <1>3. PlaceOK'
    BY <1>1, <1>2 DEF PlaceOK
  <1>4. EffectOK'
    BY <1>1 DEF EffectOK, AssetId, MetadataDone, AlbumRef, MembersDone, AllAssetsKnown
  <1>5. SnapshotOK'
    BY <1>1, SnapshotFrame DEF AssetOpen, MetadataOpen, AlbumOpen, MembersOpen
  <1>6. AnswerOK'
    <2>1. pc' \in {"create", "relook"} =>
              \A i \in DOMAIN albums : albums[i].name = cur => albums[i].ours
      BY DEF AnswerOK, OwnedAlbums
    <2>. QED
      BY <1>1, <1>2, <2>1 DEF AnswerOK
  <1>. QED
    BY <1>3, <1>4, <1>5, <1>6, QuietStep

\* The delay before a retry is over.
LEMMA StepRetryDelayOver == ASSUME IInv, RetryDelayOver PROVE IInv'
  <1>1. /\ UNCHANGED <<assets, albums, journal, assetIds, state, run, staged, cur, visited, albumId>>
        /\ late' = late /\ request' = "ready"
        /\ pc' = IF pc = "upload" THEN "check" ELSE pc
    BY DEF RetryDelayOver, Issue, serverVars, runVars
  <1>2. pc \in Writes \cup Reads
    BY PlanAssumption DEF RetryDelayOver, IInv, PlaceOK
  <1>3. TypeOK'
    <2>1. pc' \in PCs
      BY <1>1 DEF IInv, TypeOK, PCs, Reads
    <2>. QED
      BY <2>1 DEF RetryDelayOver, Issue, serverVars, runVars, IInv, TypeOK, Phases
  <1>4. SameKey(pc, pc') /\ (pc' \in {"create", "relook"} => pc \in {"create", "relook"})
    BY <1>1, <1>2 DEF SameKey, Writes, Reads, AlbumWork
  <1>. QED
    BY <1>1, <1>3, <1>4, SameEffect

\* The request is sent.
LEMMA StepSend == ASSUME IInv, Send PROVE IInv'
  <1>1. /\ UNCHANGED <<assets, albums, journal, assetIds, state, run, staged, cur, visited, albumId, pc>>
        /\ late' = late /\ request' = "sent" /\ pc \in Writes
    BY DEF Send, serverVars, runVars
  <1>2. TypeOK'
    BY DEF Send, serverVars, runVars, IInv, TypeOK, Phases
  <1>3. SameKey(pc, pc')
    BY <1>1 DEF SameKey, Writes, AlbumWork
  <1>. QED
    BY <1>1, <1>2, <1>3, SameEffect

\* The duplicate check asks for the upload.
LEMMA StepUploadAccepted == ASSUME IInv, UploadAccepted PROVE IInv'
  <1>1. /\ UNCHANGED <<assets, albums, journal, assetIds, state, run, staged, cur, visited, albumId>>
        /\ late' = late /\ request' = "ready" /\ pc = "check" /\ pc' = "upload"
    BY DEF UploadAccepted, Issue, serverVars, runVars
  <1>2. TypeOK'
    BY DEF UploadAccepted, Issue, serverVars, runVars, IInv, TypeOK, Phases, PCs, Writes
  <1>. QED
    BY <1>1, <1>2, SameEffect DEF SameKey

\* No album has the name: one is created.
LEMMA StepAlbumMissing == ASSUME IInv, AlbumMissing PROVE IInv'
  <1>1. /\ UNCHANGED <<assets, albums, journal, assetIds, state, run, staged, cur, visited, albumId>>
        /\ late' = late /\ request' = "ready" /\ pc = "lookup" /\ pc' = "create"
        /\ OwnedAlbums(cur) = {}
    BY DEF AlbumMissing, Issue, serverVars, runVars
  <1>2. TypeOK'
    BY DEF AlbumMissing, Issue, serverVars, runVars, IInv, TypeOK, Phases, PCs, Writes
  <1>. QED
    BY <1>1, <1>2, SameEffect DEF SameKey, AlbumWork

\* A retry is claimed and waited for.
LEMMA StepClaim ==
  ASSUME IInv, NEW loc \in Writes \cup Reads, ClaimAndWait(loc), SameKey(pc, loc), faults' \in Nat,
         loc \in {"create", "relook"} => pc \in {"create", "relook"},
         UNCHANGED <<journal, report, run, staged, visited, cur, albumId, retries, error,
                     assets, albums, assetIds, cancelled, state>>,
         late' \in {late, Abandoned}
  PROVE  IInv'
  <1>1. late' \subseteq RequestType
    <2>1. \A e : IsDone(e) => IsDone(e)'
      BY DEF IsDone
    <2>. QED
      BY <2>1, LateFrame
  <1>2. TypeOK'
    BY <1>1 DEF ClaimAndWait, IInv, TypeOK, Phases, PCs
  <1>. QED
    BY <1>2, SameEffect DEF ClaimAndWait

\* The next request after an error: the listing after a create, the duplicate
\* check after an upload.
LEMMA StepFollowUp ==
  ASSUME IInv, NEW loc \in {"relook", "final"}, Issue(loc), SameKey(pc, loc), faults' \in Nat,
         loc = "relook" => pc = "create", error' \in Retryable \cup {None},
         UNCHANGED <<journal, report, run, staged, visited, cur, albumId, retries,
                     assets, albums, assetIds, cancelled, state, used>>,
         late' \in {late, Abandoned}
  PROVE  IInv'
  <1>1. late' \subseteq RequestType
    <2>1. \A e : IsDone(e) => IsDone(e)'
      BY DEF IsDone
    <2>. QED
      BY <2>1, LateFrame
  <1>2. TypeOK'
    BY <1>1 DEF Issue, IInv, TypeOK, Phases, PCs, Reads
  <1>. QED
    BY <1>2, SameEffect DEF Issue

-----------------------------------------------------------------------------
(* Steps between effects *)

\* A run starts: the snapshot is the journal.
LEMMA StepStartRun == ASSUME IInv, StartRun PROVE IInv'
  <1>1. /\ UNCHANGED <<assets, albums, journal, late>> /\ run' = "active" /\ state' = journal
        /\ pc' = "operations" /\ request' = None /\ staged' = {} /\ visited' = {}
        /\ assetIds' = InitialAssetIds
    BY DEF StartRun, Restart, AtHead, serverVars
  <1>2. assetIds' = assetIds
    <2>1. assetIds \in [Ops -> Checksums \cup {None}]
      BY DEF IInv, TypeOK
    <2>. QED
      BY <1>1, <2>1 DEF InitialAssetIds, IInv, IdsAgree
  <1>3. TypeOK'
    <2>1. report' \in ReportType
      BY DEF StartRun, NewReport, ReportType
    <2>2. pc' \in PCs
      BY <1>1 DEF PCs
    <2>. QED
      BY <1>1, <1>2, <2>1, <2>2 DEF StartRun, Restart, AtHead, serverVars, IInv, TypeOK
  <1>4. PlaceOK' /\ EffectOK' /\ AnswerOK'
    BY <1>1, HeadOK
  <1>5. SnapshotOK'
    BY <1>1 DEF SnapshotOK
  <1>. QED
    BY <1>1, <1>2, <1>3, <1>4, <1>5, QuietStep

\* A run that returns without a further event.
LEMMA StepReturn ==
  ASSUME IInv, NEW how \in {"idle", "reported"}, run' = how, Restart("off"),
         staged' \subseteq staged, how = "reported" => staged' = {},
         UNCHANGED <<assets, albums, journal, assetIds, state>>, late' \in {late, Abandoned},
         faults' \in Nat, used' \in Nat, cancelled' \in BOOLEAN, report' \in ReportType
  PROVE  IInv'
  <1>1. late' \subseteq RequestType
    <2>1. \A e : IsDone(e) => IsDone(e)'
      BY DEF IsDone
    <2>. QED
      BY <2>1, LateFrame
  <1>2. TypeOK'
    <2>1. pc' \in PCs
      BY DEF Restart, AtHead, PCs
    <2>. QED
      BY <1>1, <2>1 DEF Restart, AtHead, IInv, TypeOK
  <1>3. PlaceOK' /\ EffectOK' /\ SnapshotOK' /\ AnswerOK'
    BY ReturnOK DEF Restart, AtHead
  <1>. QED
    BY <1>2, <1>3, QuietStep

\* The cancelled run stops before the next item.
LEMMA StepStopAtHead == ASSUME IInv, StopAtHead PROVE IInv'
  <1>1. report' \in ReportType
    BY DEF StopAtHead, IInv, TypeOK, ReportType
  <1>. QED
    BY <1>1, StepReturn DEF StopAtHead, Return, serverVars, IInv, TypeOK

\* The media cannot be prepared.
LEMMA StepPrepareFails == ASSUME IInv, PrepareFails PROVE IInv'
  BY StepReturn DEF PrepareFails, Return, Fault, serverVars, IInv, TypeOK

\* The albums are over.
LEMMA StepAlbumsOver == ASSUME IInv, AlbumsOver PROVE IInv'
  BY StepReturn DEF AlbumsOver, Return, serverVars, IInv, TypeOK

\* The process dies.
LEMMA StepCrash == ASSUME IInv, Crash PROVE IInv'
  BY StepReturn DEF Crash, Fault, IInv, TypeOK

\* The token is set.
LEMMA StepCancel == ASSUME IInv, Cancel PROVE IInv'
  <1>1. /\ UNCHANGED <<assets, albums, journal, assetIds, late, state, run, pc, visited, cur,
                       request, staged, answer, albumId>>
    BY DEF Cancel, serverVars, loopVars
  <1>2. TypeOK'
    BY DEF Cancel, Fault, serverVars, loopVars, IInv, TypeOK
  <1>3. PlaceOK' /\ EffectOK' /\ SnapshotOK' /\ AnswerOK'
    BY <1>1 DEF IInv, PlaceOK, EffectOK, SnapshotOK, AnswerOK, AssetOpen, MetadataOpen, AlbumOpen,
       MembersOpen, AssetId, MetadataDone, AlbumRef, MembersDone, AllAssetsKnown, AlbumMembers
  <1>. QED
    BY <1>1, <1>2, <1>3, QuietStep

\* The operations are over: on to the albums if every asset is known.
LEMMA StepOperationsOver == ASSUME IInv, OperationsOver PROVE IInv'
  <1>1. CASE ~AllAssetsKnown
    BY <1>1, StepReturn DEF OperationsOver, Return, serverVars, IInv, TypeOK
  <1>2. CASE AllAssetsKnown
    <2>1. /\ UNCHANGED <<assets, albums, journal, assetIds, late, state, run, staged>>
          /\ pc = "operations" /\ pc' = "albums" /\ request' = None /\ visited' = {} /\ cur' = None
      BY <1>2 DEF OperationsOver, Restart, AtHead, serverVars
    <2>2. TypeOK'
      BY <1>2 DEF OperationsOver, Restart, AtHead, serverVars, IInv, TypeOK, PCs
    <2>3. run' = "active" /\ staged' = {}
      BY <2>1 DEF IInv, PlaceOK
    <2>4. AllAssetsKnown'
      BY <1>2, <2>1 DEF AllAssetsKnown
    <2>5. PlaceOK' /\ EffectOK' /\ AnswerOK'
      BY <2>1, <2>3, <2>4, HeadOK
    <2>6. SnapshotOK'
      <3>1. pc \in OpPhase /\ pc' \notin OpPhase
        BY <2>1 DEF OpPhase, OpPCs, OpWork
      <3>. QED
        BY <2>1, <3>1, SnapshotFrame DEF IInv, AssetOpen, MetadataOpen, AlbumOpen, MembersOpen
    <2>. QED
      BY <2>1, <2>2, <2>5, <2>6, QuietStep
  <1>. QED
    BY <1>1, <1>2

\* The next operation is complete already, or its media is prepared.
LEMMA StepNextOperation ==
  ASSUME IInv, NEW op \in Ops, NextOperation(op), AssetId(state, op) # None \/ ~VideoMissing(op)
  PROVE  IInv'
  <1>. PlaceOK /\ EffectOK /\ SnapshotOK
    BY DEF IInv
  <1>1. /\ UNCHANGED <<assets, albums, journal, assetIds, late, state, run, staged>>
        /\ pc = "operations" /\ pc' \in {"describe", "prepare"} /\ request' = None
        /\ visited' = visited \cup {op} /\ cur' = op /\ op \notin visited
        /\ pc' = "describe" => AssetId(state, op) # None
        /\ pc' = "prepare" => AssetId(state, op) = None /\ ~VideoMissing(op)
    BY DEF NextOperation, AtHead, serverVars, runVars
  <1>2. /\ pc \in OpPhase /\ pc' \in OpPhase /\ pc' \in OpPCs /\ pc \notin OpPCs
        /\ pc' \notin AlbumPhase \cup AlbumPCs \cup AlbumWork \cup Writes \cup Reads
        /\ pc' \notin {"off", "check", "upload", "final", "metadata", "create", "relook", "fill", "members"}
        /\ (pc' \in OpWork => pc' = "prepare") /\ (pc' \in {"describe", "metadata"} => pc' = "describe")
    BY <1>1 DEF OpPhase, AlbumPhase, OpPCs, AlbumPCs, Writes, Reads, OpWork, AlbumWork
  <1>3. run = "active" /\ staged = {} /\ visited \subseteq Ops
    BY <1>1, <1>2 DEF PlaceOK
  <1>4. TypeOK'
    <2>1. report' \in ReportType
      <3>1. report \in ReportType /\ report.resumed \in Nat /\ report.failed \in Nat
        BY DEF IInv, TypeOK, ReportType
      <3>2. \/ UNCHANGED report
            \/ report' = [report EXCEPT !.resumed = report.resumed + 1]
            \/ report' = [report EXCEPT !.failed = report.failed + 1]
        BY DEF NextOperation
      <3>3. \A n \in Nat : n + 1 \in Nat
        OBVIOUS
      <3>4. \A n \in Nat : /\ [report EXCEPT !.resumed = n] \in ReportType
                          /\ [report EXCEPT !.failed = n] \in ReportType
        BY <3>1 DEF ReportType
      <3>. QED
        BY <3>1, <3>2, <3>3, <3>4
    <2>2. pc' \in PCs
      BY <1>1 DEF PCs
    <2>. QED
      BY <1>1, <1>3, <2>1, <2>2 DEF NextOperation, AtHead, serverVars, runVars, IInv, TypeOK
  <1>5. request' \notin {"sent", "created", "duplicate", "done"}
    BY <1>1, PlanAssumption
  <1>6. PlaceOK'
    BY <1>1, <1>2, <1>3, <1>5 DEF PlaceOK
  <1>7. EffectOK'
    <2>1. AssetOpen(op)
      BY <1>1, <1>2 DEF AssetOpen
    <2>2. assetIds[op] = AssetId(state, op)
      BY <2>1 DEF SnapshotOK, AssetId, IInv, IdsAgree
    <2>3. ~VideoMissing(op) => (op \in Images => assetIds[VideoOf[op]] # None)
      BY DEF VideoMissing, LiveVideoId
    <2>. QED
      BY <1>1, <1>2, <2>2, <2>3 DEF EffectOK, AssetId
  <1>8. SnapshotOK'
    BY <1>1, <1>2, SnapshotFrame DEF AssetOpen, MetadataOpen, AlbumOpen, MembersOpen
  <1>9. AnswerOK'
    BY <1>2, <1>5 DEF AnswerOK
  <1>. QED
    BY <1>1, <1>4, <1>6, <1>7, <1>8, <1>9, QuietStep

\* The media is staged and checked for.
LEMMA StepPrepare == ASSUME IInv, Prepare PROVE IInv'
  <1>. PlaceOK /\ EffectOK /\ SnapshotOK
    BY DEF IInv
  <1>1. /\ UNCHANGED <<assets, albums, journal, assetIds, late, state, run, visited, cur>>
        /\ pc = "prepare" /\ pc' = "check" /\ request' = "ready"
        /\ staged' = staged \cup ({cur} \cap Archived)
    BY DEF Prepare, Issue, serverVars, runVars
  <1>2. /\ pc \in OpPhase /\ pc' \in OpPhase /\ pc' \in OpPCs /\ pc \in OpPCs
        /\ pc \in OpWork /\ pc' \in OpWork
        /\ pc' \notin AlbumPhase \cup AlbumPCs \cup AlbumWork /\ pc' \in Reads
        /\ pc' \notin {"off", "describe", "metadata", "create", "relook", "fill", "members"}
    BY <1>1 DEF OpPhase, AlbumPhase, OpPCs, AlbumPCs, Reads, OpWork, AlbumWork
  <1>3. run = "active" /\ staged = {} /\ cur \in Ops
    BY <1>1, <1>2, AtHand DEF PlaceOK
  <1>4. TypeOK'
    <2>1. pc' \in PCs
      BY <1>1 DEF PCs, Reads
    <2>. QED
      BY <1>1, <1>3, <2>1 DEF Prepare, Issue, serverVars, runVars, IInv, TypeOK, Phases
  <1>5. request' \notin {None, "sent", "created", "duplicate", "done"}
    BY <1>1, PlanAssumption
  <1>6. PlaceOK'
    BY <1>1, <1>2, <1>3, <1>5 DEF PlaceOK
  <1>7. EffectOK'
    BY <1>1, <1>2 DEF EffectOK, AssetId
  <1>8. SnapshotOK'
    BY <1>1, <1>2, SnapshotFrame DEF AssetOpen, MetadataOpen, AlbumOpen, MembersOpen
  <1>9. AnswerOK'
    BY <1>2, <1>5 DEF AnswerOK
  <1>. QED
    BY <1>1, <1>4, <1>6, <1>7, <1>8, <1>9, QuietStep

\* apply_metadata has something to assign, or not.
LEMMA StepDescribe == ASSUME IInv, Describe PROVE IInv'
  <1>. PlaceOK /\ EffectOK /\ SnapshotOK
    BY DEF IInv
  <1>1. /\ UNCHANGED <<assets, albums, journal, assetIds, late, state, run, staged, visited, cur>>
        /\ pc = "describe"
    BY DEF Describe, serverVars, runVars
  <1>2. run = "active" /\ staged = {} /\ cur \in Ops /\ cur \in visited /\ visited \subseteq Ops
        /\ assetIds[cur] # None /\ pc \in OpPCs /\ pc \in OpPhase
    BY <1>1, AtHand DEF PlaceOK, EffectOK, OpPCs, OpPhase
  <1>3. CASE cur \in Described /\ ~MetadataDone(state, cur)
    <2>1. pc' = "metadata" /\ request' = "ready" /\ UNCHANGED <<report, retries, error>>
      BY <1>3 DEF Describe, Issue
    <2>2. /\ pc' \in OpPhase /\ pc' \in OpPCs /\ pc' \notin OpWork
          /\ pc' \notin AlbumPhase \cup AlbumPCs \cup AlbumWork /\ pc' \in Writes
          /\ pc' \notin {"off", "describe", "create", "relook", "fill", "members"}
      BY <2>1 DEF OpPhase, AlbumPhase, OpPCs, AlbumPCs, Writes, OpWork, AlbumWork
    <2>3. TypeOK'
      BY <1>1, <1>3, <2>1 DEF Describe, Issue, serverVars, runVars, IInv, TypeOK, Phases, PCs, Writes
    <2>4. request' \notin {None, "sent", "created", "duplicate", "done"}
      BY <2>1, PlanAssumption
    <2>5. PlaceOK'
      BY <1>1, <1>2, <2>2, <2>4 DEF PlaceOK
    <2>6. EffectOK'
      BY <1>1, <1>2, <1>3, <2>2 DEF EffectOK, MetadataDone
    <2>7. SnapshotOK'
      BY <1>1, <1>2, <2>2, SnapshotFrame DEF AssetOpen, MetadataOpen, AlbumOpen, MembersOpen
    <2>8. AnswerOK'
      BY <2>2, <2>4 DEF AnswerOK
    <2>. QED
      BY <1>1, <2>3, <2>5, <2>6, <2>7, <2>8, QuietStep
  <1>4. CASE ~(cur \in Described /\ ~MetadataDone(state, cur))
    <2>1. pc' = "operations" /\ request' = None
          /\ report' = IF cur \in Described THEN [report EXCEPT !.resumed = @ + 1] ELSE report
      BY <1>4 DEF Describe, AtHead
    <2>2. report' \in ReportType
      BY <2>1 DEF IInv, TypeOK, ReportType
    <2>3. TypeOK'
      BY <1>1, <1>4, <2>2 DEF Describe, AtHead, serverVars, runVars, IInv, TypeOK, PCs
    <2>4. PlaceOK' /\ EffectOK' /\ AnswerOK'
      BY <1>1, <1>2, <2>1, HeadOK
    <2>5. SnapshotOK'
      BY <1>1, <1>2, <2>1, BackToHead
    <2>. QED
      BY <1>1, <2>3, <2>4, <2>5, QuietStep
  <1>. QED
    BY <1>3, <1>4

\* The next album is known from the checkpoint, or is looked up.
LEMMA StepNextAlbum == ASSUME IInv, NEW a \in Albums, NextAlbum(a) PROVE IInv'
  <1>. PlaceOK /\ EffectOK /\ SnapshotOK
    BY DEF IInv
  <1>1. /\ UNCHANGED <<assets, albums, journal, assetIds, late, state, run, staged>>
        /\ pc = "albums" /\ visited' = visited \cup {a} /\ cur' = a /\ a \notin visited
    BY DEF NextAlbum, serverVars, runVars
  <1>2. /\ run = "active" /\ staged = {} /\ visited \subseteq Albums /\ AllAssetsKnown
        /\ pc \in AlbumPhase /\ pc \notin OpPhase /\ pc \notin AlbumPCs
    BY <1>1 DEF PlaceOK, EffectOK, AlbumPhase, OpPhase, OpPCs, OpWork, AlbumPCs, AlbumWork
  <1>3. CASE AlbumRef(state, a) # None
    <2>1. /\ albumId' = AlbumRef(state, a) /\ pc' = "fill" /\ request' = None
          /\ report' = [report EXCEPT !.resumed = @ + 1]
      BY <1>3 DEF NextAlbum, AtHead
    <2>2. /\ pc' \in AlbumPhase /\ pc' \in AlbumPCs /\ pc' \notin AlbumWork
          /\ pc' \notin OpPhase \cup OpPCs \cup OpWork \cup Writes \cup Reads
          /\ pc' \notin {"off", "describe", "create", "relook", "members", "metadata"}
      BY <2>1 DEF OpPhase, AlbumPhase, OpPCs, AlbumPCs, Writes, Reads, OpWork, AlbumWork
    <2>3. AlbumOpen(a)
      BY <1>1, <1>2 DEF AlbumOpen
    <2>4. AlbumRef(journal, a) = AlbumRef(state, a)
      BY <2>3 DEF SnapshotOK, AlbumRef
    <2>5. AlbumRef(journal, a) \in Nat
      <3>1. AlbumRef(journal, a) \in DOMAIN albums
        BY <1>3, <2>4, ReadsJournal DEF IInv, JournalTrue, AlbumTrue
      <3>2. DOMAIN albums \subseteq Nat
        BY DEF IInv, TypeOK
      <3>. QED
        BY <3>1, <3>2
    <2>6. TypeOK'
      <3>1. report' \in ReportType
        BY <2>1 DEF IInv, TypeOK, ReportType
      <3>2. pc' \in PCs
        BY <2>1 DEF PCs
      <3>. QED
        BY <1>1, <1>2, <1>3, <2>1, <2>4, <2>5, <3>1, <3>2
           DEF NextAlbum, AtHead, serverVars, runVars, IInv, TypeOK
    <2>7. request' \notin {"sent", "created", "duplicate", "done"}
      BY <2>1, PlanAssumption
    <2>8. PlaceOK'
      BY <1>1, <1>2, <2>1, <2>2, <2>7 DEF PlaceOK
    <2>9. EffectOK'
      BY <1>1, <1>2, <1>3, <2>1, <2>2, <2>4 DEF EffectOK, AlbumRef, AllAssetsKnown
    <2>10. SnapshotOK'
      BY <1>1, <1>2, <2>2, SnapshotFrame DEF AssetOpen, MetadataOpen, AlbumOpen, MembersOpen
    <2>11. AnswerOK'
      BY <2>2, <2>7 DEF AnswerOK
    <2>. QED
      BY <1>1, <2>6, <2>8, <2>9, <2>10, <2>11, QuietStep
  <1>4. CASE AlbumRef(state, a) = None
    <2>1. pc' = "lookup" /\ request' = "ready" /\ UNCHANGED <<albumId, report, retries, error>>
      BY <1>4 DEF NextAlbum, Issue
    <2>2. /\ pc' \in AlbumPhase /\ pc' \in AlbumPCs /\ pc' \in AlbumWork /\ pc' \in Reads
          /\ pc' \notin OpPhase \cup OpPCs \cup OpWork
          /\ pc' \notin {"off", "describe", "create", "relook", "members", "metadata", "fill"}
      BY <2>1 DEF OpPhase, AlbumPhase, OpPCs, AlbumPCs, Reads, OpWork, AlbumWork
    <2>3. TypeOK'
      BY <1>1, <1>2, <1>4, <2>1
         DEF NextAlbum, Issue, serverVars, runVars, IInv, TypeOK, Phases, PCs, Reads
    <2>4. request' \notin {None, "sent", "created", "duplicate", "done"}
      BY <2>1, PlanAssumption
    <2>5. PlaceOK'
      BY <1>1, <1>2, <2>1, <2>2, <2>4 DEF PlaceOK
    <2>6. EffectOK'
      BY <1>1, <1>2, <1>4, <2>1, <2>2 DEF EffectOK, AlbumRef, AllAssetsKnown
    <2>7. SnapshotOK'
      BY <1>1, <1>2, <2>2, SnapshotFrame DEF AssetOpen, MetadataOpen, AlbumOpen, MembersOpen
    <2>8. AnswerOK'
      BY <2>2, <2>4 DEF AnswerOK
    <2>. QED
      BY <1>1, <2>3, <2>5, <2>6, <2>7, <2>8, QuietStep
  <1>. QED
    BY <1>3, <1>4

\* The members of an album are in it already, or are added.
LEMMA StepFill == ASSUME IInv, Fill PROVE IInv'
  <1>. PlaceOK /\ EffectOK /\ SnapshotOK
    BY DEF IInv
  <1>1. /\ UNCHANGED <<assets, albums, journal, assetIds, late, state, run, staged, visited, cur, albumId>>
        /\ pc = "fill"
    BY DEF Fill, serverVars, runVars
  <1>2. /\ run = "active" /\ staged = {} /\ cur \in Albums /\ cur \in visited /\ visited \subseteq Albums
        /\ albumId # None /\ AlbumRef(journal, cur) = albumId /\ AllAssetsKnown
        /\ pc \in AlbumPCs /\ pc \in AlbumPhase /\ pc \notin OpPhase
    BY <1>1, AtHand DEF PlaceOK, EffectOK, AlbumPCs, AlbumPhase, AlbumWork, OpPhase, OpPCs, OpWork
  <1>3. CASE ~MembersDone(state, cur)
    <2>1. pc' = "members" /\ request' = "ready" /\ UNCHANGED <<report, retries, error>>
      BY <1>3 DEF Fill, Issue
    <2>2. /\ pc' \in AlbumPhase /\ pc' \in AlbumPCs /\ pc' \notin AlbumWork /\ pc' \in Writes
          /\ pc' \notin OpPhase \cup OpPCs \cup OpWork
          /\ pc' \notin {"off", "describe", "create", "relook", "fill", "metadata"}
      BY <2>1 DEF OpPhase, AlbumPhase, OpPCs, AlbumPCs, Writes, OpWork, AlbumWork
    <2>3. TypeOK'
      BY <1>1, <1>3, <2>1 DEF Fill, Issue, serverVars, runVars, IInv, TypeOK, Phases, PCs, Writes
    <2>4. request' \notin {None, "sent", "created", "duplicate", "done"}
      BY <2>1, PlanAssumption
    <2>5. PlaceOK'
      BY <1>1, <1>2, <2>2, <2>4 DEF PlaceOK
    <2>6. EffectOK'
      BY <1>1, <1>2, <1>3, <2>2 DEF EffectOK, MembersDone, AlbumRef, AllAssetsKnown
    <2>7. SnapshotOK'
      BY <1>1, <1>2, <2>2, SnapshotFrame DEF AssetOpen, MetadataOpen, AlbumOpen, MembersOpen
    <2>8. AnswerOK'
      BY <2>2, <2>4 DEF AnswerOK
    <2>. QED
      BY <1>1, <2>3, <2>5, <2>6, <2>7, <2>8, QuietStep
  <1>4. CASE MembersDone(state, cur)
    <2>1. pc' = "albums" /\ request' = None /\ report' = [report EXCEPT !.resumed = @ + 1]
      BY <1>4 DEF Fill, AtHead
    <2>2. report' \in ReportType
      BY <2>1 DEF IInv, TypeOK, ReportType
    <2>3. TypeOK'
      BY <1>1, <1>4, <2>2 DEF Fill, AtHead, serverVars, runVars, IInv, TypeOK, PCs
    <2>4. PlaceOK' /\ EffectOK' /\ AnswerOK'
      <3>1. AllAssetsKnown'
        BY <1>1, <1>2 DEF AllAssetsKnown
      <3>. QED
        BY <1>1, <1>2, <2>1, <3>1, HeadOK
    <2>5. SnapshotOK'
      BY <1>1, <1>2, <2>1, BackToHead
    <2>. QED
      BY <1>1, <2>3, <2>4, <2>5, QuietStep
  <1>. QED
    BY <1>3, <1>4

-----------------------------------------------------------------------------
(* Events of the checkpoint *)

\* An event that says an effect was not achieved leaves the durable ones alone.
LEMMA FailureRecorded ==
  ASSUME IInv, NEW e \in Effects, ~IsDone(e), NEW kind \in {"failed", "indeterminate"},
         journal' = [journal EXCEPT ![e] = Event(kind, None)],
         UNCHANGED <<assets, albums, assetIds>>
  PROVE  /\ journal' \in [Effects -> EventType]
         /\ \A f \in Effects : IsDone(f)' <=> IsDone(f)
         /\ \A f \in Effects : f # e => journal'[f] = journal[f]
         /\ JournalTrue' /\ IdsAgree' /\ MetaOK' /\ TouchedLast'
  <1>. JournalTrue /\ journal \in [Effects -> EventType]
    BY DEF IInv, TypeOK
  <1>1. Event(kind, None) \in EventType
    BY DEF Event, EventType
  <1>2. journal' \in [Effects -> EventType] /\ journal'[e] = Event(kind, None)
        /\ \A f \in Effects : f # e => journal'[f] = journal[f]
    BY <1>1
  <1>3. ~IsDone(e)'
    BY <1>2 DEF IsDone, Event, Durable
  <1>4. \A f \in Effects : IsDone(f)' <=> IsDone(f)
    BY <1>2, <1>3 DEF IsDone
  <1>5. \A f \in Effects : IsDone(f) => journal'[f] = journal[f]
    BY <1>2
  <1>6. JournalTrue'
    <2>1. \A op \in Ops : AssetTrue(op)' /\ MetadataTrue(op)'
      BY <1>4, <1>5, Keys DEF JournalTrue, AssetTrue, MetadataTrue
    <2>2. \A a \in Albums : AlbumTrue(a)'
      BY <1>4, <1>5, Keys DEF JournalTrue, AlbumTrue
    <2>3. ASSUME NEW a \in Albums PROVE MembersTrue(a)'
      <3>. SUFFICES ASSUME IsDone(<<"members", a>>) PROVE MembersTrue(a)'
        BY <1>4, Keys DEF MembersTrue
      <3>1. /\ journal[<<"members", a>>].kind = "completed" /\ IsDone(<<"album", a>>)
            /\ Planned(a) \subseteq albums[journal[<<"album", a>>].id].members
        BY DEF JournalTrue, MembersTrue
      <3>2. /\ journal'[<<"members", a>>] = journal[<<"members", a>>]
            /\ journal'[<<"album", a>>] = journal[<<"album", a>>] /\ IsDone(<<"album", a>>)'
        BY <1>4, <1>5, <3>1, Keys
      <3>. QED
        BY <3>1, <3>2 DEF MembersTrue, Planned
    <2>. QED
      BY <2>1, <2>2, <2>3 DEF JournalTrue
  <1>7. IdsAgree'
    <2>1. \A op \in Ops : AssetId(journal, op) = IF IsDone(<<"asset", op>>) THEN Sha1[op] ELSE None
      BY ReadsJournal
    <2>2. \A op \in Ops : AssetId(journal', op) = IF IsDone(<<"asset", op>>)' THEN Sha1[op] ELSE None
      <3>1. {"created", "duplicate"} \subseteq Durable
        BY DEF Durable
      <3>. QED
        BY <1>6, <3>1 DEF JournalTrue, AssetTrue, AssetId, IsDone
    <2>. QED
      BY <1>4, <2>1, <2>2, Keys DEF IInv, IdsAgree, AssetId
  <1>8. MetaOK' /\ TouchedLast'
    BY <1>4, Keys DEF IInv, MetaOK, TouchedLast, AllDurable
  <1>. QED
    BY <1>2, <1>4, <1>6, <1>7, <1>8

\* A step that records an event.
LEMMA EventStep ==
  ASSUME IInv, UNCHANGED <<assets, albums>>, late' \in {late, Abandoned},
         \A op \in Ops : IsDone(<<"asset", op>>) => IsDone(<<"asset", op>>)',
         TypeOK', PlaceOK', EffectOK', SnapshotOK', AnswerOK',
         JournalTrue', IdsAgree', MetaOK', TouchedLast'
  PROVE  IInv'
  BY LateFrame DEF IInv

\* The effect a request is for belongs to what the run is at.
LEMMA KeyParts ==
  ASSUME pc \in Writes \cup Reads
  PROVE  /\ pc \in OpPCs \cup AlbumPCs /\ Key[2] = cur
         /\ pc \in OpPCs => Key[1] \in {"asset", "metadata"} /\ Home = "operations" /\ pc \in OpPhase
         /\ pc \in AlbumPCs => Key[1] \in {"album", "members"} /\ Home = "albums" /\ pc \in AlbumPhase
  BY KeyIs DEF Writes, Reads, OpPCs, AlbumPCs, OpWork, AlbumWork, Home, OpPhase, AlbumPhase

\* The failure of an effect is one more in the report.
LEMMA FailureReport ==
  ASSUME TypeOK, NEW kind \in {"failed", "indeterminate"}, NEW stop \in BOOLEAN,
         RecordFailure(kind, stop)
  PROVE  /\ report' \in ReportType
         /\ report'.done = report.done
         /\ report'.failed > 0 \/ report'.indeterminate > 0
  <1>1. /\ report.failed \in Nat /\ report.indeterminate \in Nat /\ report.retried \in Nat /\ retries \in Nat
        /\ report \in ReportType
    BY DEF TypeOK, ReportType
  <1>2. PICK f \in Nat, i \in Nat, r \in Nat :
            /\ f = report.failed + (IF kind = "failed" THEN 1 ELSE 0)
            /\ i = report.indeterminate + (IF kind = "indeterminate" THEN 1 ELSE 0)
            /\ r = report.retried + retries
    BY <1>1
  <1>3. report' = [report EXCEPT !.failed = f, !.indeterminate = i, !.retried = r, !.cancelled = stop]
    BY <1>2 DEF RecordFailure
  <1>4. f > 0 \/ i > 0
    BY <1>1, <1>2
  <1>. QED
    BY <1>1, <1>3, <1>4 DEF ReportType

\* The effect at hand is given up and the loop goes on.
LEMMA StepGiveUp ==
  ASSUME IInv, pc \in Writes \cup Reads, NEW kind \in {"failed", "indeterminate"}, GiveUp(kind),
         UNCHANGED <<assets, albums, assetIds, cancelled, state>>, late' \in {late, Abandoned},
         used' \in Nat, faults' \in Nat
  PROVE  IInv'
  <1>. TypeOK /\ PlaceOK /\ EffectOK /\ SnapshotOK
    BY DEF IInv
  <1>1. Key \in Effects /\ ~IsDone(Key)
    BY KeyOpen
  <1>2. /\ journal' = [journal EXCEPT ![Key] = Event(kind, None)] /\ RecordFailure(kind, FALSE)
        /\ staged' = staged \ {cur} /\ pc' = Home /\ request' = None
        /\ UNCHANGED <<run, visited, cur, albumId>>
    BY DEF GiveUp, RecordFailure, Unstaged, AtHead
  <1>3. /\ journal' \in [Effects -> EventType]
        /\ \A f \in Effects : IsDone(f)' <=> IsDone(f)
        /\ \A f \in Effects : f # Key => journal'[f] = journal[f]
        /\ JournalTrue' /\ IdsAgree' /\ MetaOK' /\ TouchedLast'
    BY <1>1, <1>2, FailureRecorded
  <1>4. /\ pc \in OpPCs \cup AlbumPCs /\ Key[2] = cur
        /\ pc \in OpPCs => Key[1] \in {"asset", "metadata"} /\ Home = "operations" /\ pc \in OpPhase
        /\ pc \in AlbumPCs => Key[1] \in {"album", "members"} /\ Home = "albums" /\ pc \in AlbumPhase
    BY KeyParts
  <1>5. run = "active" /\ staged' = {}
    <2>1. pc # "off"
      BY DEF Writes, Reads
    <2>. QED
      BY <1>2, <2>1 DEF PlaceOK
  <1>6. late' \subseteq RequestType
    BY <1>3, Keys, LateFrame
  <1>7. TypeOK'
    <2>1. report' \in ReportType
      BY <1>2, FailureReport
    <2>2. pc' \in PCs
      BY <1>2, <1>4 DEF PCs
    <2>. QED
      BY <1>2, <1>3, <1>5, <1>6, <2>1, <2>2 DEF GiveUp, AtHead, TypeOK
  <1>8. PlaceOK' /\ EffectOK' /\ AnswerOK'
    <2>1. pc' = "operations" => visited' \subseteq Ops
      BY <1>2, <1>4 DEF PlaceOK
    <2>2. pc' = "albums" => visited' \subseteq Albums /\ AllAssetsKnown'
      BY <1>2, <1>4 DEF PlaceOK, EffectOK, AllAssetsKnown
    <2>. QED
      BY <1>2, <1>4, <1>5, <2>1, <2>2, HeadOK
  <1>9. SnapshotOK'
    <2>1. \A e \in Effects : journal'[e] # journal[e] => pc \in OpPCs \cup AlbumPCs /\ e[2] = cur /\
                (pc \in OpPCs => e[1] \in {"asset", "metadata"}) /\
                (pc \in AlbumPCs => e[1] \in {"album", "members"})
      BY <1>3, <1>4
    <2>2. \/ pc \in OpPhase /\ pc' = "operations"
          \/ pc \in AlbumPhase /\ pc' = "albums"
      BY <1>2, <1>4
    <2>. QED
      BY <1>2, <2>1, <2>2, BackToHead
  <1>. QED
    BY <1>3, <1>7, <1>8, <1>9, EventStep, Keys

\* The effect at hand is given up and so is the run.
LEMMA StepFailAndReturn ==
  ASSUME IInv, pc \in Writes \cup Reads, NEW kind \in {"failed", "indeterminate"},
         RecordFailure(kind, TRUE), Return("reported"),
         UNCHANGED <<assets, albums, assetIds, cancelled, state, used, faults>>, late' \in {late, Abandoned}
  PROVE  IInv'
  <1>. TypeOK
    BY DEF IInv
  <1>1. Key \in Effects /\ ~IsDone(Key)
    BY KeyOpen
  <1>2. /\ journal' = [journal EXCEPT ![Key] = Event(kind, None)]
        /\ staged' = {} /\ pc' = "off" /\ request' = None /\ run' = "reported"
    BY DEF RecordFailure, Return, Restart, AtHead
  <1>3. /\ journal' \in [Effects -> EventType]
        /\ \A f \in Effects : IsDone(f)' <=> IsDone(f)
        /\ JournalTrue' /\ IdsAgree' /\ MetaOK' /\ TouchedLast'
    BY <1>1, <1>2, FailureRecorded
  <1>4. late' \subseteq RequestType
    BY <1>3, Keys, LateFrame
  <1>5. TypeOK'
    <2>1. report' \in ReportType
      BY FailureReport
    <2>2. pc' \in PCs
      BY <1>2 DEF PCs
    <2>. QED
      BY <1>2, <1>3, <1>4, <2>1, <2>2 DEF Return, Restart, AtHead, TypeOK
  <1>6. PlaceOK' /\ EffectOK' /\ SnapshotOK' /\ AnswerOK'
    BY <1>2, ReturnOK
  <1>. QED
    BY <1>3, <1>5, <1>6, EventStep, Keys

\* An event that says an effect is durable, when the server agrees.
DoneIsTrue(e, kind, id) ==
    /\ \A op \in Ops : e = <<"asset", op>> =>
           kind \in {"created", "duplicate"} /\ id = Sha1[op] /\ assets[Sha1[op]] # None
    /\ \A op \in Ops : e = <<"metadata", op>> =>
           kind = "completed" /\ assets[Sha1[op]] # None /\ assets[Sha1[op]].meta # None
    /\ \A a \in Albums : e = <<"album", a>> =>
           /\ kind \in {"created", "reused"} /\ id \in DOMAIN albums /\ albums[id].name = a
           /\ kind = "created" => albums[id].ours
    /\ \A a \in Albums : e = <<"members", a>> =>
           /\ kind = "completed" /\ IsDone(<<"album", a>>)
           /\ Planned(a) \subseteq albums[journal[<<"album", a>>].id].members

\* Recording it keeps the journal true and the durable effects as they are.
LEMMA DoneRecorded ==
  ASSUME IInv, NEW e \in Effects, ~IsDone(e), NEW kind \in Durable,
         NEW id \in Checksums \cup Nat \cup {None},
         journal' = [journal EXCEPT ![e] = Event(kind, id)], DoneIsTrue(e, kind, id),
         UNCHANGED <<assets, albums>>,
         \A op \in Ops : assetIds'[op] = IF e = <<"asset", op>> THEN Sha1[op] ELSE assetIds[op]
  PROVE  /\ journal' \in [Effects -> EventType] /\ journal'[e] = Event(kind, id)
         /\ IsDone(e)' /\ \A f \in Effects : IsDone(f) => IsDone(f)'
         /\ \A f \in Effects : f # e => journal'[f] = journal[f]
         /\ JournalTrue' /\ IdsAgree' /\ MetaOK' /\ TouchedLast'
  <1>. JournalTrue /\ journal \in [Effects -> EventType]
    BY DEF IInv, TypeOK
  <1>0. Event(kind, id) \in EventType /\ Event(kind, id).kind = kind /\ Event(kind, id).id = id
    BY DEF Event, EventType
  <1>1. journal' \in [Effects -> EventType] /\ journal'[e] = Event(kind, id)
        /\ \A f \in Effects : f # e => journal'[f] = journal[f]
    BY <1>0
  <1>2. journal'[e].kind = kind /\ journal'[e].id = id
    BY <1>0, <1>1
  <1>3. IsDone(e)' /\ \A f \in Effects : f # e => (IsDone(f)' <=> IsDone(f))
    BY <1>1, <1>2 DEF IsDone
  <1>4. \A f \in Effects : IsDone(f) => IsDone(f)' /\ f # e /\ journal'[f] = journal[f]
    BY <1>1, <1>3
  <1>5. JournalTrue'
    <2>1. ASSUME NEW op \in Ops PROVE AssetTrue(op)'
      <3>1. CASE e = <<"asset", op>>
        BY <1>2, <3>1 DEF AssetTrue, DoneIsTrue
      <3>2. CASE e # <<"asset", op>>
        BY <1>1, <1>3, <3>2, Keys DEF AssetTrue, JournalTrue
      <3>. QED
        BY <3>1, <3>2
    <2>2. ASSUME NEW op \in Ops PROVE MetadataTrue(op)'
      <3>1. CASE e = <<"metadata", op>>
        BY <1>2, <3>1 DEF MetadataTrue, DoneIsTrue
      <3>2. CASE e # <<"metadata", op>>
        BY <1>1, <1>3, <3>2, Keys DEF MetadataTrue, JournalTrue
      <3>. QED
        BY <3>1, <3>2
    <2>3. ASSUME NEW a \in Albums PROVE AlbumTrue(a)'
      <3>1. CASE e = <<"album", a>>
        BY <1>2, <3>1 DEF AlbumTrue, DoneIsTrue
      <3>2. CASE e # <<"album", a>>
        BY <1>1, <1>3, <3>2, Keys DEF AlbumTrue, JournalTrue
      <3>. QED
        BY <3>1, <3>2
    <2>4. ASSUME NEW a \in Albums PROVE MembersTrue(a)'
      <3>. SUFFICES ASSUME IsDone(<<"members", a>>)' PROVE MembersTrue(a)'
        BY DEF MembersTrue
      <3>1. /\ journal'[<<"members", a>>].kind = "completed" /\ IsDone(<<"album", a>>)
            /\ Planned(a) \subseteq albums[journal[<<"album", a>>].id].members
        <4>1. CASE e = <<"members", a>>
          BY <1>2, <4>1 DEF DoneIsTrue
        <4>2. CASE e # <<"members", a>>
          BY <1>1, <1>3, <4>2, Keys DEF MembersTrue, JournalTrue
        <4>. QED
          BY <4>1, <4>2
      <3>2. IsDone(<<"album", a>>)' /\ journal'[<<"album", a>>] = journal[<<"album", a>>]
        BY <1>4, <3>1, Keys
      <3>. QED
        BY <3>1, <3>2 DEF MembersTrue, Planned
    <2>. QED
      BY <2>1, <2>2, <2>3, <2>4 DEF JournalTrue
  <1>6. IdsAgree'
    <2>1. \A op \in Ops : assetIds[op] = IF IsDone(<<"asset", op>>) THEN Sha1[op] ELSE None
      BY ReadsJournal DEF IInv, IdsAgree
    <2>2. \A op \in Ops : AssetId(journal', op) = IF IsDone(<<"asset", op>>)' THEN Sha1[op] ELSE None
      <3>1. {"created", "duplicate"} \subseteq Durable
        BY DEF Durable
      <3>. QED
        BY <1>5, <3>1 DEF JournalTrue, AssetTrue, AssetId, IsDone
    <2>3. \A op \in Ops : assetIds'[op] = AssetId(journal', op)
      BY <1>3, <2>1, <2>2, Keys
    <2>. QED
      BY <2>3 DEF IdsAgree, AssetId
  <1>7. MetaOK' /\ TouchedLast'
    BY <1>4, Keys DEF IInv, MetaOK, TouchedLast, AllDurable
  <1>. QED
    BY <1>1, <1>3, <1>4, <1>5, <1>6, <1>7

\* A durable effect is one more in the report.
LEMMA DoneReport ==
  ASSUME TypeOK, NEW kind, NEW id, RecordDone(kind, id)
  PROVE  /\ report' \in ReportType /\ report'.done = report.done + 1
         /\ UNCHANGED <<report.failed, report.indeterminate, report.cancelled>>
  <1>1. /\ report.done \in Nat /\ report.retried \in Nat /\ retries \in Nat /\ report \in ReportType
    BY DEF TypeOK, ReportType
  <1>2. PICK d \in Nat, r \in Nat : d = report.done + 1 /\ r = report.retried + retries
    BY <1>1
  <1>3. report' = [report EXCEPT !.done = d, !.retried = r]
    BY <1>2 DEF RecordDone
  <1>. QED
    BY <1>1, <1>2, <1>3 DEF ReportType

\* The asset of the operation at hand is converged.
LEMMA StepAssetDone ==
  ASSUME IInv, pc \in {"check", "upload", "final"}, assets[Sha1[cur]] # None,
         NEW kind \in {"created", "duplicate"}, AssetDone(kind)
  PROVE  IInv'
  <1>. TypeOK /\ PlaceOK /\ EffectOK /\ SnapshotOK
    BY DEF IInv
  <1>1. /\ journal' = [journal EXCEPT ![Key] = Event(kind, Sha1[cur])] /\ RecordDone(kind, Sha1[cur])
        /\ assetIds' = [assetIds EXCEPT ![cur] = Sha1[cur]] /\ staged' = staged \ {cur}
        /\ pc' = "describe" /\ request' = None
        /\ UNCHANGED <<assets, albums, late, state, run, visited, cur>>
    BY DEF AssetDone, RecordDone, Unstaged, AtHead, RequestFrame, serverVars
  <1>2. /\ pc \in OpPCs /\ pc \in OpPhase /\ pc \in OpWork /\ pc \notin AlbumPhase
        /\ pc \in Writes \cup Reads /\ pc # "off"
    BY DEF OpPCs, OpPhase, OpWork, Writes, Reads, AlbumPhase, AlbumPCs, AlbumWork
  <1>3. /\ pc' \in OpPCs /\ pc' \in OpPhase /\ pc' \notin OpWork /\ pc' \in PCs
        /\ pc' \notin AlbumPhase \cup AlbumPCs \cup AlbumWork \cup Writes \cup Reads
        /\ pc' \notin {"off", "check", "upload", "final", "metadata", "create", "relook", "fill", "members"}
    BY <1>1 DEF OpPhase, AlbumPhase, OpPCs, AlbumPCs, Writes, Reads, OpWork, AlbumWork, PCs
  <1>4. cur \in Ops /\ Sha1[cur] \in Checksums /\ Sha1[cur] # None
    BY <1>2, AtHand, PlanAssumption
  <1>5. Key = <<"asset", cur>> /\ Key \in Effects /\ ~IsDone(Key)
    BY <1>2, KeyIs, KeyOpen
  <1>6. assetIds' \in [Ops -> Checksums \cup {None}] /\ assetIds'[cur] # None
        /\ \A op \in Ops : assetIds'[op] = IF Key = <<"asset", op>> THEN Sha1[op] ELSE assetIds[op]
    <2>1. \A op \in Ops : Key = <<"asset", op>> <=> op = cur
      BY <1>5
    <2>. QED
      BY <1>1, <1>4, <2>1 DEF TypeOK
  <1>7. DoneIsTrue(Key, kind, Sha1[cur])
    BY <1>4, <1>5 DEF DoneIsTrue
  <1>8. /\ journal' \in [Effects -> EventType] /\ \A f \in Effects : IsDone(f) => IsDone(f)'
        /\ \A f \in Effects : f # Key => journal'[f] = journal[f]
        /\ JournalTrue' /\ IdsAgree' /\ MetaOK' /\ TouchedLast'
    <2>1. kind \in Durable /\ Sha1[cur] \in Checksums \cup Nat \cup {None}
      BY <1>4 DEF Durable
    <2>. QED
      BY <1>1, <1>5, <1>6, <1>7, <2>1, DoneRecorded
  <1>9. run = "active" /\ staged' = {} /\ visited \subseteq Ops /\ cur \in visited
    BY <1>1, <1>2 DEF PlaceOK
  <1>10. TypeOK'
    <2>1. report' \in ReportType
      BY <1>1, DoneReport
    <2>. QED
      BY <1>1, <1>3, <1>6, <1>8, <1>9, <2>1 DEF AssetDone, AtHead, RequestFrame, TypeOK
  <1>11. request' \notin {"sent", "created", "duplicate", "done"}
    BY <1>1, PlanAssumption
  <1>12. PlaceOK'
    BY <1>1, <1>3, <1>9, <1>11 DEF PlaceOK
  <1>13. EffectOK'
    BY <1>1, <1>3, <1>6 DEF EffectOK
  <1>14. SnapshotOK'
    <2>1. ASSUME NEW op \in Ops, AssetOpen(op)'
          PROVE  AssetOpen(op) /\ journal'[<<"asset", op>>] = journal[<<"asset", op>>]
      <3>1. op \notin visited
        BY <1>1, <1>3, <2>1 DEF AssetOpen
      <3>2. <<"asset", op>> \in Effects /\ <<"asset", op>> # Key
        BY <1>5, <1>9, <3>1, Keys
      <3>. QED
        BY <1>2, <1>8, <3>1, <3>2 DEF AssetOpen
    <2>2. ASSUME NEW op \in Ops, MetadataOpen(op)'
          PROVE  MetadataOpen(op) /\ journal'[<<"metadata", op>>] = journal[<<"metadata", op>>]
      <3>1. MetadataOpen(op)
        BY <1>1, <1>2, <2>2 DEF MetadataOpen
      <3>2. <<"metadata", op>> \in Effects /\ <<"metadata", op>> # Key
        BY <1>5, Keys
      <3>. QED
        BY <1>8, <3>1, <3>2
    <2>3. \A a \in Albums : AlbumOpen(a)' => AlbumOpen(a) /\ journal'[<<"album", a>>] = journal[<<"album", a>>]
      BY <1>2, <1>5, <1>8, Keys DEF AlbumOpen
    <2>4. \A a \in Albums : MembersOpen(a)' => MembersOpen(a) /\ journal'[<<"members", a>>] = journal[<<"members", a>>]
      BY <1>2, <1>5, <1>8, Keys DEF MembersOpen
    <2>. QED
      BY <1>1, <2>1, <2>2, <2>3, <2>4, SnapshotFrame
  <1>15. AnswerOK'
    BY <1>3, <1>11 DEF AnswerOK
  <1>. QED
    BY <1>1, <1>8, <1>10, <1>12, <1>13, <1>14, <1>15, EventStep, Keys

\* The duplicate check finds the asset.
LEMMA StepFoundDuplicate == ASSUME IInv, FoundDuplicate PROVE IInv'
  BY StepAssetDone DEF FoundDuplicate

\* The server answers the upload.
LEMMA StepUploaded == ASSUME IInv, Uploaded PROVE IInv'
  <1>1. pc = "upload" /\ request \in {"created", "duplicate"} /\ AssetDone(request)
    BY DEF Uploaded
  <1>2. assets[Sha1[cur]] # None
    BY <1>1 DEF IInv, AnswerOK
  <1>. QED
    BY <1>1, <1>2, StepAssetDone

\* The metadata is assigned, or the members are in the album.
LEMMA StepAssigned == ASSUME IInv, Assigned PROVE IInv'
  <1>. TypeOK /\ PlaceOK /\ EffectOK /\ SnapshotOK /\ AnswerOK /\ JournalTrue
    BY DEF IInv
  <1>1. /\ journal' = [journal EXCEPT ![Key] = Event("completed", None)] /\ RecordDone("completed", None)
        /\ pc \in {"metadata", "members"} /\ request = "done" /\ pc' = Home /\ request' = None
        /\ UNCHANGED <<assets, albums, late, state, run, staged, assetIds, visited, cur, albumId>>
    BY DEF Assigned, RecordDone, AtHead, RequestFrame, serverVars
  <1>2. pc \in Writes \cup Reads /\ pc # "off" /\ pc \notin {"check", "upload", "final"}
    BY <1>1 DEF Writes, Reads
  <1>3. Key \in Effects /\ ~IsDone(Key)
    BY <1>2, KeyOpen
  <1>4. /\ pc \in OpPCs \cup AlbumPCs /\ Key[2] = cur
        /\ pc \in OpPCs => Key[1] \in {"asset", "metadata"} /\ Home = "operations" /\ pc \in OpPhase
        /\ pc \in AlbumPCs => Key[1] \in {"album", "members"} /\ Home = "albums" /\ pc \in AlbumPhase
    BY <1>2, KeyParts
  <1>5. DoneIsTrue(Key, "completed", None)
    <2>1. CASE pc = "metadata"
      <3>1. Key = <<"metadata", cur>> /\ cur \in Ops /\ assetIds[cur] # None
        BY <2>1, KeyIs, AtHand DEF OpPCs, EffectOK
      <3>2. assets[Sha1[cur]] # None /\ assets[Sha1[cur]].meta # None
        BY <1>1, <2>1, <3>1, ReadsJournal DEF AnswerOK, IInv, IdsAgree, JournalTrue, AssetTrue
      <3>. QED
        BY <3>1, <3>2 DEF DoneIsTrue
    <2>2. CASE pc = "members"
      <3>1. Key = <<"members", cur>> /\ cur \in Albums /\ albumId # None /\ AlbumRef(journal, cur) = albumId
            /\ AllAssetsKnown
        BY <2>2, KeyIs, AtHand DEF AlbumPCs, AlbumPhase, EffectOK
      <3>2. AlbumMembers(cur) = Planned(cur)
        BY <3>1, KnownIsDurable, MembersArePlanned
      <3>3. IsDone(<<"album", cur>>) /\ journal[<<"album", cur>>].id = albumId
        BY <3>1, ReadsJournal
      <3>4. Planned(cur) \subseteq albums[journal[<<"album", cur>>].id].members
        BY <1>1, <2>2, <3>2, <3>3 DEF AnswerOK
      <3>. QED
        BY <3>1, <3>3, <3>4 DEF DoneIsTrue
    <2>. QED
      BY <1>1, <2>1, <2>2
  <1>6. /\ journal' \in [Effects -> EventType] /\ \A f \in Effects : IsDone(f) => IsDone(f)'
        /\ \A f \in Effects : f # Key => journal'[f] = journal[f]
        /\ JournalTrue' /\ IdsAgree' /\ MetaOK' /\ TouchedLast'
    <2>1. "completed" \in Durable /\ None \in Checksums \cup Nat \cup {None}
      BY DEF Durable
    <2>2. \A op \in Ops : Key # <<"asset", op>>
      BY <1>1, KeyIs
    <2>3. \A op \in Ops : assetIds'[op] = IF Key = <<"asset", op>> THEN Sha1[op] ELSE assetIds[op]
      BY <1>1, <2>2
    <2>. QED
      BY <1>1, <1>3, <1>5, <2>1, <2>3, DoneRecorded
  <1>7. run = "active" /\ staged' = {}
    BY <1>1, <1>2 DEF PlaceOK
  <1>8. TypeOK'
    <2>1. report' \in ReportType
      BY <1>1, DoneReport
    <2>2. pc' \in PCs
      BY <1>1, <1>4 DEF PCs
    <2>. QED
      BY <1>1, <1>6, <1>7, <2>1, <2>2 DEF Assigned, AtHead, RequestFrame, TypeOK
  <1>9. PlaceOK' /\ EffectOK' /\ AnswerOK'
    <2>1. pc' = "operations" => visited' \subseteq Ops
      BY <1>1, <1>4 DEF PlaceOK
    <2>2. pc' = "albums" => visited' \subseteq Albums /\ AllAssetsKnown'
      BY <1>1, <1>4 DEF PlaceOK, EffectOK, AllAssetsKnown
    <2>. QED
      BY <1>1, <1>4, <1>7, <2>1, <2>2, HeadOK
  <1>10. SnapshotOK'
    <2>1. \A e \in Effects : journal'[e] # journal[e] => pc \in OpPCs \cup AlbumPCs /\ e[2] = cur /\
                (pc \in OpPCs => e[1] \in {"asset", "metadata"}) /\
                (pc \in AlbumPCs => e[1] \in {"album", "members"})
      BY <1>4, <1>6
    <2>2. \/ pc \in OpPhase /\ pc' = "operations"
          \/ pc \in AlbumPhase /\ pc' = "albums"
      BY <1>1, <1>4
    <2>. QED
      BY <1>1, <2>1, <2>2, BackToHead
  <1>. QED
    BY <1>1, <1>6, <1>8, <1>9, <1>10, EventStep, Keys

\* The album at hand is converged.
LEMMA StepAlbumDone ==
  ASSUME IInv, pc \in AlbumWork, NEW kind \in {"created", "reused"}, NEW id \in DOMAIN albums,
         albums[id].name = cur, kind = "created" => albums[id].ours, AlbumDone(kind, id)
  PROVE  IInv'
  <1>. TypeOK /\ PlaceOK /\ EffectOK /\ SnapshotOK
    BY DEF IInv
  <1>1. /\ journal' = [journal EXCEPT ![Key] = Event(kind, id)] /\ RecordDone(kind, id)
        /\ albumId' = id /\ pc' = "fill" /\ request' = None
        /\ UNCHANGED <<assets, albums, late, state, run, staged, assetIds, visited, cur>>
    BY DEF AlbumDone, RecordDone, AtHead, serverVars, runVars
  <1>2. /\ pc \in AlbumPCs /\ pc \in AlbumPhase /\ pc \notin OpPhase
        /\ pc \in Writes \cup Reads /\ pc # "off" /\ pc \notin {"check", "upload", "final"}
    BY DEF OpPCs, OpPhase, OpWork, Writes, Reads, AlbumPhase, AlbumPCs, AlbumWork
  <1>3. /\ pc' \in AlbumPCs /\ pc' \in AlbumPhase /\ pc' \notin AlbumWork /\ pc' \in PCs
        /\ pc' \notin OpPhase \cup OpPCs \cup OpWork \cup Writes \cup Reads
        /\ pc' \notin {"off", "check", "upload", "final", "metadata", "create", "relook", "describe", "members"}
    BY <1>1 DEF OpPhase, AlbumPhase, OpPCs, AlbumPCs, Writes, Reads, OpWork, AlbumWork, PCs
  <1>4. cur \in Albums /\ id \in Nat /\ id # None
    <2>1. DOMAIN albums \subseteq Nat
      BY DEF TypeOK
    <2>. QED
      BY <1>2, <2>1, AtHand, PlanAssumption
  <1>5. Key = <<"album", cur>> /\ Key \in Effects /\ ~IsDone(Key)
    BY <1>2, KeyIs, KeyOpen DEF AlbumWork
  <1>6. DoneIsTrue(Key, kind, id)
    BY <1>4, <1>5 DEF DoneIsTrue
  <1>7. /\ journal' \in [Effects -> EventType] /\ journal'[Key] = Event(kind, id)
        /\ \A f \in Effects : IsDone(f) => IsDone(f)'
        /\ \A f \in Effects : f # Key => journal'[f] = journal[f]
        /\ JournalTrue' /\ IdsAgree' /\ MetaOK' /\ TouchedLast'
    <2>1. kind \in Durable /\ id \in Checksums \cup Nat \cup {None}
      BY <1>4 DEF Durable
    <2>2. \A op \in Ops : assetIds'[op] = IF Key = <<"asset", op>> THEN Sha1[op] ELSE assetIds[op]
      BY <1>1, <1>5
    <2>. QED
      BY <1>1, <1>5, <1>6, <2>1, <2>2, DoneRecorded
  <1>8. AlbumRef(journal', cur) = id
    BY <1>5, <1>7 DEF AlbumRef, Event
  <1>9. run = "active" /\ staged = {} /\ visited \subseteq Albums /\ cur \in visited /\ AllAssetsKnown
    BY <1>2 DEF PlaceOK, EffectOK
  <1>10. TypeOK'
    <2>1. report' \in ReportType
      BY <1>1, DoneReport
    <2>. QED
      BY <1>1, <1>3, <1>4, <1>7, <1>9, <2>1 DEF AlbumDone, AtHead, runVars, TypeOK
  <1>11. request' \notin {"sent", "created", "duplicate", "done"}
    BY <1>1, PlanAssumption
  <1>12. PlaceOK'
    BY <1>1, <1>3, <1>9, <1>11 DEF PlaceOK
  <1>13. EffectOK'
    BY <1>1, <1>3, <1>4, <1>8, <1>9 DEF EffectOK, AllAssetsKnown, AlbumRef
  <1>14. SnapshotOK'
    <2>1. \A op \in Ops : ~AssetOpen(op)' /\ ~MetadataOpen(op)'
      BY <1>3 DEF AssetOpen, MetadataOpen
    <2>2. ASSUME NEW a \in Albums, AlbumOpen(a)'
          PROVE  AlbumOpen(a) /\ journal'[<<"album", a>>] = journal[<<"album", a>>]
      <3>1. a \notin visited
        BY <1>1, <1>3, <2>2 DEF AlbumOpen
      <3>2. <<"album", a>> \in Effects /\ <<"album", a>> # Key
        BY <1>5, <1>9, <3>1, Keys
      <3>. QED
        BY <1>2, <1>7, <3>1, <3>2 DEF AlbumOpen
    <2>3. ASSUME NEW a \in Albums, MembersOpen(a)'
          PROVE  MembersOpen(a) /\ journal'[<<"members", a>>] = journal[<<"members", a>>]
      <3>1. MembersOpen(a)
        BY <1>1, <1>2, <1>3, <2>3 DEF MembersOpen
      <3>2. <<"members", a>> \in Effects /\ <<"members", a>> # Key
        BY <1>5, Keys
      <3>. QED
        BY <1>7, <3>1, <3>2
    <2>. QED
      BY <1>1, <2>1, <2>2, <2>3, SnapshotFrame
  <1>15. AnswerOK'
    BY <1>3, <1>11 DEF AnswerOK
  <1>. QED
    BY <1>1, <1>7, <1>10, <1>12, <1>13, <1>14, <1>15, EventStep, Keys

\* The one album of the name is reused.
LEMMA StepAlbumReused == ASSUME IInv, NEW i \in DOMAIN albums, AlbumReused(i) PROVE IInv'
  <1>1. pc = "lookup" /\ OwnedAlbums(cur) = {i} /\ AlbumDone("reused", i)
    BY DEF AlbumReused
  <1>2. albums[i].name = cur /\ pc \in AlbumWork
    BY <1>1 DEF OwnedAlbums, AlbumWork
  <1>. QED
    BY <1>1, <1>2, StepAlbumDone

\* The one album of the name that was missing before is the import's own.
LEMMA StepAlbumFoundAfterCreate ==
  ASSUME IInv, NEW i \in DOMAIN albums, AlbumFoundAfterCreate(i) PROVE IInv'
  <1>1. pc = "relook" /\ OwnedAlbums(cur) = {i} /\ AlbumDone("created", i)
    BY DEF AlbumFoundAfterCreate
  <1>2. albums[i].name = cur /\ pc \in AlbumWork
    BY <1>1 DEF OwnedAlbums, AlbumWork
  <1>3. albums[i].ours
    BY <1>1, <1>2 DEF IInv, AnswerOK
  <1>. QED
    BY <1>1, <1>2, <1>3, StepAlbumDone

\* The server answers the create.
LEMMA StepAlbumCreated == ASSUME IInv, AlbumCreated PROVE IInv'
  <1>1. pc = "create" /\ request = "done" /\ AlbumDone("created", answer) /\ pc \in AlbumWork
    BY DEF AlbumCreated, AlbumWork
  <1>2. answer \in DOMAIN albums /\ albums[answer].ours /\ albums[answer].name = cur
    BY <1>1 DEF IInv, AnswerOK
  <1>. QED
    BY <1>1, <1>2, StepAlbumDone

\* The check after an uncertain upload finds nothing.
LEMMA StepStillUnknown == ASSUME IInv, StillUnknown PROVE IInv'
  <1>1. /\ pc \in Writes \cup Reads /\ GiveUp("indeterminate") /\ UNCHANGED <<assets, albums, late>>
        /\ UNCHANGED <<assetIds, cancelled, state, used, faults>>
    BY DEF StillUnknown, RequestFrame, serverVars, Reads
  <1>2. used' \in Nat /\ faults' \in Nat
    BY <1>1 DEF IInv, TypeOK
  <1>. QED
    BY <1>1, <1>2, StepGiveUp

\* Two albums of one name fail closed.
LEMMA StepAlbumAmbiguous == ASSUME IInv, AlbumAmbiguous PROVE IInv'
  <1>1. PICK kind \in {"failed", "indeterminate"} : GiveUp(kind)
    BY DEF AlbumAmbiguous
  <1>2. pc \in Writes \cup Reads /\ UNCHANGED <<assets, albums, late, assetIds, cancelled, state, used, faults>>
    BY DEF AlbumAmbiguous, RequestFrame, serverVars, Reads
  <1>3. used' \in Nat /\ faults' \in Nat
    BY <1>2 DEF IInv, TypeOK
  <1>. QED
    BY <1>1, <1>2, <1>3, StepGiveUp

\* The listing after a lost create shows nothing: create again or give up.
LEMMA StepAlbumStillMissing == ASSUME IInv, AlbumStillMissing PROVE IInv'
  <1>1. pc = "relook" /\ UNCHANGED <<assets, albums, late, assetIds, cancelled, state, faults>>
    BY DEF AlbumStillMissing, RequestFrame, serverVars
  <1>2. faults' \in Nat /\ used \in Nat /\ pc \in Writes \cup Reads
    BY <1>1 DEF IInv, TypeOK, Reads
  <1>3. CASE RetryAllowed(error)
    <2>1. ClaimAndWait("create") /\ UNCHANGED <<journal, report, run, staged, visited, cur, albumId, retries, error>>
      BY <1>3 DEF AlbumStillMissing
    <2>2. "create" \in Writes \cup Reads /\ SameKey(pc, "create")
      BY <1>1 DEF Writes, SameKey, AlbumWork
    <2>. QED
      BY <1>1, <1>2, <2>1, <2>2, StepClaim
  <1>4. CASE ~RetryAllowed(error)
    <2>1. PICK kind \in {"failed", "indeterminate"} : GiveUp(kind)
      BY <1>4 DEF AlbumStillMissing, UncertainKind
    <2>2. used' \in Nat
      BY <1>2, <1>4 DEF AlbumStillMissing
    <2>. QED
      BY <1>1, <1>2, <2>1, <2>2, StepGiveUp
  <1>. QED
    BY <1>3, <1>4

\* A request ends in an error: it is retried, followed up, or given up.
LEMMA StepRequestError == ASSUME IInv, NEW class \in ErrorClass, RequestError(class) PROVE IInv'
  <1>1. /\ request # None /\ faults' \in Nat /\ late' \in {late, Abandoned}
        /\ UNCHANGED <<assets, albums, assetIds, cancelled, state>>
    BY DEF RequestError, Fault, RequestFrame, IInv, TypeOK
  <1>2. pc \in Writes \cup Reads /\ used \in Nat /\ error \in Retryable \cup {None}
    BY <1>1 DEF IInv, PlaceOK, TypeOK
  <1>3. CASE /\ pc \notin {"create", "final"} /\ ClaimAndWait(pc)
             /\ UNCHANGED <<journal, report, run, staged, visited, cur, albumId, retries, error>>
    <2>1. SameKey(pc, pc)
      BY <1>2 DEF SameKey, Writes, Reads, AlbumWork
    <2>. QED
      BY <1>1, <1>2, <1>3, <2>1, StepClaim
  <1>4. CASE /\ pc = "create" /\ class \in Retryable /\ Issue("relook") /\ error' = class
             /\ UNCHANGED <<journal, report, run, staged, visited, cur, albumId, retries, used>>
    <2>1. SameKey(pc, "relook")
      BY <1>4 DEF SameKey, AlbumWork
    <2>. QED
      BY <1>1, <1>2, <1>4, <2>1, StepFollowUp
  <1>5. CASE /\ pc = "upload" /\ Issue("final")
             /\ UNCHANGED <<journal, report, run, staged, visited, cur, albumId, retries, used, error>>
    <2>1. SameKey(pc, "final")
      BY <1>5 DEF SameKey
    <2>. QED
      BY <1>1, <1>2, <1>5, <2>1, StepFollowUp
  <1>6. CASE GiveUp(Outcome(class)) /\ UNCHANGED used
    <2>1. Outcome(class) \in {"failed", "indeterminate"}
      BY <1>2 DEF Outcome, UncertainKind, Writes, Reads
    <2>2. used' \in Nat
      BY <1>2, <1>6
    <2>. QED
      BY <1>1, <1>2, <1>6, <2>1, <2>2, StepGiveUp
  <1>. QED
    BY <1>3, <1>4, <1>5, <1>6 DEF RequestError

\* A cancelled request ends the run.
LEMMA StepRequestCancelled == ASSUME IInv, RequestCancelled PROVE IInv'
  <1>1. /\ request # None /\ Return("reported") /\ late' \in {late, Abandoned}
        /\ UNCHANGED <<assets, albums, assetIds, cancelled, state, used, faults>>
    BY DEF RequestCancelled, RequestFrame
  <1>2. pc \in Writes \cup Reads
    BY <1>1 DEF IInv, PlaceOK
  <1>3. CASE pc = "check"
    <2>1. report' \in ReportType /\ UNCHANGED journal
      BY <1>3 DEF RequestCancelled, IInv, TypeOK, ReportType
    <2>2. faults' \in Nat /\ used' \in Nat /\ cancelled' \in BOOLEAN
      BY <1>1 DEF IInv, TypeOK
    <2>3. run' = "reported" /\ Restart("off") /\ staged' = {}
      BY <1>1 DEF Return
    <2>. QED
      BY <1>1, <2>1, <2>2, <2>3, StepReturn
  <1>4. CASE pc # "check"
    <2>1. PICK kind \in {"failed", "indeterminate"} : RecordFailure(kind, TRUE)
      BY <1>4 DEF RequestCancelled
    <2>. QED
      BY <1>1, <1>2, <2>1, StepFailAndReturn
  <1>. QED
    BY <1>3, <1>4

\* An image whose video has no asset is recorded as failed.
LEMMA StepVideoMissing ==
  ASSUME IInv, NEW op \in Ops, NextOperation(op), AssetId(state, op) = None, VideoMissing(op)
  PROVE  IInv'
  <1>. TypeOK /\ PlaceOK /\ SnapshotOK
    BY DEF IInv
  <1>. DEFINE e == <<"asset", op>>
  <1>1. /\ journal' = [journal EXCEPT ![e] = Event("failed", None)]
        /\ report' = [report EXCEPT !.failed = @ + 1]
        /\ pc = "operations" /\ pc' = "operations" /\ request' = None
        /\ visited' = visited \cup {op} /\ cur' = op /\ op \notin visited
        /\ UNCHANGED <<assets, albums, late, state, run, staged, assetIds, albumId>>
    BY DEF NextOperation, AtHead, serverVars, runVars
  <1>2. /\ pc \in OpPhase /\ pc' \in OpPhase /\ pc \notin OpPCs \cup OpWork /\ pc' \notin OpPCs \cup OpWork
        /\ pc # "off"
    BY <1>1 DEF OpPhase, OpPCs, OpWork
  <1>3. run = "active" /\ staged = {} /\ visited \subseteq Ops
    BY <1>1, <1>2 DEF PlaceOK
  <1>4. e \in Effects /\ ~IsDone(e)
    <2>1. AssetOpen(op)
      BY <1>1, <1>2 DEF AssetOpen
    <2>2. AssetId(journal, op) = None
      BY <2>1 DEF SnapshotOK, AssetId
    <2>. QED
      BY <2>2, ReadsJournal, Keys DEF IInv
  <1>. HIDE DEF e
  <1>5. /\ journal' \in [Effects -> EventType]
        /\ \A f \in Effects : IsDone(f)' <=> IsDone(f)
        /\ \A f \in Effects : f # e => journal'[f] = journal[f]
        /\ JournalTrue' /\ IdsAgree' /\ MetaOK' /\ TouchedLast'
    BY <1>1, <1>4, FailureRecorded
  <1>6. TypeOK'
    <2>1. report' \in ReportType
      BY <1>1 DEF TypeOK, ReportType
    <2>2. pc' \in PCs
      BY <1>1 DEF PCs
    <2>. QED
      BY <1>1, <1>3, <1>5, <2>1, <2>2 DEF NextOperation, AtHead, serverVars, runVars, TypeOK
  <1>7. PlaceOK' /\ EffectOK' /\ AnswerOK'
    BY <1>1, <1>3, HeadOK
  <1>8. SnapshotOK'
    <2>1. ASSUME NEW o \in Ops, AssetOpen(o)'
          PROVE  AssetOpen(o) /\ journal'[<<"asset", o>>] = journal[<<"asset", o>>]
      <3>1. o \notin visited /\ o # op
        BY <1>1, <1>2, <2>1 DEF AssetOpen
      <3>2. <<"asset", o>> \in Effects /\ <<"asset", o>> # e
        BY <3>1, Keys DEF e
      <3>. QED
        BY <1>2, <1>5, <3>1, <3>2 DEF AssetOpen
    <2>2. ASSUME NEW o \in Ops, MetadataOpen(o)'
          PROVE  MetadataOpen(o) /\ journal'[<<"metadata", o>>] = journal[<<"metadata", o>>]
      <3>1. MetadataOpen(o)
        BY <1>1, <1>2, <2>2 DEF MetadataOpen
      <3>2. <<"metadata", o>> \in Effects /\ <<"metadata", o>> # e
        BY Keys DEF e
      <3>. QED
        BY <1>5, <3>1, <3>2
    <2>3. \A a \in Albums : AlbumOpen(a)' => AlbumOpen(a) /\ journal'[<<"album", a>>] = journal[<<"album", a>>]
      BY <1>2, <1>5, Keys DEF AlbumOpen, e
    <2>4. \A a \in Albums : MembersOpen(a)' => MembersOpen(a) /\ journal'[<<"members", a>>] = journal[<<"members", a>>]
      BY <1>2, <1>5, Keys DEF MembersOpen, e
    <2>. QED
      BY <1>1, <2>1, <2>2, <2>3, <2>4, SnapshotFrame
  <1>. QED
    BY <1>1, <1>5, <1>6, <1>7, <1>8, EventStep, Keys

-----------------------------------------------------------------------------
(* Steps of the server *)

\* An act of the server that keeps what the run knows of its answer.
LEMMA ServerStep ==
  ASSUME IInv, NEW b \in RequestType, BodyOK(b), Act(b), late' \subseteq late,
         UNCHANGED <<journal, assetIds, state, visited, pc, cur, albumId>>,
         TypeOK', PlaceOK', AnswerOK'
  PROVE  IInv'
  <1>1. AssetsGrow /\ AlbumsGrow /\ MetaOK' /\ TouchedLast'
    BY ActOK
  <1>2. JournalTrue' /\ \A d \in late : BodyOK(d)'
    BY <1>1, JournalFrame
  <1>3. LateOK'
    <2>1. IsFiniteSet(late')
      BY FS_Subset DEF IInv, LateOK
    <2>. QED
      BY <1>2, <2>1 DEF LateOK
  <1>4. EffectOK' /\ SnapshotOK' /\ IdsAgree'
    BY DEF IInv, EffectOK, SnapshotOK, IdsAgree, AssetOpen, MetadataOpen, AlbumOpen,
       MembersOpen, AssetId, MetadataDone, AlbumRef, MembersDone, AllAssetsKnown
  <1>. QED
    BY <1>1, <1>2, <1>3, <1>4 DEF IInv

\* What the run is at is on the server.
LEMMA HandOnServer ==
  ASSUME IInv
  PROVE  /\ pc = "metadata" => assets[Sha1[cur]] # None
         /\ pc = "members" => albumId \in DOMAIN albums
  <1>1. CASE pc = "metadata"
    <2>1. cur \in Ops /\ assetIds[cur] # None
      BY <1>1, AtHand DEF IInv, EffectOK, OpPCs
    <2>. QED
      BY <1>1, <2>1, ReadsJournal DEF IInv, IdsAgree, JournalTrue, AssetTrue
  <1>2. CASE pc = "members"
    <2>1. cur \in Albums /\ albumId # None /\ AlbumRef(journal, cur) = albumId
      BY <1>2, AtHand DEF IInv, EffectOK, AlbumPCs
    <2>. QED
      BY <1>2, <2>1, ReadsJournal DEF IInv, JournalTrue, AlbumTrue
  <1>. QED
    BY <1>1, <1>2

\* An answer stays right while the server grows.
LEMMA AnswerGrows ==
  ASSUME IInv, AssetsGrow, AlbumsGrow,
         UNCHANGED <<assetIds, pc, cur, albumId, request, answer>>
  PROVE  AnswerOK'
  <1>. AnswerOK
    BY DEF IInv
  <1>1. pc \in {"upload", "metadata"} => cur \in Ops /\ Sha1[cur] \in Checksums
    BY AtHand DEF OpPCs, OpWork
  <1>2. request \in {"created", "duplicate"} => assets'[Sha1[cur]] # None
    BY <1>1 DEF AnswerOK, AssetsGrow, IInv, PlaceOK
  <1>3. (pc = "metadata" /\ request = "done") => assets'[Sha1[cur]].meta # None
    BY <1>1, HandOnServer DEF AnswerOK, AssetsGrow
  <1>4. (pc = "create" /\ request = "done") =>
            answer \in DOMAIN albums' /\ albums'[answer].ours /\ albums'[answer].name = cur
    BY DEF AnswerOK, AlbumsGrow
  <1>5. pc \in {"create", "relook"} =>
            \A i \in DOMAIN albums' : albums'[i].name = cur => albums'[i].ours
    BY DEF AnswerOK, AlbumsGrow
  <1>6. (pc = "members" /\ request = "done") => AlbumMembers(cur) \subseteq albums'[albumId].members
    <2>. SUFFICES ASSUME pc = "members", request = "done"
                  PROVE  AlbumMembers(cur) \subseteq albums'[albumId].members
      OBVIOUS
    <2>1. AlbumMembers(cur) \subseteq albums[albumId].members
      BY DEF AnswerOK
    <2>2. albums[albumId].members \subseteq albums'[albumId].members
      BY HandOnServer DEF AlbumsGrow
    <2>. QED
      BY <2>1, <2>2
  <1>7. AlbumMembers(cur)' = AlbumMembers(cur)
    BY DEF AlbumMembers
  <1>. QED
    BY <1>2, <1>3, <1>4, <1>5, <1>6, <1>7 DEF AnswerOK

\* A request nobody waits for is acted upon.
LEMMA StepLateAct == ASSUME IInv, NEW b \in late, LateAct(b) PROVE IInv'
  <1>1. /\ Act(b) /\ late' = late \ {b}
        /\ UNCHANGED <<journal, assetIds, state, run, staged, visited, pc, cur, albumId, request, answer>>
    BY DEF LateAct, runVars, loopVars
  <1>2. b \in RequestType /\ BodyOK(b)
    BY DEF IInv, TypeOK, LateOK
  <1>3. assets' \in [Checksums -> AssetType \cup {None}] /\ albums' \in Seq(AlbumType)
        /\ AssetsGrow /\ AlbumsGrow
    BY <1>1, <1>2, ActOK
  <1>4. TypeOK'
    BY <1>1, <1>3 DEF LateAct, runVars, loopVars, IInv, TypeOK
  <1>5. PlaceOK'
    BY <1>1 DEF IInv, PlaceOK
  <1>6. AnswerOK'
    BY <1>1, <1>3, AnswerGrows
  <1>. QED
    BY <1>1, <1>2, <1>4, <1>5, <1>6, ServerStep

\* The request at hand is acted upon and answered.
LEMMA StepServerActs == ASSUME IInv, ServerActs PROVE IInv'
  <1>. TypeOK /\ PlaceOK /\ MetaOK /\ AnswerOK
    BY DEF IInv
  <1>1. /\ request = "sent" /\ Act(Body) /\ request' = Status(Body)
        /\ answer' = IF pc = "create" THEN Len(albums) + 1 ELSE None
        /\ UNCHANGED <<late, journal, assetIds, state, run, staged, visited, pc, cur, albumId>>
    BY DEF ServerActs, runVars
  <1>2. Body \in RequestType /\ BodyOK(Body) /\ pc \in Writes
    BY <1>1, BodyIsOK DEF PlaceOK
  <1>3. assets' \in [Checksums -> AssetType \cup {None}] /\ albums' \in Seq(AlbumType)
        /\ AssetsGrow /\ AlbumsGrow
    BY <1>1, <1>2, ActOK
  <1>4. Body.kind = pc
    BY <1>2 DEF Body, Writes
  <1>5. /\ pc = "upload" => request' \in {"created", "duplicate"}
        /\ pc # "upload" => request' = "done"
    BY <1>1, <1>4 DEF Status
  <1>6. TypeOK'
    <2>1. answer' \in Nat \cup {None}
      BY <1>1 DEF TypeOK
    <2>2. request' \in Phases \cup {None}
      BY <1>5 DEF Phases
    <2>. QED
      BY <1>1, <1>3, <2>1, <2>2 DEF ServerActs, runVars, TypeOK
  <1>7. PlaceOK'
    <2>1. request' # None /\ request' # "sent"
      BY <1>5, PlanAssumption
    <2>. QED
      BY <1>1, <1>2, <1>5, <2>1 DEF PlaceOK, Writes
  <1>8. AnswerOK'
    <2>1. CASE pc = "upload"
      <3>1. Body.on = cur
        BY <2>1 DEF Body
      <3>2. assets'[Sha1[cur]] # None
        BY <1>1, <1>2, <1>4, <2>1, <3>1, ActOnAssets
      <3>. QED
        BY <1>1, <2>1, <3>2 DEF AnswerOK
    <2>2. CASE pc = "metadata"
      <3>1. Body.with = assetIds[cur] /\ Body.on = cur
        BY <2>2 DEF Body
      <3>2. Body.with = Sha1[cur]
        BY <1>2, <1>4, <2>2, <3>1 DEF BodyOK
      <3>3. assets'[Sha1[cur]].meta # None
        BY <1>1, <1>2, <1>4, <2>2, <3>2, ActOnAssets
      <3>. QED
        BY <1>1, <1>5, <2>2, <3>3 DEF AnswerOK
    <2>3. CASE pc = "create"
      <3>1. Body.on = cur
        BY <2>3 DEF Body
      <3>2. answer' \in DOMAIN albums' /\ albums'[answer'].ours /\ albums'[answer'].name = cur
        BY <1>1, <1>2, <1>4, <2>3, <3>1, ActOnAlbums
      <3>3. \A i \in DOMAIN albums' : albums'[i].name = cur => albums'[i].ours
        BY <1>3, <2>3 DEF AnswerOK, AlbumsGrow
      <3>. QED
        BY <1>1, <1>5, <2>3, <3>2, <3>3 DEF AnswerOK
    <2>4. CASE pc = "members"
      <3>1. Body.on = albumId /\ Body.with = AlbumMembers(cur)
        BY <2>4 DEF Body
      <3>2. AlbumMembers(cur) \subseteq albums'[albumId].members
        BY <1>1, <1>2, <1>4, <2>4, <3>1, ActOnAlbums
      <3>3. AlbumMembers(cur)' = AlbumMembers(cur)
        BY <1>1 DEF AlbumMembers
      <3>. QED
        BY <1>1, <1>5, <2>4, <3>2, <3>3 DEF AnswerOK
    <2>. QED
      BY <1>2, <2>1, <2>2, <2>3, <2>4 DEF Writes
  <1>. QED
    BY <1>1, <1>2, <1>6, <1>7, <1>8, ServerStep

-----------------------------------------------------------------------------
(* The invariant *)

\* The first run finds an empty checkpoint and only the owner's albums.
LEMMA InitIInv == Init => IInv
  <1>. SUFFICES ASSUME Init PROVE IInv
    OBVIOUS
  <1>1. albums \in Seq(AlbumType) /\ \A i \in DOMAIN albums : ~albums[i].ours /\ albums[i].members = {}
    <2>1. PICK n \in 0..MaxOwned : albums \in [1..n -> {Album(a, FALSE) : a \in Albums}]
      BY DEF Init
    <2>2. n \in Nat
      BY <2>1, ConfigAssumption
    <2>3. {Album(a, FALSE) : a \in Albums} \subseteq AlbumType
      <3>1. \A a \in Albums : Album(a, FALSE) \in AlbumType
        BY DEF Album, AlbumType
      <3>. QED
        BY <3>1
    <2>4. albums \in [1..n -> AlbumType]
      BY <2>1, <2>3
    <2>5. albums \in Seq(AlbumType)
      BY <2>2, <2>4, SeqDef
    <2>6. ASSUME NEW i \in DOMAIN albums PROVE ~albums[i].ours /\ albums[i].members = {}
      <3>1. albums[i] \in {Album(a, FALSE) : a \in Albums}
        BY <2>1, <2>6
      <3>. QED
        BY <3>1 DEF Album
    <2>. QED
      BY <2>5, <2>6
  <1>2. \A c \in Checksums : assets[c] = None \/ assets[c] = [by |-> None, link |-> None, meta |-> None]
    BY DEF Init
  <1>3. TypeOK
    <2>1. [by |-> None, link |-> None, meta |-> None] \in AssetType
      BY DEF AssetType
    <2>2. assets \in [Checksums -> AssetType \cup {None}]
      BY <2>1 DEF Init
    <2>3. journal \in [Effects -> EventType]
      BY DEF Init, Event, EventType
    <2>4. report \in ReportType
      BY DEF Init, NewReport, ReportType
    <2>5. pc \in PCs
      BY DEF Init, PCs
    <2>. QED
      BY <1>1, <2>2, <2>3, <2>4, <2>5, ConfigAssumption DEF Init, TypeOK
  <1>4. \A e \in Effects : ~IsDone(e)
    BY DEF Init, Event, IsDone, Durable
  <1>5. JournalTrue
    BY <1>4, Keys DEF JournalTrue, AssetTrue, MetadataTrue, AlbumTrue, MembersTrue
  <1>6. IdsAgree
    BY <1>4, <1>5, ReadsJournal, Keys DEF IdsAgree, Init
  <1>7. LateOK
    BY FS_EmptySet DEF LateOK, Init
  <1>8. MetaOK
    BY <1>2 DEF MetaOK
  <1>9. TouchedLast
    BY <1>1 DEF TouchedLast
  <1>10. /\ pc \notin OpPhase \cup AlbumPhase \cup OpPCs \cup AlbumPCs \cup Writes \cup Reads
         /\ pc \notin OpWork \cup AlbumWork \cup {"describe", "metadata", "fill", "members"}
         /\ pc \notin {"create", "relook"} /\ pc \notin {"fill", "members"}
         /\ pc \notin {"describe", "metadata"} /\ pc = "off"
    BY DEF Init, OpPhase, AlbumPhase, OpPCs, AlbumPCs, Writes, Reads, OpWork, AlbumWork
  <1>11. request = None /\ request \notin {"sent", "created", "duplicate", "done"}
    BY PlanAssumption DEF Init
  <1>12. PlaceOK
    BY <1>10, <1>11 DEF PlaceOK, Init
  <1>13. EffectOK
    BY <1>10 DEF EffectOK
  <1>14. SnapshotOK
    BY <1>10 DEF SnapshotOK, AssetOpen, MetadataOpen, AlbumOpen, MembersOpen
  <1>15. AnswerOK
    BY <1>10, <1>11 DEF AnswerOK
  <1>. QED
    BY <1>3, <1>5, <1>6, <1>7, <1>8, <1>9, <1>12, <1>13, <1>14, <1>15 DEF IInv

\* Every step keeps the invariant.
LEMMA NextIInv == IInv /\ [Next]_vars => IInv'
  <1>. SUFFICES ASSUME IInv, [Next]_vars PROVE IInv'
    OBVIOUS
  <1>1. CASE StartRun
    BY <1>1, StepStartRun
  <1>2. CASE Cancel
    BY <1>2, StepCancel
  <1>3. CASE Crash
    BY <1>3, StepCrash
  <1>4. CASE RunStep
    <2>1. CASE StopAtHead
      BY <2>1, StepStopAtHead
    <2>2. CASE \E op \in Ops : NextOperation(op)
      BY <2>2, StepNextOperation, StepVideoMissing
    <2>3. CASE OperationsOver
      BY <2>3, StepOperationsOver
    <2>4. CASE Prepare
      BY <2>4, StepPrepare
    <2>5. CASE PrepareFails
      BY <2>5, StepPrepareFails
    <2>6. CASE Describe
      BY <2>6, StepDescribe
    <2>7. CASE \E a \in Albums : NextAlbum(a)
      BY <2>7, StepNextAlbum
    <2>8. CASE AlbumsOver
      BY <2>8, StepAlbumsOver
    <2>9. CASE Fill
      BY <2>9, StepFill
    <2>10. CASE RetryDelayOver
      BY <2>10, StepRetryDelayOver
    <2>11. CASE Send
      BY <2>11, StepSend
    <2>12. CASE FoundDuplicate
      BY <2>12, StepFoundDuplicate
    <2>13. CASE UploadAccepted
      BY <2>13, StepUploadAccepted
    <2>14. CASE Uploaded
      BY <2>14, StepUploaded
    <2>15. CASE StillUnknown
      BY <2>15, StepStillUnknown
    <2>16. CASE Assigned
      BY <2>16, StepAssigned
    <2>17. CASE \E i \in DOMAIN albums : AlbumReused(i) \/ AlbumFoundAfterCreate(i)
      BY <2>17, StepAlbumReused, StepAlbumFoundAfterCreate
    <2>18. CASE AlbumMissing
      BY <2>18, StepAlbumMissing
    <2>19. CASE AlbumAmbiguous
      BY <2>19, StepAlbumAmbiguous
    <2>20. CASE AlbumCreated
      BY <2>20, StepAlbumCreated
    <2>21. CASE AlbumStillMissing
      BY <2>21, StepAlbumStillMissing
    <2>22. CASE \E class \in ErrorClass : RequestError(class)
      BY <2>22, StepRequestError
    <2>23. CASE RequestCancelled
      BY <2>23, StepRequestCancelled
    <2>. QED
      BY <1>4, <2>1, <2>2, <2>3, <2>4, <2>5, <2>6, <2>7, <2>8, <2>9, <2>10, <2>11, <2>12, <2>13,
         <2>14, <2>15, <2>16, <2>17, <2>18, <2>19, <2>20, <2>21, <2>22, <2>23 DEF RunStep
  <1>5. CASE ServerActs
    BY <1>5, StepServerActs
  <1>6. CASE \E b \in late : LateAct(b)
    BY <1>6, StepLateAct
  <1>7. CASE UNCHANGED vars
    <2>1. UNCHANGED <<assets, albums, journal, assetIds, late, state, run, pc, visited, cur,
                      request, staged, answer, albumId>>
      BY <1>7 DEF vars, serverVars, runVars, loopVars
    <2>2. TypeOK'
      BY <1>7 DEF vars, serverVars, runVars, loopVars, IInv, TypeOK
    <2>3. PlaceOK' /\ EffectOK' /\ SnapshotOK' /\ AnswerOK'
      BY <2>1 DEF IInv, PlaceOK, EffectOK, SnapshotOK, AnswerOK, AssetOpen, MetadataOpen, AlbumOpen,
         MembersOpen, AssetId, MetadataDone, AlbumRef, MembersDone, AllAssetsKnown, AlbumMembers
    <2>. QED
      BY <2>1, <2>2, <2>3, QuietStep
  <1>. QED
    BY <1>1, <1>2, <1>3, <1>4, <1>5, <1>6, <1>7 DEF Next

\* The inductive invariant holds of every behaviour: what the run believes,
\* the checkpoint, the server and the requests still to be acted upon agree.
THEOREM Invariance == Spec => []IInv
  BY InitIInv, NextIInv, PTL DEF Spec

\* Every variable keeps its type, for every plan.
THEOREM TypeCorrect == Spec => []TypeOK
  <1>1. IInv => TypeOK
    BY DEF IInv
  <1>. QED
    BY <1>1, Invariance, PTL

\* Metadata recorded as assigned is on the asset of the operation's media,
\* however often it was sent and whenever the server acted (apply_metadata).
THEOREM MetadataIsOnServer == Spec => []MetadataOnServer
  <1>1. ASSUME IInv PROVE MetadataOnServer
    <2>. SUFFICES ASSUME NEW op \in Ops, MetadataDone(journal, op)
                  PROVE  /\ assets[Sha1[op]] # None /\ assets[Sha1[op]].meta \in Described
                         /\ Sha1[assets[Sha1[op]].meta] = Sha1[op]
      BY DEF MetadataOnServer
    <2>1. Sha1[op] \in Checksums
      BY PlanAssumption
    <2>2. assets[Sha1[op]] # None /\ assets[Sha1[op]].meta # None
      BY <1>1, ReadsJournal DEF IInv, JournalTrue, MetadataTrue
    <2>. QED
      BY <1>1, <2>1, <2>2 DEF IInv, MetaOK
  <1>. QED
    BY <1>1, Invariance, PTL

\* The albums of the server agree with the checkpoint, also with the owner's
\* albums of the same names and with creates acted upon late: none is touched
\* before the assets are durable, one recorded as created is the import's, and
\* recorded members are in the album (apply_albums, converge_album).
THEOREM AlbumsDoAgree == Spec => []AlbumsAgree
  <1>1. ASSUME IInv PROVE AlbumsAgree
    <2>. JournalTrue /\ TouchedLast
      BY <1>1 DEF IInv
    <2>1. AlbumsAfterAssets
      BY ReadsJournal DEF AlbumsAfterAssets, TouchedLast, AllDurable
    <2>2. CreatedAlbumIsOurs
      <3>1. "created" \in Durable
        BY DEF Durable
      <3>. QED
        BY <3>1 DEF CreatedAlbumIsOurs, JournalTrue, AlbumTrue, IsDone
    <2>3. MembersInAlbum
      <3>. SUFFICES ASSUME NEW a \in Albums, MembersDone(journal, a)
                    PROVE  LET i == AlbumRef(journal, a) IN
                           /\ i \in DOMAIN albums /\ albums[i].name = a
                           /\ Planned(a) \subseteq albums[i].members
        BY DEF MembersInAlbum, Planned
      <3>1. IsDone(<<"members", a>>)
        BY ReadsJournal
      <3>2. /\ IsDone(<<"album", a>>) /\ Planned(a) \subseteq albums[journal[<<"album", a>>].id].members
        BY <3>1 DEF JournalTrue, MembersTrue
      <3>3. AlbumRef(journal, a) = journal[<<"album", a>>].id
        BY <3>2, ReadsJournal
      <3>. QED
        BY <3>2, <3>3 DEF JournalTrue, AlbumTrue
    <2>. QED
      BY <2>1, <2>2, <2>3 DEF AlbumsAgree
  <1>. QED
    BY <1>1, Invariance, PTL

\* Only the media of the operation at hand is on disk while a run is active,
\* and none after a report (ImportStaging).
THEOREM StagedIsOfCurrent == Spec => []StagedIsCurrent
  <1>1. ASSUME IInv PROVE StagedIsCurrent
    <2>1. run = "active" => staged \subseteq {cur}
      BY <1>1 DEF IInv, PlaceOK
    <2>2. run = "reported" => staged = {}
      BY <1>1 DEF IInv, PlaceOK
    <2>. QED
      BY <2>1, <2>2 DEF StagedIsCurrent
  <1>. QED
    BY <1>1, Invariance, PTL

-----------------------------------------------------------------------------
(* What a step does to the checkpoint and to its count in the report *)

Counts(n) ==
    /\ UNCHANGED state
    /\ run' # "idle" => run # "idle"
    /\ report'.done = report.done + n

\* Nothing is recorded.
QuietKind == UNCHANGED <<assets, journal>> /\ Counts(0)
\* The server acts.
ServerKind ==
    /\ UNCHANGED journal /\ Counts(0)
    /\ \E b \in RequestType : BodyOK(b) /\ Act(b)
\* An effect that is not durable is recorded as not achieved.
FailKind ==
    /\ UNCHANGED assets /\ Counts(0)
    /\ \E e \in Effects, kind \in {"failed", "indeterminate"} :
          ~IsDone(e) /\ journal' = [journal EXCEPT ![e] = Event(kind, None)]
\* An effect that is not durable is recorded as durable.
DoneKind ==
    /\ UNCHANGED assets /\ Counts(1)
    /\ pc \in Writes \cup Reads /\ ~IsDone(Key)
    /\ \E kind \in Durable, id \in Checksums \cup Nat \cup {None} :
          journal' = [journal EXCEPT ![Key] = Event(kind, id)]

\* What records a durable effect is of the last kind.
LEMMA DoneKindHolds ==
  ASSUME IInv, NEW kind \in Durable, NEW id \in Checksums \cup Nat \cup {None}, RecordDone(kind, id),
         request # None, UNCHANGED <<assets, state, run>>
  PROVE  DoneKind
  <1>1. pc \in Writes \cup Reads /\ ~IsDone(Key)
    BY KeyOpen DEF IInv, PlaceOK
  <1>2. Counts(1)
    BY DoneReport DEF Counts, IInv
  <1>. QED
    BY <1>1, <1>2 DEF DoneKind, RecordDone

\* What records a failure is of the third.
LEMMA FailKindHolds ==
  ASSUME IInv, NEW kind \in {"failed", "indeterminate"}, NEW stop \in BOOLEAN, RecordFailure(kind, stop),
         request # None, UNCHANGED <<assets, state>>, run' # "idle" => run # "idle"
  PROVE  FailKind
  <1>1. Key \in Effects /\ ~IsDone(Key)
    BY KeyOpen DEF IInv, PlaceOK
  <1>2. report'.done = report.done /\ report.done \in Nat
    BY FailureReport DEF IInv, TypeOK, ReportType
  <1>3. Counts(0)
    BY <1>2 DEF Counts
  <1>. QED
    BY <1>1, <1>3 DEF FailKind, RecordFailure

\* Every step is of one of these kinds, or starts a run.
LEMMA StepKinds ==
  ASSUME IInv, [Next]_vars, ~StartRun
  PROVE  QuietKind \/ ServerKind \/ FailKind \/ DoneKind
  <1>. TypeOK /\ PlaceOK
    BY DEF IInv
  <1>0. report.done \in Nat /\ report \in ReportType
    BY DEF TypeOK, ReportType
  <1>1. ASSUME UNCHANGED <<assets, journal, state, report>>, run' # "idle" => run # "idle" PROVE QuietKind
    BY <1>0, <1>1 DEF QuietKind, Counts
  <1>2. ASSUME UNCHANGED <<assets, journal, state>>, run' # "idle" => run # "idle",
               report'.done = report.done PROVE QuietKind
    BY <1>0, <1>2 DEF QuietKind, Counts
  <1>3. request # None => run = "active"
    BY DEF PlaceOK, Writes, Reads
  <1>4. CASE Cancel \/ Crash \/ UNCHANGED vars
    BY <1>1, <1>4 DEF Cancel, Crash, vars, serverVars, runVars, loopVars
  <1>5. CASE ServerActs
    <2>1. Body \in RequestType /\ BodyOK(Body)
      BY <1>5, BodyIsOK DEF ServerActs
    <2>. QED
      BY <1>0, <1>5, <2>1 DEF ServerActs, ServerKind, Counts, runVars
  <1>6. ASSUME NEW b \in late, LateAct(b) PROVE ServerKind
    <2>1. b \in RequestType /\ BodyOK(b)
      BY DEF TypeOK, IInv, LateOK
    <2>. QED
      BY <1>0, <1>6, <2>1 DEF LateAct, ServerKind, Counts, runVars, loopVars
  <1>7. CASE StopAtHead
    <2>1. report'.done = report.done /\ UNCHANGED <<assets, journal, state>>
      BY <1>0, <1>7 DEF StopAtHead, ReportType, serverVars
    <2>2. run = "active"
      BY <1>7 DEF StopAtHead, PlaceOK
    <2>. QED
      BY <1>2, <2>1, <2>2
  <1>8. ASSUME NEW op \in Ops, NextOperation(op) PROVE QuietKind \/ FailKind
    <2>1. UNCHANGED <<assets, state, run>> /\ report'.done = report.done
      BY <1>0, <1>8 DEF NextOperation, serverVars, runVars, ReportType
    <2>2. CASE UNCHANGED journal
      BY <1>2, <2>1, <2>2
    <2>3. CASE /\ AssetId(state, op) = None
               /\ journal' = [journal EXCEPT ![<<"asset", op>>] = Event("failed", None)]
      <3>1. AssetOpen(op)
        BY <1>8 DEF NextOperation, AssetOpen, OpPhase
      <3>2. AssetId(journal, op) = None
        BY <2>3, <3>1 DEF SnapshotOK, AssetId, IInv
      <3>3. ~IsDone(<<"asset", op>>) /\ <<"asset", op>> \in Effects
        BY <3>2, ReadsJournal, Keys DEF IInv
      <3>4. Counts(0)
        BY <1>0, <2>1 DEF Counts
      <3>. QED
        BY <2>1, <2>3, <3>3, <3>4 DEF FailKind
    <2>. QED
      BY <1>8, <2>2, <2>3 DEF NextOperation
  <1>9. CASE OperationsOver \/ PrepareFails \/ AlbumsOver
    <2>1. UNCHANGED <<assets, journal, state, report>> /\ pc # "off"
      BY <1>9 DEF OperationsOver, PrepareFails, AlbumsOver, serverVars
    <2>. QED
      BY <1>1, <2>1 DEF PlaceOK
  <1>10. CASE Prepare \/ RetryDelayOver \/ Send \/ UploadAccepted \/ AlbumMissing
    BY <1>1, <1>10 DEF Prepare, RetryDelayOver, Send, UploadAccepted, AlbumMissing, serverVars, runVars
  <1>11. CASE Describe \/ Fill
    <2>1. report'.done = report.done /\ UNCHANGED <<assets, journal, state, run>>
      BY <1>0, <1>11 DEF Describe, Fill, ReportType, serverVars, runVars
    <2>. QED
      BY <1>2, <2>1
  <1>12. ASSUME NEW a \in Albums, NextAlbum(a) PROVE QuietKind
    <2>1. report'.done = report.done /\ UNCHANGED <<assets, journal, state, run>>
      BY <1>0, <1>12 DEF NextAlbum, ReportType, serverVars, runVars
    <2>. QED
      BY <1>2, <2>1
  <1>13. ASSUME NEW kind \in {"created", "duplicate"}, AssetDone(kind), request # None,
                pc \in {"check", "upload", "final"}
         PROVE  DoneKind
    <2>1. kind \in Durable /\ Sha1[cur] \in Checksums \cup Nat \cup {None}
      BY <1>13, AtHand DEF Durable, OpPCs, OpWork
    <2>. QED
      BY <1>13, <2>1, DoneKindHolds DEF AssetDone, RequestFrame, serverVars
  <1>14. CASE FoundDuplicate \/ Uploaded
    <2>1. request # None
      BY <1>14, PlanAssumption DEF FoundDuplicate, Uploaded
    <2>. QED
      BY <1>13, <1>14, <2>1 DEF FoundDuplicate, Uploaded
  <1>15. CASE Assigned
    <2>1. request # None /\ "completed" \in Durable
      BY <1>15, PlanAssumption DEF Assigned, Durable
    <2>. QED
      BY <1>15, <2>1, DoneKindHolds DEF Assigned, RequestFrame, serverVars
  <1>16. ASSUME NEW kind \in {"created", "reused"}, NEW id \in Nat \cup {None}, AlbumDone(kind, id), request # None
         PROVE  DoneKind
    <2>1. kind \in Durable /\ id \in Checksums \cup Nat \cup {None}
      BY DEF Durable
    <2>. QED
      BY <1>16, <2>1, DoneKindHolds DEF AlbumDone, serverVars, runVars
  <1>17. ASSUME NEW i \in DOMAIN albums, AlbumReused(i) \/ AlbumFoundAfterCreate(i) PROVE DoneKind
    <2>1. request # None
      BY <1>17, PlanAssumption DEF AlbumReused, AlbumFoundAfterCreate
    <2>2. i \in Nat
      BY DEF TypeOK
    <2>. QED
      BY <1>16, <1>17, <2>1, <2>2 DEF AlbumReused, AlbumFoundAfterCreate
  <1>18. CASE AlbumCreated
    <2>1. request # None
      BY <1>18, PlanAssumption DEF AlbumCreated
    <2>2. answer \in Nat \cup {None}
      BY DEF TypeOK
    <2>. QED
      BY <1>16, <1>18, <2>1, <2>2 DEF AlbumCreated
  <1>19. ASSUME NEW kind \in {"failed", "indeterminate"}, GiveUp(kind), request # None,
                UNCHANGED <<assets, state>>
         PROVE  FailKind
    BY <1>19, FailKindHolds DEF GiveUp
  <1>20. CASE StillUnknown \/ AlbumAmbiguous
    <2>1. request # None /\ UNCHANGED <<assets, state>>
      BY <1>20, PlanAssumption DEF StillUnknown, AlbumAmbiguous, RequestFrame, serverVars
    <2>2. \E kind \in {"failed", "indeterminate"} : GiveUp(kind)
      BY <1>20 DEF StillUnknown, AlbumAmbiguous
    <2>. QED
      BY <1>19, <2>1, <2>2
  <1>21. CASE AlbumStillMissing
    <2>1. request # None /\ UNCHANGED <<assets, state>>
      BY <1>21, PlanAssumption DEF AlbumStillMissing, RequestFrame, serverVars
    <2>2. \/ UNCHANGED <<journal, report, run>>
          \/ \E kind \in {"failed", "indeterminate"} : GiveUp(kind)
      BY <1>21 DEF AlbumStillMissing, UncertainKind
    <2>. QED
      BY <1>1, <1>19, <2>1, <2>2
  <1>22. ASSUME NEW class \in ErrorClass, RequestError(class) PROVE QuietKind \/ FailKind
    <2>1. request # None /\ UNCHANGED <<assets, state>>
      BY <1>22 DEF RequestError, RequestFrame
    <2>2. pc \in Writes \cup Reads
      BY <2>1 DEF PlaceOK
    <2>3. Outcome(class) \in {"failed", "indeterminate"}
      BY <2>2 DEF Outcome, UncertainKind, Writes, Reads
    <2>4. UNCHANGED <<journal, report, run>> \/ GiveUp(Outcome(class))
      BY <1>22 DEF RequestError
    <2>. QED
      BY <1>1, <1>19, <2>1, <2>3, <2>4
  <1>23. CASE RequestCancelled
    <2>1. request # None /\ UNCHANGED <<assets, state>> /\ run = "active"
      BY <1>3, <1>23 DEF RequestCancelled, RequestFrame
    <2>2. CASE pc = "check"
      <3>1. report'.done = report.done /\ UNCHANGED journal
        BY <1>0, <1>23, <2>2 DEF RequestCancelled, ReportType
      <3>. QED
        BY <1>2, <2>1, <3>1
    <2>3. CASE pc # "check"
      <3>1. PICK kind \in {"failed", "indeterminate"} : RecordFailure(kind, TRUE)
        BY <1>23, <2>3 DEF RequestCancelled
      <3>. QED
        BY <2>1, <3>1, FailKindHolds
    <2>. QED
      BY <2>2, <2>3
  <1>. QED
    BY <1>4, <1>5, <1>6, <1>7, <1>8, <1>9, <1>10, <1>11, <1>12, <1>14, <1>15, <1>17, <1>18,
       <1>20, <1>21, <1>22, <1>23 DEF Next, RunStep

\* What each kind leaves of the durable effects.
LEMMA DurableKept ==
  ASSUME IInv, [Next]_vars, NEW e \in Effects, IsDone(e)
  PROVE  journal'[e] = journal[e] /\ IsDone(e)'
  <1>. journal \in [Effects -> EventType]
    BY DEF IInv, TypeOK
  <1>1. CASE StartRun
    BY <1>1 DEF StartRun, IsDone
  <1>2. CASE UNCHANGED journal
    BY <1>2 DEF IsDone
  <1>3. CASE FailKind
    BY <1>3 DEF FailKind, IsDone
  <1>4. CASE DoneKind
    BY <1>4 DEF DoneKind, IsDone
  <1>. QED
    BY <1>1, <1>2, <1>3, <1>4, StepKinds DEF QuietKind, ServerKind

\* A durable effect keeps its latest event, over errors, cancellations, deaths
\* of the process and reruns (ImportJournal::append).
THEOREM DurableEffectsAreKept == Spec => DurableEffectsKept
  <1>1. ASSUME IInv, [Next]_vars
        PROVE  [\A e \in DoneEffects(journal) : journal'[e] = journal[e]]_vars
    <2>1. \A e \in DoneEffects(journal) : e \in Effects /\ IsDone(e)
      BY DEF DoneEffects, IsDone
    <2>. QED
      BY <1>1, <2>1, DurableKept
  <1>. QED
    BY <1>1, Invariance, PTL DEF Spec, DurableEffectsKept

\* An asset the server comes to hold is a step of the ledger.
LEMMA LedgerStore ==
  ASSUME IInv, ServerKind
  PROVE  Ledger!Next \/ UNCHANGED Ledger!vars
  <1>1. PICK b \in RequestType : BodyOK(b) /\ Act(b)
    BY DEF ServerKind
  <1>2. UNCHANGED [op \in Ops |-> AssetId(journal, op)]
    BY DEF ServerKind, AssetId
  <1>3. CASE b.kind = "upload"
    <2>1. b.on \in Ops /\ Sha1[b.on] \in Checksums
      BY <1>3, PlanAssumption DEF RequestType
    <2>2. /\ AssetsGrow /\ assets'[Sha1[b.on]] # None
          /\ \A c \in Checksums : assets'[c] # None => assets[c] # None \/ c = Sha1[b.on]
      BY <1>1, <1>3, ActOnAssets DEF IInv
    <2>3. {c \in Checksums : assets'[c] # None} = {c \in Checksums : assets[c] # None} \cup {Sha1[b.on]}
      BY <2>1, <2>2 DEF AssetsGrow
    <2>. QED
      BY <1>2, <2>1, <2>3 DEF Ledger!Next, Ledger!Store
  <1>4. CASE b.kind # "upload"
    <2>1. {c \in Checksums : assets'[c] # None} = {c \in Checksums : assets[c] # None}
      <3>1. CASE b.kind = "metadata"
        <4>1. /\ AssetsGrow
              /\ \A c \in Checksums : assets'[c] # None => assets[c] # None
          BY <1>1, <3>1, ActOnAssets DEF IInv
        <4>. QED
          BY <4>1 DEF AssetsGrow
      <3>2. CASE b.kind \in {"create", "members"}
        BY <1>1, <3>2, ActOnAlbums DEF IInv
      <3>. QED
        BY <1>4, <3>1, <3>2 DEF RequestType
    <2>. QED
      BY <1>2, <2>1 DEF Ledger!vars
  <1>. QED
    BY <1>3, <1>4

\* A recorded asset is one too: after the asset is on the server, and after
\* the video of an image.
LEMMA LedgerRecord ==
  ASSUME IInv, IInv', DoneKind
  PROVE  Ledger!Next \/ UNCHANGED Ledger!vars
  <1>. DEFINE recorded == [op \in Ops |-> AssetId(journal, op)]
              stored == {c \in Checksums : assets[c] # None}
  <1>1. UNCHANGED assets
    BY DEF DoneKind
  <1>2. stored' = stored
    BY <1>1
  <1>3. journal \in [Effects -> EventType] /\ Key \in Effects /\ ~IsDone(Key)
    BY KeyOpen DEF IInv, TypeOK, DoneKind
  <1>4. PICK kind \in Durable, id \in Checksums \cup Nat \cup {None} :
              journal' = [journal EXCEPT ![Key] = Event(kind, id)]
    BY DEF DoneKind
  <1>5. \A f \in Effects : f # Key => journal'[f] = journal[f]
    BY <1>3, <1>4
  <1>6. CASE pc \in {"check", "upload", "final"}
    <2>1. /\ Key = <<"asset", cur>> /\ cur \in Ops /\ Sha1[cur] \in Checksums
          /\ cur \in Images => assetIds[VideoOf[cur]] # None
      BY <1>6, KeyIs, AtHand DEF OpPCs, OpWork, IInv, EffectOK
    <2>2. PICK op \in Ops : op = cur
      BY <2>1
    <2>3. IsDone(<<"asset", op>>)'
      BY <1>3, <1>4, <2>1, <2>2 DEF IsDone, Event
    <2>4. journal'[Key].kind \in {"created", "duplicate"} /\ journal'[Key].id = Sha1[cur]
          /\ assets[Sha1[cur]] # None
      BY <1>1, <2>1, <2>2, <2>3 DEF IInv, JournalTrue, AssetTrue
    <2>5. AssetId(journal', cur) = Sha1[cur]
      BY <2>1, <2>4 DEF AssetId
    <2>6. \A o \in Ops : o # cur => AssetId(journal', o) = AssetId(journal, o)
      BY <1>5, <2>1, Keys DEF AssetId
    <2>7. recorded' = [recorded EXCEPT ![cur] = Sha1[cur]]
      BY <2>1, <2>5, <2>6 DEF AssetId
    <2>8. recorded[cur] = None
      BY <1>3, <2>1, ReadsJournal DEF IInv
    <2>9. cur \in Images => recorded[VideoOf[cur]] # None
      BY <2>1, PlanAssumption DEF IInv, IdsAgree
    <2>10. Ledger!Record(cur)
      BY <1>2, <2>1, <2>4, <2>7, <2>8, <2>9 DEF Ledger!Record
    <2>. QED
      BY <2>1, <2>10 DEF Ledger!Next
  <1>7. CASE pc \notin {"check", "upload", "final"}
    <2>1. \A op \in Ops : Key # <<"asset", op>>
      BY <1>7, KeyIs DEF DoneKind, Writes, Reads
    <2>2. \A op \in Ops : AssetId(journal', op) = AssetId(journal, op)
      BY <1>5, <2>1, Keys DEF AssetId
    <2>3. recorded' = recorded
      BY <2>2 DEF AssetId
    <2>. QED
      BY <1>2, <2>3 DEF Ledger!vars
  <1>. QED
    BY <1>6, <1>7

\* Every step of the executor is a step of the ledger or leaves it alone.
LEMMA LedgerStep == IInv /\ IInv' /\ [Next]_vars => [Ledger!Next]_(Ledger!vars)
  <1>. SUFFICES ASSUME IInv, IInv', [Next]_vars
                PROVE  Ledger!Next \/ UNCHANGED Ledger!vars
    OBVIOUS
  <1>1. CASE StartRun \/ QuietKind
    <2>1. UNCHANGED <<assets, journal>>
      BY <1>1 DEF StartRun, QuietKind, serverVars
    <2>. QED
      BY <2>1 DEF Ledger!vars, AssetId
  <1>2. CASE FailKind
    <2>1. PICK e \in Effects, kind \in {"failed", "indeterminate"} :
              ~IsDone(e) /\ journal' = [journal EXCEPT ![e] = Event(kind, None)]
      BY <1>2 DEF FailKind
    <2>2. \A f \in Effects : IsDone(f)' <=> IsDone(f)
      <3>1. journal \in [Effects -> EventType]
        BY DEF IInv, TypeOK
      <3>. QED
        BY <2>1, <3>1 DEF IsDone, Event, Durable
    <2>3. \A op \in Ops : AssetId(journal', op) = AssetId(journal, op)
      <3>1. \A op \in Ops : AssetId(journal, op) = IF IsDone(<<"asset", op>>) THEN Sha1[op] ELSE None
        BY ReadsJournal DEF IInv
      <3>2. \A op \in Ops : AssetId(journal', op) = IF IsDone(<<"asset", op>>)' THEN Sha1[op] ELSE None
        <4>1. {"created", "duplicate"} \subseteq Durable
          BY DEF Durable
        <4>. QED
          BY <4>1 DEF IInv, JournalTrue, AssetTrue, AssetId, IsDone
      <3>. QED
        BY <2>2, <3>1, <3>2, Keys
    <2>4. UNCHANGED assets
      BY <1>2 DEF FailKind
    <2>. QED
      BY <2>3, <2>4 DEF Ledger!vars, AssetId
  <1>3. CASE ServerKind
    BY <1>3, LedgerStore
  <1>4. CASE DoneKind
    BY <1>4, LedgerRecord
  <1>. QED
    BY <1>1, <1>2, <1>3, <1>4, StepKinds

\* The server holds some of the media and nothing is recorded.
LEMMA LedgerInit == Init => Ledger!Init
  <1>. SUFFICES ASSUME Init PROVE Ledger!Init
    OBVIOUS
  <1>1. \A op \in Ops : AssetId(journal, op) = None
    BY Keys DEF Init, AssetId, Event
  <1>2. [op \in Ops |-> AssetId(journal, op)] = [op \in Ops |-> None]
    BY <1>1
  <1>. QED
    BY <1>2 DEF Ledger!Init

\* The import keeps the promise of a folder upload for its assets: each is
\* recorded once, with the identity of an asset the server holds, an image
\* after its video.
THEOREM ImplementsLedger == Spec => LedgerSpec
  BY Invariance, LedgerInit, LedgerStep, PTL DEF Spec, LedgerSpec, Ledger!Spec

\* Both together: what the runs check of the checkpoint, for every plan.
THEOREM CheckpointIsALedger == Spec => CheckpointIsLedger
  BY ImplementsLedger, DurableEffectsAreKept, PTL DEF CheckpointIsLedger

-----------------------------------------------------------------------------
(* The report *)

\* The effects of a plan are finitely many.
LEMMA EffectsFinite ==
  IsFiniteSet(Effects)
  <1>1. IsFiniteSet({"asset", "metadata"}) /\ IsFiniteSet({"album", "members"})
    <2>1. IsFiniteSet({}) /\ IsFiniteSet({"metadata"}) /\ IsFiniteSet({"members"})
      BY FS_EmptySet, FS_Singleton
    <2>2. IsFiniteSet({"metadata"} \cup {"asset"}) /\ IsFiniteSet({"members"} \cup {"album"})
      BY <2>1, FS_AddElement
    <2>3. {"metadata"} \cup {"asset"} = {"asset", "metadata"} /\ {"members"} \cup {"album"} = {"album", "members"}
      OBVIOUS
    <2>. QED
      BY <2>2, <2>3
  <1>2. IsFiniteSet({"asset", "metadata"} \X Ops) /\ IsFiniteSet({"album", "members"} \X Albums)
    BY <1>1, FS_Product, PlanAssumption
  <1>. QED
    BY <1>2, FS_Union DEF Effects

\* The count of durable effects follows the kind of the step.
LEMMA CountStep ==
  ASSUME IInv, ReportMatchesJournal, [Next]_vars
  PROVE  ReportMatchesJournal'
  <1>. SUFFICES ASSUME run' # "idle"
                PROVE  Cardinality(DoneEffects(journal')) = Cardinality(DoneEffects(state')) + report'.done
    BY DEF ReportMatchesJournal, DoneEffects
  <1>0. \A j : IsFiniteSet(DoneEffects(j)) /\ Cardinality(DoneEffects(j)) \in Nat
    <2>1. \A j : DoneEffects(j) \subseteq Effects
      BY DEF DoneEffects
    <2>. QED
      BY <2>1, EffectsFinite, FS_Subset, FS_CardinalityType
  <1>1. report.done \in Nat /\ journal \in [Effects -> EventType]
    BY DEF IInv, TypeOK, ReportType
  <1>2. CASE StartRun
    <2>1. state' = journal /\ journal' = journal /\ report'.done = 0
      BY <1>2 DEF StartRun, NewReport
    <2>2. Cardinality(DoneEffects(journal)) = Cardinality(DoneEffects(journal)) + 0
      BY <1>0
    <2>. QED
      BY <2>1, <2>2
  <1>3. ASSUME Counts(0), DoneEffects(journal') = DoneEffects(journal)
        PROVE  Cardinality(DoneEffects(journal')) = Cardinality(DoneEffects(state')) + report'.done
    <2>1. report'.done = report.done /\ state' = state /\ run # "idle"
      BY <1>1, <1>3 DEF Counts
    <2>. QED
      BY <1>3, <2>1 DEF ReportMatchesJournal
  <1>4. CASE QuietKind \/ ServerKind
    BY <1>3, <1>4 DEF QuietKind, ServerKind
  <1>5. CASE FailKind
    <2>1. PICK e \in Effects, kind \in {"failed", "indeterminate"} :
              ~IsDone(e) /\ journal' = [journal EXCEPT ![e] = Event(kind, None)]
      BY <1>5 DEF FailKind
    <2>2. DoneEffects(journal') = DoneEffects(journal)
      BY <1>1, <2>1 DEF DoneEffects, IsDone, Event, Durable
    <2>. QED
      BY <1>3, <1>5, <2>2 DEF FailKind
  <1>6. CASE DoneKind
    <2>1. PICK kind \in Durable, id \in Checksums \cup Nat \cup {None} :
              journal' = [journal EXCEPT ![Key] = Event(kind, id)]
      BY <1>6 DEF DoneKind
    <2>2. Key \in Effects /\ Key \notin DoneEffects(journal)
      BY <1>6, KeyOpen DEF DoneKind, IsDone, DoneEffects
    <2>3. DoneEffects(journal') = DoneEffects(journal) \cup {Key}
      BY <1>1, <2>1, <2>2 DEF DoneEffects, Event
    <2>4. Cardinality(DoneEffects(journal) \cup {Key}) = Cardinality(DoneEffects(journal)) + 1
      BY <1>0, <2>2, FS_AddElement
    <2>5. report'.done = report.done + 1 /\ state' = state /\ run # "idle"
      BY <1>6 DEF DoneKind, Counts
    <2>6. Cardinality(DoneEffects(journal)) = Cardinality(DoneEffects(state)) + report.done
      BY <2>5 DEF ReportMatchesJournal
    <2>7. Cardinality(DoneEffects(journal)) + 1 = Cardinality(DoneEffects(state)) + (report.done + 1)
      BY <1>0, <1>1, <2>6
    <2>. QED
      BY <2>3, <2>4, <2>5, <2>7
  <1>. QED
    BY <1>2, <1>4, <1>5, <1>6, StepKinds

\* What is done stays done.
LEMMA DoneStays ==
  ASSUME IInv, [Next]_vars
  PROVE  /\ \A op \in Ops : OperationDone(op) => OperationDone(op)'
         /\ \A a \in Albums : AlbumDoneAll(a) => AlbumDoneAll(a)'
  BY DurableKept, Keys DEF OperationDone, AlbumDoneAll

\* The run goes on with what it is at.
LEMMA ThroughStays ==
  ASSUME IInv, [Next]_vars, Through, UNCHANGED <<visited, cur>>, run' = "active",
         (pc \in OpPCs /\ pc' \in OpPCs) \/ (pc \in AlbumPCs /\ pc' \in AlbumPCs)
  PROVE  Through'
  <1>1. /\ OpPCs \subseteq OpPhase /\ AlbumPCs \subseteq AlbumPhase /\ OpPhase \cap AlbumPhase = {}
    BY PhasesApart DEF OpPhase, AlbumPhase
  <1>2. (pc \in OpPhase => visited \subseteq Ops) /\ (pc \in AlbumPhase => visited \subseteq Albums)
    BY DEF IInv, PlaceOK
  <1>. QED
    BY <1>1, <1>2, DoneStays DEF Through

\* The run is through with what it was at.
LEMMA ThroughCurrent ==
  ASSUME IInv, [Next]_vars, Through, UNCHANGED <<visited, cur>>, run' = "active",
         \/ pc \in OpPCs /\ pc' = "operations" /\ OperationDone(cur)'
         \/ pc \in AlbumPCs /\ pc' = "albums" /\ AlbumDoneAll(cur)'
  PROVE  Through'
  <1>1. /\ OpPCs \subseteq OpPhase /\ AlbumPCs \subseteq AlbumPhase /\ OpPhase \cap AlbumPhase = {}
        /\ "operations" \in OpPhase /\ "albums" \in AlbumPhase
    BY PhasesApart DEF OpPhase, AlbumPhase
  <1>2. (pc \in OpPhase => visited \subseteq Ops) /\ (pc \in AlbumPhase => visited \subseteq Albums)
    BY DEF IInv, PlaceOK
  <1>3. CASE pc \in OpPCs /\ pc' = "operations" /\ OperationDone(cur)'
    <2>1. ASSUME NEW op \in visited PROVE OperationDone(op)'
      <3>1. CASE op = cur
        BY <1>3, <3>1 DEF OperationDone
      <3>2. CASE op # cur
        BY <1>1, <1>2, <1>3, <3>2, DoneStays DEF Through
      <3>. QED
        BY <3>1, <3>2
    <2>. QED
      BY <1>1, <1>3, <2>1 DEF Through
  <1>4. CASE pc \in AlbumPCs /\ pc' = "albums" /\ AlbumDoneAll(cur)'
    <2>1. ASSUME NEW a \in visited PROVE AlbumDoneAll(a)'
      <3>1. CASE a = cur
        BY <1>4, <3>1 DEF AlbumDoneAll
      <3>2. CASE a # cur
        BY <1>1, <1>2, <1>4, <3>2, DoneStays DEF Through
      <3>. QED
        BY <3>1, <3>2
    <2>2. \A op \in Ops : OperationDone(op)'
      BY <1>1, <1>4, DoneStays DEF Through
    <2>. QED
      BY <1>1, <1>4, <2>1, <2>2 DEF Through
  <1>. QED
    BY <1>3, <1>4

SameMarks ==
    /\ report'.failed = report.failed
    /\ report'.indeterminate = report.indeterminate
    /\ report'.cancelled = report.cancelled

\* A report that says something went wrong keeps saying so.
LEMMA AccountedKept ==
  ASSUME Accounted, SameMarks, Through => Through'
  PROVE  Accounted'
  BY DEF Accounted, Dirty, SameMarks

\* The next operation or album is taken up.
LEMMA AccountedTakeUp ==
  ASSUME IInv, [Next]_vars, Accounted,
         (\E op \in Ops : NextOperation(op)) \/ (\E a \in Albums : NextAlbum(a))
  PROVE  Accounted'
  <1>. PlaceOK /\ report \in ReportType
    BY DEF IInv, TypeOK
  <1>1. ASSUME NEW op \in Ops, NextOperation(op) PROVE Accounted'
    <2>1. CASE AssetId(state, op) = None /\ VideoMissing(op)
      <3>1. report' = [report EXCEPT !.failed = @ + 1] /\ report.failed \in Nat
        BY <1>1, <2>1 DEF NextOperation, ReportType
      <3>2. report'.failed > 0
        BY <3>1 DEF ReportType
      <3>. QED
        BY <3>2 DEF Accounted, Dirty
    <2>2. CASE AssetId(state, op) # None \/ ~VideoMissing(op)
      <3>1. /\ pc = "operations" /\ pc' \in {"describe", "prepare"} /\ visited' = visited \cup {op}
            /\ cur' = op /\ run' = run
        BY <1>1, <2>2 DEF NextOperation, AtHead, runVars
      <3>2. SameMarks
        BY <1>1, <2>2 DEF NextOperation, SameMarks, ReportType
      <3>3. /\ pc \in OpPhase /\ pc \notin OpPCs /\ pc' \in OpPCs /\ pc' \notin AlbumPhase
            /\ run = "active" /\ visited \subseteq Ops
        BY <3>1 DEF OpPhase, OpPCs, OpWork, AlbumPhase, AlbumPCs, AlbumWork, PlaceOK
      <3>4. ASSUME Through PROVE Through'
        <4>1. \A o \in visited : OperationDone(o)'
          BY <3>3, <3>4, DoneStays DEF Through
        <4>. QED
          BY <3>1, <3>3, <4>1 DEF Through
      <3>. QED
        BY <3>2, <3>4, AccountedKept
    <2>. QED
      BY <2>1, <2>2
  <1>2. ASSUME NEW a \in Albums, NextAlbum(a) PROVE Accounted'
    <2>1. /\ pc = "albums" /\ pc' \in {"fill", "lookup"} /\ visited' = visited \cup {a}
          /\ cur' = a /\ run' = run
      BY <1>2 DEF NextAlbum, AtHead, Issue, runVars
    <2>2. SameMarks
      BY <1>2 DEF NextAlbum, SameMarks, ReportType
    <2>3. /\ pc \in AlbumPhase /\ pc \notin AlbumPCs /\ pc' \in AlbumPCs /\ pc' \notin OpPhase
          /\ run = "active" /\ visited \subseteq Albums
      BY <2>1 DEF OpPhase, OpPCs, OpWork, AlbumPhase, AlbumPCs, AlbumWork, PlaceOK
    <2>4. ASSUME Through PROVE Through'
      <3>1. /\ \A o \in Ops : OperationDone(o)'
            /\ \A b \in visited : AlbumDoneAll(b)'
        BY <2>3, <2>4, DoneStays DEF Through
      <3>. QED
        BY <2>1, <2>3, <3>1 DEF Through
    <2>. QED
      BY <2>2, <2>4, AccountedKept
  <1>. QED
    BY <1>1, <1>2

\* A loop is over.
LEMMA AccountedOver ==
  ASSUME IInv, [Next]_vars, Accounted, OperationsOver \/ AlbumsOver
  PROVE  Accounted'
  <1>. PlaceOK
    BY DEF IInv
  <1>1. SameMarks
    BY DEF OperationsOver, AlbumsOver, SameMarks
  <1>2. CASE OperationsOver
    <2>1. pc \in OpPhase /\ pc \notin OpPCs /\ visited = Ops /\ run = "active"
      BY <1>2 DEF OperationsOver, OpPhase, OpPCs, OpWork, PlaceOK
    <2>2. ASSUME Through PROVE Through'
      <3>1. \A op \in Ops : OperationDone(op)
        BY <2>1, <2>2 DEF Through
      <3>2. AllAssetsKnown
        BY <3>1, KnownIsDurable DEF AllDurable, OperationDone
      <3>3. pc' = "albums" /\ visited' = {} /\ run' = run
        BY <1>2, <3>2 DEF OperationsOver, Restart, AtHead
      <3>4. pc' \notin OpPhase
        BY <3>3 DEF OpPhase, OpPCs, OpWork
      <3>. QED
        BY <2>1, <3>1, <3>3, <3>4, DoneStays DEF Through
    <2>. QED
      BY <1>1, <2>2, AccountedKept
  <1>3. CASE AlbumsOver
    <2>1. pc \in AlbumPhase /\ pc \notin AlbumPCs /\ visited = Albums
      BY <1>3 DEF AlbumsOver, AlbumPhase, AlbumPCs, AlbumWork
    <2>2. pc' = "off" /\ visited' = {} /\ pc' \notin OpPhase /\ pc' \notin AlbumPhase
      BY <1>3, PhasesApart DEF AlbumsOver, Return, Restart, AtHead
    <2>3. ASSUME Through PROVE Through'
      BY <2>1, <2>2, <2>3, DoneStays DEF Through
    <2>. QED
      BY <1>1, <2>3, AccountedKept
  <1>. QED
    BY <1>2, <1>3

\* The run is at an effect whose earlier one is durable.
LEMMA EarlierIsDone ==
  ASSUME IInv
  PROVE  /\ pc \in {"describe", "metadata"} => cur \in Ops /\ IsDone(<<"asset", cur>>)
         /\ pc \in {"fill", "members"} => cur \in Albums /\ IsDone(<<"album", cur>>)
  <1>1. CASE pc \in {"describe", "metadata"}
    <2>1. cur \in Ops /\ assetIds[cur] # None
      BY <1>1, AtHand DEF OpPCs, IInv, EffectOK
    <2>. QED
      BY <1>1, <2>1, ReadsJournal DEF IInv, IdsAgree
  <1>2. CASE pc \in {"fill", "members"}
    <2>1. cur \in Albums /\ AlbumRef(journal, cur) # None
      BY <1>2, AtHand DEF AlbumPCs, IInv, EffectOK
    <2>. QED
      BY <1>2, <2>1, ReadsJournal DEF IInv
  <1>. QED
    BY <1>1, <1>2

\* apply_metadata and the membership step find their work done, or start it.
LEMMA AccountedSkip ==
  ASSUME IInv, [Next]_vars, Accounted, Describe \/ Fill
  PROVE  Accounted'
  <1>. PlaceOK /\ report \in ReportType /\ SnapshotOK
    BY DEF IInv, TypeOK
  <1>1. SameMarks /\ UNCHANGED <<visited, cur, run, journal>>
    BY DEF Describe, Fill, SameMarks, ReportType, serverVars, runVars
  <1>2. run = "active" /\ pc \in {"describe", "fill"}
    BY DEF Describe, Fill, PlaceOK
  <1>3. CASE pc' \in {"metadata", "members"}
    <2>1. (pc \in OpPCs /\ pc' \in OpPCs) \/ (pc \in AlbumPCs /\ pc' \in AlbumPCs)
      BY <1>3 DEF Describe, Fill, AtHead, Issue, OpPCs, AlbumPCs
    <2>. QED
      BY <1>1, <1>2, <2>1, ThroughStays, AccountedKept
  <1>4. CASE pc = "describe" /\ pc' = "operations"
    <2>1. cur \in Described => MetadataDone(state, cur)
      BY <1>4 DEF Describe, Fill, Issue
    <2>2. MetadataOpen(cur) /\ cur \in Ops /\ IsDone(<<"asset", cur>>) /\ pc \in OpPCs
      BY <1>4, EarlierIsDone DEF MetadataOpen, OpPhase, OpPCs
    <2>3. cur \in Described => MetadataDone(journal, cur)
      BY <2>1, <2>2 DEF SnapshotOK, MetadataDone
    <2>4. cur \in Described => IsDone(<<"metadata", cur>>)
      BY <2>2, <2>3, ReadsJournal DEF IInv
    <2>5. OperationDone(cur)'
      BY <1>1, <2>2, <2>4 DEF OperationDone, IsDone
    <2>. QED
      BY <1>1, <1>2, <1>4, <2>2, <2>5, ThroughCurrent, AccountedKept
  <1>5. CASE pc = "fill" /\ pc' = "albums"
    <2>1. MembersDone(state, cur)
      BY <1>5 DEF Describe, Fill, Issue
    <2>2. MembersOpen(cur) /\ cur \in Albums /\ IsDone(<<"album", cur>>) /\ pc \in AlbumPCs
      BY <1>5, EarlierIsDone DEF MembersOpen, AlbumPhase, AlbumPCs
    <2>3. MembersDone(journal, cur)
      BY <2>1, <2>2 DEF SnapshotOK, MembersDone
    <2>4. IsDone(<<"members", cur>>)
      BY <2>2, <2>3, ReadsJournal DEF IInv
    <2>5. AlbumDoneAll(cur)'
      BY <1>1, <2>2, <2>4 DEF AlbumDoneAll, IsDone
    <2>. QED
      BY <1>1, <1>2, <1>5, <2>2, <2>5, ThroughCurrent, AccountedKept
  <1>. QED
    BY <1>3, <1>4, <1>5 DEF Describe, Fill, AtHead, Issue

\* An effect is durable.
LEMMA AccountedDone ==
  ASSUME IInv, [Next]_vars, Accounted, run = "active",
         \/ FoundDuplicate \/ Uploaded \/ Assigned \/ AlbumCreated
         \/ \E i \in DOMAIN albums : AlbumReused(i) \/ AlbumFoundAfterCreate(i)
  PROVE  Accounted'
  <1>. TypeOK
    BY DEF IInv
  <1>1. ASSUME NEW kind, NEW id, RecordDone(kind, id) PROVE SameMarks
    BY <1>1, DoneReport DEF SameMarks
  <1>2. CASE FoundDuplicate \/ Uploaded
    <2>1. PICK kind : AssetDone(kind)
      BY <1>2 DEF FoundDuplicate, Uploaded
    <2>2. SameMarks /\ UNCHANGED <<visited, cur, run>> /\ pc \in OpPCs /\ pc' \in OpPCs
      BY <1>1, <1>2, <2>1 DEF AssetDone, AtHead, FoundDuplicate, Uploaded, OpPCs, OpWork
    <2>. QED
      BY <2>2, ThroughStays, AccountedKept
  <1>3. ASSUME NEW kind, NEW id, AlbumDone(kind, id), pc \in AlbumWork PROVE Accounted'
    <2>1. SameMarks /\ UNCHANGED <<visited, cur, run>> /\ pc \in AlbumPCs /\ pc' \in AlbumPCs
      BY <1>1, <1>3 DEF AlbumDone, AtHead, AlbumPCs, runVars
    <2>. QED
      BY <2>1, ThroughStays, AccountedKept
  <1>4. CASE AlbumCreated \/ \E i \in DOMAIN albums : AlbumReused(i) \/ AlbumFoundAfterCreate(i)
    <2>1. pc \in AlbumWork /\ \E kind, id : AlbumDone(kind, id)
      BY <1>4 DEF AlbumCreated, AlbumReused, AlbumFoundAfterCreate, AlbumWork
    <2>. QED
      BY <1>3, <2>1
  <1>5. CASE Assigned
    <2>1. /\ SameMarks /\ UNCHANGED <<visited, cur, run>> /\ pc' = Home /\ pc \in {"metadata", "members"}
          /\ journal' = [journal EXCEPT ![Key] = Event("completed", None)]
      BY <1>1, <1>5 DEF Assigned, AtHead, RecordDone
    <2>2. PICK k \in Effects : k = Key
      BY <2>1, KeyOpen DEF Writes
    <2>3. IsDone(k)'
      <3>1. journal \in [Effects -> EventType]
        BY DEF TypeOK
      <3>. QED
        BY <2>1, <2>2, <3>1 DEF IsDone, Event, Durable
    <2>4. CASE pc = "metadata"
      <3>1. /\ k = <<"metadata", cur>> /\ cur \in Ops /\ IsDone(<<"asset", cur>>)
            /\ pc \in OpPCs /\ pc' = "operations"
        BY <2>1, <2>2, <2>4, KeyIs, EarlierIsDone DEF Home, OpPCs
      <3>2. PICK op \in Ops : op = cur
        BY <3>1
      <3>3. IsDone(<<"asset", op>>)' /\ IsDone(<<"metadata", op>>)'
        BY <2>3, <3>1, <3>2, DurableKept, Keys
      <3>4. OperationDone(cur)'
        BY <2>1, <3>2, <3>3 DEF OperationDone
      <3>. QED
        BY <2>1, <3>1, <3>4, ThroughCurrent, AccountedKept
    <2>5. CASE pc = "members"
      <3>1. /\ k = <<"members", cur>> /\ cur \in Albums /\ IsDone(<<"album", cur>>)
            /\ pc \in AlbumPCs /\ pc' = "albums"
        BY <2>1, <2>2, <2>5, KeyIs, EarlierIsDone DEF Home, AlbumPCs
      <3>2. PICK a \in Albums : a = cur
        BY <3>1
      <3>3. IsDone(<<"album", a>>)' /\ IsDone(<<"members", a>>)'
        BY <2>3, <3>1, <3>2, DurableKept, Keys
      <3>4. AlbumDoneAll(cur)'
        BY <2>1, <3>2, <3>3 DEF AlbumDoneAll
      <3>. QED
        BY <2>1, <3>1, <3>4, ThroughCurrent, AccountedKept
    <2>. QED
      BY <2>1, <2>4, <2>5
  <1>. QED
    BY <1>2, <1>4, <1>5

\* The next request of the same effect.
LEMMA AccountedRequest ==
  ASSUME IInv, [Next]_vars, Accounted, run = "active", pc' \in Writes \cup Reads,
         SameKey(pc, pc') \/ (pc = "prepare" /\ pc' = "check"), UNCHANGED <<visited, cur, run, report>>
  PROVE  Accounted'
  <1>1. SameMarks
    BY DEF SameMarks
  <1>2. (pc \in OpPCs /\ pc' \in OpPCs) \/ (pc \in AlbumPCs /\ pc' \in AlbumPCs)
    BY DEF SameKey, OpPCs, OpWork, AlbumPCs
  <1>. QED
    BY <1>1, <1>2, ThroughStays, AccountedKept

\* A failure is in the report.
LEMMA AccountedFailure ==
  ASSUME IInv, NEW kind \in {"failed", "indeterminate"}, NEW stop \in BOOLEAN, RecordFailure(kind, stop)
  PROVE  Accounted'
  BY FailureReport DEF IInv, Accounted, Dirty

\* The report accounts for what the run is through with after every step.
LEMMA AccountedStep ==
  ASSUME IInv, [Next]_vars, run # "idle" => Accounted, run' # "idle"
  PROVE  Accounted'
  <1>. PlaceOK /\ TypeOK
    BY DEF IInv
  <1>0. report \in ReportType /\ (pc # "off" => run = "active" /\ Accounted)
        /\ (request # None => pc \in Writes \cup Reads /\ pc # "off")
    BY DEF PlaceOK, TypeOK, Writes, Reads
  <1>1. CASE StartRun
    <2>1. pc' = "operations" /\ visited' = {} /\ run' = "active"
      BY <1>1 DEF StartRun, Restart, AtHead
    <2>2. pc' \notin AlbumPhase
      BY <2>1 DEF AlbumPhase, AlbumPCs, AlbumWork
    <2>. QED
      BY <2>1, <2>2 DEF Accounted, Through
  <1>2. CASE Crash \/ PrepareFails
    BY <1>2 DEF Crash, PrepareFails, Return
  <1>3. ASSUME UNCHANGED <<journal, pc, visited, cur, run, report>> PROVE Accounted'
    BY <1>3 DEF Accounted, Dirty, Through, OperationDone, AlbumDoneAll, IsDone
  <1>4. CASE Cancel \/ ServerActs \/ (\E b \in late : LateAct(b)) \/ UNCHANGED vars
    BY <1>3, <1>4 DEF Cancel, ServerActs, LateAct, vars, serverVars, runVars, loopVars
  <1>5. CASE StopAtHead
    <2>1. report'.cancelled
      BY <1>0, <1>5 DEF StopAtHead, ReportType
    <2>. QED
      BY <2>1 DEF Accounted, Dirty
  <1>6. CASE (\E op \in Ops : NextOperation(op)) \/ (\E a \in Albums : NextAlbum(a))
    BY <1>0, <1>6, AccountedTakeUp DEF NextOperation, NextAlbum
  <1>7. CASE OperationsOver \/ AlbumsOver
    BY <1>0, <1>7, AccountedOver DEF OperationsOver, AlbumsOver
  <1>8. CASE Describe \/ Fill
    BY <1>0, <1>8, AccountedSkip DEF Describe, Fill
  <1>9. CASE \/ FoundDuplicate \/ Uploaded \/ Assigned \/ AlbumCreated
             \/ \E i \in DOMAIN albums : AlbumReused(i) \/ AlbumFoundAfterCreate(i)
    <2>1. pc # "off"
      BY <1>9 DEF FoundDuplicate, Uploaded, Assigned, AlbumCreated, AlbumReused, AlbumFoundAfterCreate
    <2>. QED
      BY <1>0, <1>9, <2>1, AccountedDone
  <1>10. CASE Prepare \/ UploadAccepted \/ AlbumMissing \/ Send
    <2>1. /\ pc # "off" /\ pc' \in Writes \cup Reads /\ UNCHANGED <<visited, cur, run, report>>
          /\ SameKey(pc, pc') \/ (pc = "prepare" /\ pc' = "check")
      BY <1>10 DEF Prepare, UploadAccepted, AlbumMissing, Send, Issue, Writes, Reads, SameKey, AlbumWork, runVars
    <2>. QED
      BY <1>0, <2>1, AccountedRequest
  <1>11. CASE RetryDelayOver
    <2>1. request # None /\ UNCHANGED <<visited, cur, run, report>> /\ pc' = IF pc = "upload" THEN "check" ELSE pc
      BY <1>11, PlanAssumption DEF RetryDelayOver, Issue, runVars
    <2>2. pc' \in Writes \cup Reads /\ SameKey(pc, pc')
      BY <1>0, <2>1 DEF Writes, Reads, SameKey, AlbumWork
    <2>. QED
      BY <1>0, <2>1, <2>2, AccountedRequest
  <1>12. CASE StillUnknown \/ AlbumAmbiguous
    <2>1. \E kind \in {"failed", "indeterminate"} : RecordFailure(kind, FALSE)
      BY <1>12 DEF StillUnknown, AlbumAmbiguous, GiveUp
    <2>. QED
      BY <2>1, AccountedFailure
  <1>13. CASE AlbumStillMissing
    <2>1. CASE RetryAllowed(error)
      <3>1. pc = "relook" /\ pc' = "create" /\ UNCHANGED <<visited, cur, run, report>>
        BY <1>13, <2>1 DEF AlbumStillMissing, ClaimAndWait
      <3>2. SameKey(pc, pc') /\ pc' \in Writes \cup Reads
        BY <3>1 DEF SameKey, AlbumWork, Writes
      <3>. QED
        BY <1>0, <3>1, <3>2, AccountedRequest
    <2>2. CASE ~RetryAllowed(error)
      <3>1. \E kind \in {"failed", "indeterminate"} : RecordFailure(kind, FALSE)
        BY <1>13, <2>2 DEF AlbumStillMissing, GiveUp, UncertainKind
      <3>. QED
        BY <3>1, AccountedFailure
    <2>. QED
      BY <2>1, <2>2
  <1>14. ASSUME NEW class \in ErrorClass, RequestError(class) PROVE Accounted'
    <2>1. request # None
      BY <1>14 DEF RequestError
    <2>2. pc \in Writes \cup Reads
      BY <1>0, <2>1
    <2>3. Outcome(class) \in {"failed", "indeterminate"}
      BY <2>2 DEF Outcome, UncertainKind, Writes, Reads
    <2>4. CASE GiveUp(Outcome(class))
      BY <2>3, <2>4, AccountedFailure DEF GiveUp
    <2>5. CASE ~GiveUp(Outcome(class))
      <3>1. /\ UNCHANGED <<visited, cur, run, report>>
            /\ pc' = pc \/ (pc = "create" /\ pc' = "relook") \/ (pc = "upload" /\ pc' = "final")
        BY <1>14, <2>5 DEF RequestError, ClaimAndWait, Issue
      <3>2. SameKey(pc, pc') /\ pc' \in Writes \cup Reads
        BY <2>2, <3>1 DEF SameKey, AlbumWork, Writes, Reads
      <3>. QED
        BY <1>0, <2>1, <3>1, <3>2, AccountedRequest
    <2>. QED
      BY <2>4, <2>5
  <1>15. CASE RequestCancelled
    <2>1. CASE pc = "check"
      <3>1. report'.cancelled
        BY <1>0, <1>15, <2>1 DEF RequestCancelled, ReportType
      <3>. QED
        BY <3>1 DEF Accounted, Dirty
    <2>2. CASE pc # "check"
      <3>1. \E kind \in {"failed", "indeterminate"} : RecordFailure(kind, TRUE)
        BY <1>15, <2>2 DEF RequestCancelled
      <3>. QED
        BY <3>1, AccountedFailure
    <2>. QED
      BY <2>1, <2>2
  <1>. QED
    BY <1>1, <1>2, <1>4, <1>5, <1>6, <1>7, <1>8, <1>9, <1>10, <1>11, <1>12, <1>13, <1>14, <1>15
       DEF Next, RunStep

\* The report and the checkpoint agree in every state of a run.
THEOREM ReportInvariance == Spec => []RInv
  <1>1. Init => RInv
    BY DEF Init, RInv, ReportMatchesJournal
  <1>2. IInv /\ RInv /\ [Next]_vars => RInv'
    BY CountStep, AccountedStep DEF RInv
  <1>. QED
    BY <1>1, <1>2, Invariance, PTL DEF Spec

\* The counters of durable effects are what the checkpoint gained in the run,
\* and a report without failure, doubt or cancellation is one of a complete
\* plan (ImportApplyReport).
THEOREM ReportsAreTrue == Spec => []ReportIsTrue
  <1>1. ASSUME IInv, RInv PROVE ReportIsTrue
    <2>1. ReportMatchesJournal
      BY <1>1 DEF RInv
    <2>2. CleanReportMeansComplete
      <3>. SUFFICES ASSUME run = "reported", report.failed = 0, report.indeterminate = 0, ~report.cancelled
                    PROVE  AllDone
        BY DEF CleanReportMeansComplete
      <3>1. ~Dirty
        BY DEF Dirty
      <3>2. (\A op \in Ops : OperationDone(op)) /\ (\A a \in Albums : AlbumDoneAll(a))
        BY <1>1, <3>1 DEF RInv, Accounted, Through
      <3>3. \A a \in Albums : AlbumRef(journal, a) # None
        <4>1. DOMAIN albums \subseteq Nat /\ None \notin Nat
          BY <1>1, PlanAssumption DEF IInv, TypeOK
        <4>. QED
          BY <1>1, <3>2, <4>1, ReadsJournal DEF IInv, JournalTrue, AlbumTrue, AlbumDoneAll
      <3>. QED
        BY <1>1, <3>2, <3>3, ReadsJournal, PlanAssumption DEF IInv, AllDone, OperationDone, AlbumDoneAll
    <2>. QED
      BY <2>1, <2>2 DEF ReportIsTrue
  <1>. QED
    BY <1>1, Invariance, ReportInvariance, PTL
=============================================================================
