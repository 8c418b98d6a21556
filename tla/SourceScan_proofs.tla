------------------------- MODULE SourceScan_proofs --------------------------
(***************************************************************************)
(* Proofs about SourceScan and Reconcile, for every source tree, every set *)
(* of archive entries and any number of changes during the scan.           *)
(***************************************************************************)
EXTENDS SourceScan, FiniteSetTheorems, SequenceTheorems, TLAPS

-----------------------------------------------------------------------------
(* The inductive invariant *)

\* A ScanState.
IsScan(state) == state = [media |-> state.media, sidecars |-> state.sidecars,
                          warnings |-> state.warnings, errors |-> state.errors]

Found == found.media \cup found.sidecars

\* The findings: a media file or a sidecar is what process_regular_file or
\* merge_entry makes of a file, and there is one for each file.
FoundOK ==
    /\ IsScan(found)
    /\ IsFiniteSet(found.media) /\ IsFiniteSet(found.sidecars)
    /\ \A m \in found.media : /\ m = DiscoveredMedia(m.native, m.path, m.len, m.digest)
                              /\ m.path.name.ext \in Images \cup Videos
    /\ \A s \in found.sidecars : /\ s = DiscoveredSidecar(s.native, s.path, s.len, s.digest)
                                 /\ s.path.name.ext \in {"json", "xmp"}
    /\ \A x \in Found : x.len \in Nat /\ x.path \in Portable
    /\ \A x, y \in Found : x.path = y.path /\ x.native = y.native => x = y

\* Versions: a later write has a later time and a later file another number.
WorldOK ==
    /\ changes \in Nat
    /\ disk \in [Natives -> Version \cup {None}]
    /\ past \in [Natives -> SUBSET AllContents]
    /\ \A n \in Natives : disk[n] # None =>
          /\ disk[n].content \in past[n]
          /\ disk[n].mtime <= changes /\ disk[n].ino <= changes

\* What a file that is open was when it was opened, unless it is now newer.
ReadOK ==
    phase = "read" =>
        /\ cur = [native |-> cur.native, before |-> cur.before, opened |-> cur.opened,
                  handle |-> cur.handle, read |-> cur.read]
        /\ cur.opened \in Version /\ cur.handle \in Version /\ cur.read \in Seq(AllContents)
        /\ cur.opened.content \in past[cur.native]
        /\ cur.handle.mtime <= changes /\ cur.handle.ino <= changes
        /\ \/ cur.handle.mtime > cur.opened.mtime
           \/ /\ cur.handle = cur.opened
              /\ \A i \in 1..Len(cur.read) : cur.read[i] = cur.opened.content

\* The walk comes to every file once.
Passed(n) == n \in Natives /\ n \notin listed /\ n.path.dir \notin toList

Whole(x) == \/ diagnostic("SOURCE_CHANGED", {x.path}) \in found.errors
            \/ \E c \in past[x.native] : x.digest = Blocks(c)

Known(path) == media_kind(path) # None \/ path.name.ext \in {"json", "xmp"}

WalkOK ==
    ~archived =>
        /\ listed \subseteq Natives
        /\ \A n \in listed : n.path.dir \notin toList
        /\ phase \in {"open", "read"} =>
              /\ Passed(cur.native) /\ \A x \in Found : x.native # cur.native
              /\ Known(cur.native.path)
        /\ \A x \in Found : Passed(x.native) /\ x.path = x.native.path /\ Whole(x)

\* The copies of a path that were read, and what became of them.
Copies(p) == {Identity(e) : e \in {x \in Entries : got[x] > 0 /\ Merged(x) /\ x.path = p}}

Conflicting == [digest |-> "conflict"]

MergeOK(p) ==
    \/ /\ seen[p] = None /\ Copies(p) = {}
       /\ diagnostic("ARCHIVE_CONFLICT", {p}) \notin found.errors
    \/ /\ seen[p] # None /\ Copies(p) = {seen[p]} /\ seen[p] # Conflicting
       /\ \E x \in Found : x.path = p /\ x.digest = seen[p].digest
       /\ diagnostic("ARCHIVE_CONFLICT", {p}) \notin found.errors
    \/ /\ seen[p] = Conflicting /\ \E i, j \in Copies(p) : i # j
       /\ \A x \in Found : x.path # p
       /\ diagnostic("ARCHIVE_CONFLICT", {p}) \in found.errors

ArchiveOK ==
    /\ got \in [Entries -> Nat] /\ seen = [p \in Portable |-> seen[p]]
    /\ archived =>
        /\ listed = {} /\ phase \notin {"open", "read"}
        /\ \A p \in Portable : MergeOK(p)
        /\ \A x \in Found : /\ x.native = None /\ Copies(x.path) # {}
                            /\ \A y \in Found : x.path = y.path => x = y

\* A plan is made last.
PhaseOK == phase \in {"list", "open", "read", "reconcile"} => plan = None

ScanOK == FoundOK /\ WorldOK /\ ReadOK /\ WalkOK /\ ArchiveOK /\ PhaseOK

-----------------------------------------------------------------------------
(* Helpers *)

\* A diagnostic adds nothing to the findings and takes no diagnostic away.
LEMMA Reported ==
  ASSUME IsScan(found), NEW severity \in {"errors", "warnings"}, NEW rule, NEW path,
         Report(severity, rule, path)
  PROVE  /\ IsScan(found') /\ UNCHANGED <<found.media, found.sidecars>>
         /\ found.errors \subseteq found'.errors
         /\ found'.errors \subseteq found.errors \cup {diagnostic(rule, {path})}
  <1>1. CASE severity = "errors"
    BY <1>1 DEF IsScan, Report
  <1>2. CASE severity = "warnings"
    BY <1>2 DEF IsScan, Report
  <1>. QED
    BY <1>1, <1>2

\* The findings stay as they are when only diagnostics are added.
LEMMA SameFindings ==
  ASSUME FoundOK, IsScan(found'), UNCHANGED <<found.media, found.sidecars>>
  PROVE  FoundOK'
  BY DEF FoundOK, Found

\* A file is whole for good: contents and diagnostics are only added.
LEMMA StaysWhole ==
  ASSUME NEW x, Whole(x), found.errors \subseteq found'.errors,
         past[x.native] \subseteq past'[x.native]
  PROVE  Whole(x)'
  BY DEF Whole

\* Steps from the end of the scan on, and the ways to end it.
LEMMA QuietStep ==
  ASSUME ScanOK, UNCHANGED <<inputs, world, walk, found>>, phase' \notin {"open", "read"},
         phase' \in {"list", "reconcile"} => plan' = None
  PROVE  ScanOK'
  <1>0. FoundOK /\ WorldOK /\ ReadOK /\ WalkOK /\ ArchiveOK
    BY DEF ScanOK
  <1>1. /\ UNCHANGED <<source, archived, disk, past, changes, toList, listed, cur, seen, got, found>>
    BY DEF inputs, world, walk
  <1>2. FoundOK' /\ WorldOK'
    BY <1>0, <1>1 DEF FoundOK, Found, WorldOK
  <1>3. ReadOK'
    BY DEF ReadOK
  <1>4. WalkOK'
    BY <1>0, <1>1 DEF WalkOK, Found, Passed, Whole
  <1>5. ArchiveOK'
    BY <1>0, <1>1 DEF ArchiveOK, Found, MergeOK, Copies, Identity, Merged, InLayout, Noise
  <1>. QED
    BY <1>2, <1>3, <1>4, <1>5 DEF ScanOK, PhaseOK

-----------------------------------------------------------------------------
(* The scan keeps the invariant *)

\* Nothing is found, open or read at first.
LEMMA ScanInit == ASSUME Init PROVE ScanOK
  <1>1. /\ found.media = {} /\ found.sidecars = {} /\ IsScan(found) /\ Found = {}
        /\ found.errors = {}
    BY DEF Init, ScanState, IsScan, Found
  <1>2. FoundOK
    BY <1>1, FS_EmptySet DEF FoundOK
  <1>3. WorldOK
    <2>1. PICK present \in SUBSET Natives :
            disk = [n \in Natives |-> IF n \in present
                      THEN [ino |-> 0, mtime |-> 0, content |-> n.content] ELSE None]
      BY DEF Init
    <2>2. \A n \in Natives : n.content \in AllContents
      BY DEF AllContents
    <2>3. \A n \in Natives : [ino |-> 0, mtime |-> 0, content |-> n.content] \in Version
      BY <2>2 DEF Version
    <2>4. disk \in [Natives -> Version \cup {None}]
      BY <2>1, <2>3
    <2>5. \A n \in Natives : disk[n] # None =>
            disk[n].content = n.content /\ disk[n].mtime = 0 /\ disk[n].ino = 0
      BY <2>1
    <2>6. changes = 0 /\ past = [n \in Natives |-> IF disk[n] = None THEN {} ELSE {n.content}]
      BY DEF Init
    <2>. QED
      BY <2>2, <2>4, <2>5, <2>6 DEF WorldOK
  <1>4. ReadOK /\ WalkOK /\ PhaseOK
    BY <1>1 DEF Init, ReadOK, WalkOK, PhaseOK
  <1>5. ArchiveOK
    <2>1. got = [e \in Entries |-> 0] /\ seen = [p \in Portable |-> None]
          /\ listed = {} /\ phase = "list"
      BY DEF Init
    <2>2. \A e \in Entries : ~(got[e] > 0)
      BY <2>1
    <2>3. \A p : Copies(p) = {}
      BY <2>2 DEF Copies
    <2>. QED
      BY <1>1, <2>1, <2>3 DEF ArchiveOK, MergeOK
  <1>. QED
    BY <1>2, <1>3, <1>4, <1>5 DEF ScanOK

\* Another program writes to a file, replaces it or removes it.
LEMMA StepWriter == ASSUME ScanOK, WriterChanges PROVE ScanOK'
  <1>0. FoundOK /\ WorldOK /\ ReadOK /\ WalkOK /\ ArchiveOK /\ PhaseOK
    BY DEF ScanOK
  <1>1. PICK n \in Natives, c \in Contents :
          /\ disk[n] # None
          /\ \/ Change(n, [disk[n] EXCEPT !.mtime = changes + 1, !.content = c])
             \/ Change(n, [ino |-> changes + 1, mtime |-> 0, content |-> c])
             \/ Change(n, None)
    BY DEF WriterChanges
  <1>2. PICK v \in Version \cup {None} :
          /\ Change(n, v)
          /\ v # None => /\ v.mtime <= changes + 1 /\ v.ino <= changes + 1
                         /\ v.ino = changes + 1 \/ v.mtime = changes + 1
    <2>1. c \in AllContents /\ disk[n] \in Version /\ changes \in Nat /\ disk[n].ino <= changes
      BY <1>0, <1>1 DEF AllContents, WorldOK
    <2>2. CASE Change(n, [disk[n] EXCEPT !.mtime = changes + 1, !.content = c])
      <3>. DEFINE v == [disk[n] EXCEPT !.mtime = changes + 1, !.content = c]
      <3>1. \A t \in Nat : LET w == [disk[n] EXCEPT !.mtime = t, !.content = c]
                          IN w \in Version /\ w.mtime = t /\ w.ino = disk[n].ino
        BY <2>1 DEF Version
      <3>2. disk[n].ino \in Nat /\ changes + 1 \in Nat
        BY <2>1 DEF Version
      <3>3. v \in Version /\ v.mtime = changes + 1 /\ v.ino = disk[n].ino
        BY <3>1, <3>2
      <3>4. Change(n, v)
        BY <2>2
      <3>. HIDE DEF v
      <3>. QED
        BY <2>1, <3>2, <3>3, <3>4
    <2>3. CASE Change(n, [ino |-> changes + 1, mtime |-> 0, content |-> c])
      <3>. DEFINE v == [ino |-> changes + 1, mtime |-> 0, content |-> c]
      <3>1. v \in Version /\ v.mtime = 0 /\ v.ino = changes + 1
        BY <2>1 DEF Version
      <3>. HIDE DEF v
      <3>. QED
        BY <2>1, <2>3, <3>1 DEF v
    <2>. QED
      BY <1>1, <2>2, <2>3
  <1>3. /\ ~archived /\ phase # "done" /\ changes' = changes + 1
        /\ disk' = [disk EXCEPT ![n] = v]
        /\ past' = [past EXCEPT ![n] = @ \cup (IF v = None THEN {} ELSE {v.content})]
        /\ cur' = IF cur.native = n /\ phase = "read" /\ v # None
                     /\ disk[n] # None /\ v.ino = cur.handle.ino
                  THEN [cur EXCEPT !.handle = v] ELSE cur
        /\ UNCHANGED <<source, archived, phase, toList, listed, found, seen, got, plan>>
    BY <1>2 DEF Change, inputs
  <1>4. changes \in Nat /\ changes' \in Nat /\ changes <= changes'
    BY <1>0, <1>3 DEF WorldOK
  <1>5. \A k \in Natives : past[k] \subseteq past'[k]
    BY <1>0, <1>3 DEF WorldOK
  <1>6. WorldOK'
    <2>1. v # None => v.content \in AllContents
      BY DEF Version
    <2>2. disk' \in [Natives -> Version \cup {None}]
      BY <1>0, <1>3 DEF WorldOK
    <2>3. past' \in [Natives -> SUBSET AllContents]
      BY <1>0, <1>3, <2>1 DEF WorldOK
    <2>4. ASSUME NEW k \in Natives, disk'[k] # None
          PROVE  /\ disk'[k].content \in past'[k]
                 /\ disk'[k].mtime <= changes' /\ disk'[k].ino <= changes'
      <3>1. CASE k = n
        <4>1. disk'[k] = v /\ v # None
          BY <1>0, <1>3, <2>4, <3>1 DEF WorldOK
        <4>2. v.content \in past'[k]
          BY <1>0, <1>3, <3>1, <4>1 DEF WorldOK
        <4>. QED
          BY <1>2, <1>3, <4>1, <4>2
      <3>2. CASE k # n
        <4>1. disk'[k] = disk[k] /\ past'[k] = past[k]
          BY <1>0, <1>3, <3>2 DEF WorldOK
        <4>2. disk[k] \in Version
          BY <1>0, <2>4, <4>1 DEF WorldOK
        <4>3. disk[k].mtime \in Nat /\ disk[k].ino \in Nat
          BY <4>2 DEF Version
        <4>. QED
          BY <1>0, <1>3, <1>4, <2>4, <4>1, <4>3 DEF WorldOK
      <3>. QED
        BY <3>1, <3>2
    <2>. QED
      BY <1>4, <2>2, <2>3, <2>4 DEF WorldOK
  <1>7. UNCHANGED cur.native
    BY <1>0, <1>3 DEF ReadOK
  <1>8. ReadOK'
    <2>1. CASE phase # "read"
      BY <1>3, <2>1 DEF ReadOK
    <2>2. CASE phase = "read"
      <3>1. /\ cur = [native |-> cur.native, before |-> cur.before, opened |-> cur.opened,
                      handle |-> cur.handle, read |-> cur.read]
            /\ cur.opened \in Version /\ cur.handle \in Version /\ cur.read \in Seq(AllContents)
            /\ cur.opened.content \in past[cur.native]
            /\ cur.handle.mtime <= changes /\ cur.handle.ino <= changes
            /\ \/ cur.handle.mtime > cur.opened.mtime
               \/ /\ cur.handle = cur.opened
                  /\ \A i \in 1..Len(cur.read) : cur.read[i] = cur.opened.content
        BY <1>0, <2>2 DEF ReadOK
      <3>2. /\ cur.handle.mtime \in Nat /\ cur.handle.ino \in Nat /\ cur.opened.mtime \in Nat
        BY <3>1 DEF Version
      <3>3. cur.native \in Natives
        BY <1>0, <1>3, <2>2 DEF WalkOK, Passed
      <3>4. cur.opened.content \in past'[cur.native]
        BY <1>5, <3>1, <3>3
      <3>5. CASE cur' = cur
        BY <1>3, <1>4, <3>1, <3>2, <3>4, <3>5 DEF ReadOK
      <3>6. CASE cur' # cur
        <4>1. v # None /\ v.ino = cur.handle.ino /\ cur' = [cur EXCEPT !.handle = v]
          BY <1>3, <3>6
        <4>2. v \in Version /\ v.mtime <= changes' /\ v.ino <= changes'
          BY <1>2, <1>3, <4>1
        <4>3. v.mtime = changes + 1
          BY <1>2, <1>4, <3>1, <3>2, <4>1
        <4>4. v.mtime > cur.opened.mtime
          BY <1>4, <3>1, <3>2, <4>3
        <4>5. cur' = [native |-> cur.native, before |-> cur.before, opened |-> cur.opened,
                      handle |-> v, read |-> cur.read]
          BY <3>1, <4>1
        <4>. QED
          BY <3>1, <3>4, <4>2, <4>4, <4>5 DEF ReadOK
      <3>. QED
        BY <3>5, <3>6
    <2>. QED
      BY <2>1, <2>2
  <1>9. FoundOK' /\ PhaseOK'
    BY <1>0, <1>3 DEF FoundOK, Found, PhaseOK
  <1>10. WalkOK'
    <2>1. \A x \in Found : x.native \in Natives /\ Whole(x)
      BY <1>0, <1>3 DEF WalkOK, Passed
    <2>2. \A x \in Found : Whole(x)'
      BY <1>3, <1>5, <2>1, StaysWhole
    <2>. QED
      BY <1>0, <1>3, <1>7, <2>2 DEF WalkOK, Found, Passed
  <1>11. ArchiveOK'
    BY <1>0, <1>3 DEF ArchiveOK
  <1>. QED
    BY <1>6, <1>8, <1>9, <1>10, <1>11 DEF ScanOK

\* A step of the walk that finds nothing: directories and entries are only
\* taken off, and the file at hand is one that was not found yet.
LEMMA WalkStep ==
  ASSUME ScanOK, ~archived, UNCHANGED <<source, archived, disk, past, seen, got, plan>>,
         changes' \in Nat, changes <= changes',
         IsScan(found'), UNCHANGED <<found.media, found.sidecars>>,
         found.errors \subseteq found'.errors,
         listed' \subseteq Natives, toList' \subseteq toList,
         \A n \in listed' : /\ n.path.dir \notin toList'
                            /\ n \in listed \/ n.path.dir \in toList,
         phase \in {"list", "open", "read"}, phase' \in {"list", "open", "read"},
         ReadOK',
         phase' \in {"open", "read"} =>
            /\ cur'.native \in Natives /\ cur'.native \notin listed'
            /\ cur'.native.path.dir \notin toList'
            /\ \A x \in Found : x.native # cur'.native
            /\ Known(cur'.native.path)
  PROVE  ScanOK'
  <1>0. FoundOK /\ WorldOK /\ WalkOK /\ ArchiveOK /\ PhaseOK
    BY DEF ScanOK
  <1>1. FoundOK' /\ UNCHANGED Found
    BY <1>0, SameFindings DEF Found
  <1>2. WorldOK'
    <2>1. ASSUME NEW n \in Natives, disk[n] # None
          PROVE  disk[n].mtime <= changes' /\ disk[n].ino <= changes'
      <3>1. disk[n].mtime \in Nat /\ disk[n].ino \in Nat
        BY <1>0, <2>1 DEF WorldOK, Version
      <3>. QED
        BY <1>0, <2>1, <3>1 DEF WorldOK
    <2>. QED
      BY <1>0, <2>1 DEF WorldOK
  <1>3. WalkOK'
    <2>1. \A x \in Found : Passed(x.native) /\ x.path = x.native.path /\ Whole(x)
      BY <1>0 DEF WalkOK
    <2>2. \A x \in Found : Whole(x)'
      BY <2>1, StaysWhole
    <2>3. \A x \in Found : Passed(x.native)'
      BY <2>1 DEF Passed
    <2>4. phase' \in {"open", "read"} => Passed(cur.native)'
      BY DEF Passed
    <2>. QED
      BY <1>1, <2>1, <2>2, <2>3, <2>4 DEF WalkOK
  <1>4. ArchiveOK' /\ PhaseOK'
    BY <1>0 DEF ArchiveOK, PhaseOK
  <1>. QED
    BY <1>1, <1>2, <1>3, <1>4 DEF ScanOK

\* The next directory is listed, is too large or cannot be read.
LEMMA StepListDirectory == ASSUME ScanOK, ListDirectory PROVE ScanOK'
  <1>0. FoundOK /\ WorldOK /\ WalkOK /\ PhaseOK /\ changes \in Nat /\ IsScan(found)
    BY DEF ScanOK, WorldOK, FoundOK
  <1>. DEFINE dir == CHOOSE d \in toList : TRUE
              there == {n \in Natives : disk[n] # None /\ n.path.dir = dir}
  <1>1. phase = "list" /\ ~archived /\ listed = {} /\ dir \in toList
    BY DEF ListDirectory
  <1>2. \A n \in there : n \in Natives /\ n.path.dir = dir
    OBVIOUS
  <1>3. CASE /\ toList' = toList \ {dir} /\ listed' = there
             /\ UNCHANGED <<inputs, world, phase, entriesSeen, cur, found, seen, got,
                            docs, plan, files, result>>
    <2>1. ReadOK'
      BY <1>1, <1>3 DEF ReadOK
    <2>2. UNCHANGED <<source, archived, disk, past, changes, seen, got, plan, found, phase>>
      BY <1>3 DEF inputs, world
    <2>. HIDE DEF there, dir
    <2>. QED
      BY <1>0, <1>1, <1>2, <1>3, <2>1, <2>2, WalkStep
  <1>4. CASE End("LimitExceeded")
    BY <1>4, QuietStep DEF End
  <1>5. CASE /\ changes' = changes + 1 /\ Report("errors", "UNREADABLE", dir)
             /\ toList' = toList \ {dir}
             /\ UNCHANGED <<inputs, disk, past, phase, listed, entriesSeen, cur, seen,
                            got, docs, plan, files, result>>
    <2>1. ReadOK'
      BY <1>1, <1>5 DEF ReadOK
    <2>2. UNCHANGED <<source, archived, disk, past, listed, seen, got, plan, phase>>
      BY <1>5 DEF inputs
    <2>3. /\ IsScan(found') /\ UNCHANGED <<found.media, found.sidecars>>
          /\ found.errors \subseteq found'.errors
      BY <1>0, <1>5, Reported
    <2>4. changes' \in Nat /\ changes <= changes'
      BY <1>0, <1>5
    <2>. HIDE DEF there, dir
    <2>. QED
      BY <1>0, <1>1, <1>5, <2>1, <2>2, <2>3, <2>4, WalkStep
  <1>. QED
    BY <1>3, <1>4, <1>5 DEF ListDirectory

\* A file with a known extension.
LEMMA KnownExtension ==
  ASSUME NEW path
  PROVE  /\ media_kind(path) # None => path.name.ext \in Images \cup Videos
         /\ metadata_kind(path) # None => path.name.ext \in {"json", "xmp"}
  BY DEF media_kind, metadata_kind

\* The next entry of the directory is looked at.
LEMMA StepStat == ASSUME ScanOK, Stat PROVE ScanOK'
  <1>0. FoundOK /\ WorldOK /\ WalkOK /\ ArchiveOK /\ PhaseOK /\ changes \in Nat /\ IsScan(found)
    BY DEF ScanOK, WorldOK, FoundOK
  <1>. DEFINE n == CHOOSE m \in listed : TRUE
  <1>1. phase = "list" /\ n \in listed /\ ~archived
    BY <1>0 DEF Stat, ArchiveOK
  <1>2. CASE End("LimitExceeded")
    BY <1>2, QuietStep DEF End
  <1>3. CASE /\ listed' = listed \ {n}
             /\ \/ /\ media_kind(n.path) # None \/ metadata_kind(n.path) # None
                   /\ phase' = "open" /\ cur' = [native |-> n, before |-> disk[n]]
                   /\ UNCHANGED found
                \/ /\ \/ Report("errors", "UNREADABLE", n.path)
                      \/ Report("warnings", "SKIPPED", n.path)
                      \/ UNCHANGED found
                   /\ UNCHANGED <<phase, cur>>
             /\ UNCHANGED <<inputs, world, toList, seen, got, docs, plan, files, result>>
    <2>1. UNCHANGED <<source, archived, disk, past, changes, toList, seen, got, plan>>
      BY <1>3 DEF inputs, world
    <2>2. /\ IsScan(found') /\ UNCHANGED <<found.media, found.sidecars>>
          /\ found.errors \subseteq found'.errors
      BY <1>0, <1>3, Reported
    <2>3. /\ listed \subseteq Natives
          /\ \A m \in listed : m.path.dir \notin toList
          /\ \A x \in Found : x.native \notin listed
      BY <1>0, <1>1 DEF WalkOK, Passed
    <2>4. phase' \in {"list", "open"} /\ (phase' = "open" =>
             /\ cur'.native = n
             /\ Known(n.path))
      BY <1>1, <1>3, KnownExtension DEF Known
    <2>5. ReadOK'
      BY <2>4 DEF ReadOK
    <2>. HIDE DEF n
    <2>. QED
      BY <1>0, <1>1, <1>3, <2>1, <2>2, <2>3, <2>4, <2>5, WalkStep
  <1>. QED
    BY <1>2, <1>3 DEF Stat

\* The file is opened, or is gone.
LEMMA StepOpen == ASSUME ScanOK, Open PROVE ScanOK'
  <1>0. FoundOK /\ WorldOK /\ WalkOK /\ ArchiveOK /\ PhaseOK /\ changes \in Nat /\ IsScan(found)
    BY DEF ScanOK, WorldOK, FoundOK
  <1>1. phase = "open" /\ ~archived
    BY <1>0 DEF Open, ArchiveOK
  <1>2. UNCHANGED <<source, archived, disk, past, changes, toList, listed, seen, got, plan>>
    BY DEF Open, inputs, world
  <1>3. /\ listed \subseteq Natives /\ \A m \in listed : m.path.dir \notin toList
        /\ Passed(cur.native) /\ \A x \in Found : x.native # cur.native
        /\ Known(cur.native.path)
    BY <1>0, <1>1 DEF WalkOK
  <1>4. CASE disk[cur.native] = None
    <2>1. Report("errors", "UNREADABLE", cur.native.path) /\ phase' = "list"
      BY <1>4 DEF Open
    <2>2. ReadOK'
      BY <2>1 DEF ReadOK
    <2>3. /\ IsScan(found') /\ UNCHANGED <<found.media, found.sidecars>>
          /\ found.errors \subseteq found'.errors
      BY <1>0, <2>1, Reported
    <2>. QED
      BY <1>0, <1>1, <1>2, <1>3, <2>1, <2>2, <2>3, WalkStep
  <1>5. CASE disk[cur.native] # None
    <2>. DEFINE n == cur.native
                v == disk[cur.native]
    <2>1. /\ phase' = "read" /\ UNCHANGED found
          /\ cur' = [native |-> n, before |-> cur.before, opened |-> v, handle |-> v,
                     read |-> <<>>]
      BY <1>5 DEF Open
    <2>2. v \in Version /\ v.content \in past[n] /\ v.mtime <= changes /\ v.ino <= changes
      BY <1>0, <1>3, <1>5 DEF WorldOK, Passed
    <2>3. ReadOK'
      <3>1. <<>> \in Seq(AllContents) /\ Len(<<>>) = 0 /\ 1..0 = {}
        BY EmptySeq
      <3>. HIDE DEF n, v
      <3>. QED
        BY <1>2, <2>1, <2>2, <3>1 DEF ReadOK
    <2>4. cur'.native = cur.native
      BY <2>1
    <2>. QED
      BY <1>0, <1>1, <1>2, <1>3, <2>1, <2>3, <2>4, WalkStep DEF Passed
  <1>. QED
    BY <1>4, <1>5

\* One block is read from the open file.
LEMMA StepRead == ASSUME ScanOK, Read PROVE ScanOK'
  <1>0. FoundOK /\ WorldOK /\ WalkOK /\ ArchiveOK /\ PhaseOK /\ changes \in Nat /\ IsScan(found)
    BY DEF ScanOK, WorldOK, FoundOK
  <1>1. phase = "read" /\ ~archived
    BY <1>0 DEF Read, ArchiveOK
  <1>2. /\ UNCHANGED <<source, archived, disk, past, changes, phase, toList, listed, found,
                       seen, got, plan>>
        /\ cur' = [cur EXCEPT !.read = Append(cur.read, cur.handle.content)]
    BY DEF Read, inputs, world
  <1>3. /\ cur = [native |-> cur.native, before |-> cur.before, opened |-> cur.opened,
                  handle |-> cur.handle, read |-> cur.read]
        /\ cur.opened \in Version /\ cur.handle \in Version /\ cur.read \in Seq(AllContents)
        /\ cur.opened.content \in past[cur.native]
        /\ cur.handle.mtime <= changes /\ cur.handle.ino <= changes
        /\ \/ cur.handle.mtime > cur.opened.mtime
           \/ /\ cur.handle = cur.opened
              /\ \A i \in 1..Len(cur.read) : cur.read[i] = cur.opened.content
    BY <1>1 DEF ScanOK, ReadOK
  <1>. DEFINE more == Append(cur.read, cur.handle.content)
  <1>4. /\ more \in Seq(AllContents) /\ Len(more) = Len(cur.read) + 1 /\ Len(cur.read) \in Nat
        /\ \A i \in 1..Len(cur.read) : more[i] = cur.read[i]
        /\ more[Len(cur.read) + 1] = cur.handle.content
    <2>1. cur.handle.content \in AllContents
      BY <1>3 DEF Version
    <2>. QED
      BY <1>3, <2>1, AppendProperties, LenProperties
  <1>. HIDE DEF more
  <1>5. cur' = [native |-> cur.native, before |-> cur.before, opened |-> cur.opened,
                handle |-> cur.handle, read |-> more]
    BY <1>2, <1>3 DEF more
  <1>6. cur.handle = cur.opened /\ (\A i \in 1..Len(cur.read) : cur.read[i] = cur.opened.content)
        => \A i \in 1..Len(more) : more[i] = cur.opened.content
    BY <1>4
  <1>7. ReadOK'
    <2>1. /\ cur'.native = cur.native /\ cur'.before = cur.before /\ cur'.opened = cur.opened
          /\ cur'.handle = cur.handle /\ cur'.read = more
      BY <1>5
    <2>2. cur' = [native |-> cur'.native, before |-> cur'.before, opened |-> cur'.opened,
                  handle |-> cur'.handle, read |-> cur'.read]
      BY <1>5, <2>1
    <2>3. /\ cur'.opened \in Version /\ cur'.handle \in Version /\ cur'.read \in Seq(AllContents)
          /\ cur'.opened.content \in past'[cur'.native]
          /\ cur'.handle.mtime <= changes' /\ cur'.handle.ino <= changes'
      BY <1>2, <1>3, <1>4, <2>1
    <2>4. \/ cur'.handle.mtime > cur'.opened.mtime
          \/ /\ cur'.handle = cur'.opened
             /\ \A i \in 1..Len(cur'.read) : cur'.read[i] = cur'.opened.content
      BY <1>3, <1>6, <2>1
    <2>. QED
      BY <2>2, <2>3, <2>4 DEF ReadOK
  <1>8. /\ listed \subseteq Natives /\ \A m \in listed : m.path.dir \notin toList
        /\ Passed(cur.native) /\ \A x \in Found : x.native # cur.native
        /\ Known(cur.native.path)
    BY <1>0, <1>1 DEF WalkOK
  <1>9. cur'.native = cur.native
    BY <1>5
  <1>. QED
    BY <1>0, <1>1, <1>2, <1>7, <1>8, <1>9, WalkStep DEF Passed

\* What process_regular_file and merge_entry make of a file.
MediaOf(native, path, len, digest) ==
    IF media_kind(path) # None THEN DiscoveredMedia(native, path, len, digest)
    ELSE DiscoveredSidecar(native, path, len, digest)

Joins(x, path) ==
    /\ IsScan(found')
    /\ IF media_kind(path) # None
       THEN found'.media = found.media \cup {x} /\ found'.sidecars = found.sidecars
       ELSE found'.media = found.media /\ found'.sidecars = found.sidecars \cup {x}

\* A file of a known kind joins the findings.
LEMMA Added ==
  ASSUME FoundOK, NEW native, NEW path \in Portable, Known(path), NEW len \in Nat, NEW digest,
         Joins(MediaOf(native, path, len, digest), path),
         \A y \in Found : ~(y.path = path /\ y.native = native)
  PROVE  /\ FoundOK' /\ Found' = Found \cup {MediaOf(native, path, len, digest)}
         /\ LET x == MediaOf(native, path, len, digest) IN
            x.native = native /\ x.path = path /\ x.len = len /\ x.digest = digest
  <1>. DEFINE x == MediaOf(native, path, len, digest)
  <1>1. x.native = native /\ x.path = path /\ x.len = len /\ x.digest = digest
    BY DEF MediaOf, DiscoveredMedia, DiscoveredSidecar
  <1>2. Found' = Found \cup {x}
    BY DEF Found, Joins
  <1>3. media_kind(path) # None => /\ x = DiscoveredMedia(x.native, x.path, x.len, x.digest)
                                   /\ x.path.name.ext \in Images \cup Videos
    BY <1>1, KnownExtension DEF MediaOf
  <1>4. media_kind(path) = None => /\ x = DiscoveredSidecar(x.native, x.path, x.len, x.digest)
                                   /\ x.path.name.ext \in {"json", "xmp"}
    BY <1>1 DEF MediaOf, Known
  <1>. HIDE DEF x
  <1>5. IsFiniteSet(found'.media) /\ IsFiniteSet(found'.sidecars)
    <2>1. IsFiniteSet(found.media \cup {x}) /\ IsFiniteSet(found.sidecars \cup {x})
      BY FS_AddElement DEF FoundOK
    <2>2. IsFiniteSet(found.media) /\ IsFiniteSet(found.sidecars)
      BY DEF FoundOK
    <2>. QED
      BY <2>1, <2>2 DEF Joins, x
  <1>6. \A m \in found'.media : /\ m = DiscoveredMedia(m.native, m.path, m.len, m.digest)
                                /\ m.path.name.ext \in Images \cup Videos
    BY <1>3 DEF FoundOK, Joins, x
  <1>7. \A s \in found'.sidecars : /\ s = DiscoveredSidecar(s.native, s.path, s.len, s.digest)
                                   /\ s.path.name.ext \in {"json", "xmp"}
    BY <1>4 DEF FoundOK, Joins, x
  <1>8. \A y \in Found' : y.len \in Nat /\ y.path \in Portable
    BY <1>1, <1>2 DEF FoundOK
  <1>9. \A y, z \in Found' : y.path = z.path /\ y.native = z.native => y = z
    BY <1>1, <1>2 DEF FoundOK
  <1>10. FoundOK'
    BY <1>5, <1>6, <1>7, <1>8, <1>9 DEF FoundOK, Joins
  <1>. QED
    BY <1>1, <1>2, <1>10 DEF x

\* The file is examined again: gone, changed and kept, or unchanged and whole.
LEMMA StepRecheck == ASSUME ScanOK, Recheck PROVE ScanOK'
  <1>0. /\ FoundOK /\ WorldOK /\ ReadOK /\ WalkOK /\ ArchiveOK /\ PhaseOK /\ changes \in Nat
        /\ IsScan(found)
    BY DEF ScanOK, WorldOK, FoundOK
  <1>n. PICK n, read : n = cur.native /\ read = cur.read
    OBVIOUS
  <1>. DEFINE new == MediaOf(n, n.path, Len(read), read)
  <1>1. phase = "read" /\ ~archived /\ phase' = "list"
    BY <1>0 DEF Recheck, ArchiveOK
  <1>2. UNCHANGED <<source, archived, disk, past, changes, toList, listed, seen, got, plan>>
    BY DEF Recheck, inputs, world
  <1>3. /\ listed \subseteq Natives /\ \A m \in listed : m.path.dir \notin toList
        /\ Passed(n) /\ Known(n.path)
        /\ \A x \in Found : x.native # n /\ Passed(x.native) /\ x.path = x.native.path /\ Whole(x)
    BY <1>n, <1>0, <1>1 DEF WalkOK
  <1>4. ReadOK'
    BY <1>1 DEF ReadOK
  <1>5. CASE disk[n] = None
    <2>1. Report("errors", "UNREADABLE", n.path)
      BY <1>n, <1>5 DEF Recheck
    <2>2. /\ IsScan(found') /\ UNCHANGED <<found.media, found.sidecars>>
          /\ found.errors \subseteq found'.errors
      BY <1>0, <2>1, Reported
    <2>. QED
      BY <1>0, <1>1, <1>2, <1>3, <1>4, <2>2, WalkStep
  <1>6. CASE disk[n] # None
    <2>. DEFINE errors == IF disk[n] # None /\ Changed
                          THEN {diagnostic("SOURCE_CHANGED", {n.path})} ELSE {}
    <2>1. found' = IF media_kind(n.path) # None
               THEN [found EXCEPT !.errors = @ \cup errors, !.media = @ \cup
                       {DiscoveredMedia(n, n.path, Len(cur.read), cur.read)}]
               ELSE [found EXCEPT !.errors = @ \cup errors, !.sidecars = @ \cup
                       {DiscoveredSidecar(n, n.path, Len(cur.read), cur.read)}]
      BY <1>n, <1>6 DEF Recheck
    <2>2. Changed => diagnostic("SOURCE_CHANGED", {n.path}) \in errors
      BY <1>6
    <2>. HIDE DEF errors
    <2>3. Joins(new, n.path) /\ found'.errors = found.errors \cup errors
      <3>1. CASE media_kind(n.path) # None
        BY <1>n, <1>0, <2>1, <3>1 DEF Joins, IsScan, MediaOf
      <3>2. CASE media_kind(n.path) = None
        BY <1>n, <1>0, <2>1, <3>2 DEF Joins, IsScan, MediaOf
      <3>. QED
        BY <3>1, <3>2
    <2>4. Len(read) \in Nat /\ n.path \in Portable
      BY <1>n, <1>0, <1>1, <1>3, LenProperties DEF ReadOK, Passed, Portable
    <2>5. /\ FoundOK' /\ Found' = Found \cup {new}
          /\ new.native = n /\ new.path = n.path /\ new.digest = read
      <3>1. \A y \in Found : ~(y.path = n.path /\ y.native = n)
        BY <1>3
      <3>2. PICK path \in Portable, len \in Nat : path = n.path /\ len = Len(read)
        BY <2>4
      <3>3. /\ FoundOK /\ Known(path) /\ Joins(MediaOf(n, path, len, read), path)
            /\ \A y \in Found : ~(y.path = path /\ y.native = n)
        BY <1>0, <1>3, <2>3, <3>1, <3>2
      <3>4. /\ FoundOK' /\ Found' = Found \cup {MediaOf(n, path, len, read)}
            /\ LET x == MediaOf(n, path, len, read) IN
               x.native = n /\ x.path = path /\ x.len = len /\ x.digest = read
        BY <3>3, Added
      <3>. QED
        BY <3>2, <3>4
    <2>6. ~Changed => \E c \in past[n] : read = Blocks(c)
      <3>1. /\ cur.opened \in Version /\ cur.handle \in Version /\ cur.read \in Seq(AllContents)
            /\ cur.opened.content \in past[n]
            /\ \/ cur.handle.mtime > cur.opened.mtime
               \/ /\ cur.handle = cur.opened
                  /\ \A i \in 1..Len(cur.read) : cur.read[i] = cur.opened.content
        BY <1>n, <1>0, <1>1 DEF ReadOK
      <3>2. /\ cur.handle.mtime \in Nat /\ cur.opened.mtime \in Nat
            /\ DOMAIN cur.read = 1..Len(cur.read)
            /\ cur.read = [i \in DOMAIN cur.read |-> cur.read[i]]
        BY <3>1, LenProperties DEF Version
      <3>3. ASSUME ~Changed PROVE /\ cur.handle.mtime = cur.opened.mtime
                                  /\ Len(cur.read) = LenOf[cur.opened.content]
        BY <1>n, <3>3 DEF Changed, Snapshot
      <3>4. ASSUME ~Changed PROVE cur.read = Blocks(cur.opened.content)
        <4>1. \A i \in 1..Len(cur.read) : cur.read[i] = cur.opened.content
          BY <3>1, <3>2, <3>3, <3>4
        <4>. QED
          BY <3>2, <3>3, <3>4, <4>1 DEF Blocks
      <3>. QED
        BY <1>n, <3>1, <3>4
    <2>7. WalkOK'
      <3>1. \A x \in Found : Whole(x)'
        BY <1>2, <1>3, <2>3, StaysWhole
      <3>2. (diagnostic("SOURCE_CHANGED", {n.path}) \in found'.errors
               \/ \E c \in past'[n] : read = Blocks(c))
        BY <1>2, <2>2, <2>3, <2>6
      <3>. HIDE DEF new
      <3>3. Whole(new)'
        BY <2>5, <3>2 DEF Whole
      <3>4. \A x \in Found' : Passed(x.native)' /\ x.path = x.native.path /\ Whole(x)'
        BY <1>2, <1>3, <2>5, <3>1, <3>3 DEF Passed
      <3>. QED
        BY <1>1, <1>2, <1>3, <3>4 DEF WalkOK
    <2>8. WorldOK' /\ PhaseOK'
      BY <1>0, <1>1, <1>2 DEF WorldOK, PhaseOK
    <2>9. ArchiveOK'
      BY <1>0, <1>1, <1>2 DEF ArchiveOK
    <2>. QED
      BY <1>4, <2>5, <2>7, <2>8, <2>9 DEF ScanOK
  <1>. QED
    BY <1>5, <1>6

\* The identity of an entry is a value of its own.
LEMMA IdentityFacts ==
  ASSUME NEW e \in Entries
  PROVE  /\ Identity(e) # None /\ Identity(e) # Conflicting /\ Conflicting # None
         /\ Identity(e).digest = Blocks(e.content)
         /\ LenOf[e.content] \in Nat /\ e.path \in Portable
  <1>1. e.content \in AllContents
    BY DEF AllContents
  <1>2. /\ media_kind(e.path) \in {"image", "video", None}
        /\ metadata_kind(e.path) \in {"json", "xmp", None}
    BY DEF media_kind, metadata_kind
  <1>3. \A t \in {0} \cup {x.time : x \in Entries} :
          [kind |-> <<media_kind(e.path), metadata_kind(e.path)>>,
           digest |-> Blocks(e.content), time |-> t] \in EntryIdentity
    BY <1>1, <1>2 DEF EntryIdentity
  <1>4. Identity(e) \in EntryIdentity
    BY <1>3 DEF Identity
  <1>5. "time" \in DOMAIN Identity(e) /\ DOMAIN Conflicting = {"digest"}
    BY DEF Identity, Conflicting
  <1>6. Identity(e) # Conflicting
    BY <1>5
  <1>7. Identity(e).digest = Blocks(e.content)
    BY DEF Identity
  <1>. QED
    BY <1>1, <1>4, <1>6, <1>7, ScanAssumption DEF Conflicting, Portable

\* Reading an entry adds a copy of its path, if it is merged.
LEMMA CopiesRead ==
  ASSUME ArchiveOK, NEW e \in Entries, got' = [got EXCEPT ![e] = @ + 1], UNCHANGED source
  PROVE  \A p : Copies(p)' = IF Merged(e) /\ p = e.path THEN Copies(p) \cup {Identity(e)}
                             ELSE Copies(p)
  <1>1. /\ \A x \in Entries : x # e => (got'[x] > 0 <=> got[x] > 0)
        /\ got'[e] > 0
    <2>1. got[e] \in Nat /\ got'[e] = got[e] + 1 /\ \A x \in Entries : x # e => got'[x] = got[x]
      BY DEF ArchiveOK
    <2>. QED
      BY <2>1
  <1>2. \A x \in Entries : (Merged(x)' <=> Merged(x)) /\ Identity(x)' = Identity(x)
    BY DEF Merged, Identity, Noise, InLayout
  <1>. QED
    BY <1>1, <1>2 DEF Copies

\* Findings are taken out.
LEMMA Removed ==
  ASSUME FoundOK, IsScan(found'), found'.media \subseteq found.media,
         found'.sidecars \subseteq found.sidecars
  PROVE  FoundOK'
  <1>1. IsFiniteSet(found'.media) /\ IsFiniteSet(found'.sidecars)
    BY FS_Subset DEF FoundOK
  <1>. QED
    BY <1>1 DEF FoundOK, Found

\* The next entry of a part is read and merged.
LEMMA StepReadEntry == ASSUME ScanOK, NEW e \in Entries, ReadEntry(e) PROVE ScanOK'
  <1>0. /\ FoundOK /\ WorldOK /\ ReadOK /\ WalkOK /\ ArchiveOK /\ PhaseOK /\ IsScan(found)
    BY DEF ScanOK, FoundOK
  <1>. DEFINE p == e.path
  <1>1. /\ phase = "list" /\ archived
        /\ got' = [got EXCEPT ![e] = @ + 1]
        /\ UNCHANGED <<source, archived, disk, past, changes, phase, toList, listed, cur, plan>>
        /\ IF Merged(e) THEN merge_entry(e)
           ELSE UNCHANGED seen /\ (UNCHANGED found \/ Report("warnings", "SKIPPED", p))
    BY DEF ReadEntry, inputs, world, Merged
  <1>2. got' \in [Entries -> Nat]
    BY <1>0, <1>1 DEF ArchiveOK
  <1>3. \A q : Copies(q)' = IF Merged(e) /\ q = p THEN Copies(q) \cup {Identity(e)} ELSE Copies(q)
    BY <1>0, <1>1, CopiesRead
  <1>4. WorldOK' /\ ReadOK' /\ WalkOK' /\ PhaseOK'
    BY <1>0, <1>1 DEF WorldOK, ReadOK, WalkOK, PhaseOK
  <1>5. /\ listed = {} /\ \A q \in Portable : MergeOK(q)
        /\ seen = [q \in Portable |-> seen[q]]
        /\ \A x \in Found : /\ x.native = None /\ Copies(x.path) # {}
                            /\ \A y \in Found : x.path = y.path => x = y
    BY <1>0, <1>1 DEF ArchiveOK
  <1>6. SUFFICES /\ FoundOK'
                 /\ seen' = [q \in Portable |-> seen'[q]]
                 /\ \A q \in Portable : MergeOK(q)'
                 /\ \A x \in Found' : /\ x.native = None /\ Copies(x.path)' # {}
                                      /\ \A y \in Found' : x.path = y.path => x = y
    BY <1>1, <1>2, <1>4, <1>5 DEF ScanOK, ArchiveOK
  <1>7. p \in Portable /\ MergeOK(p)
    BY <1>5, IdentityFacts
  <1>8. CASE UNCHANGED <<seen, found.media, found.sidecars, found.errors>> /\ IsScan(found')
             /\ \A q : Copies(q)' = Copies(q)
    <2>1. FoundOK' /\ Found' = Found
      BY <1>0, <1>8, SameFindings DEF Found
    <2>2. \A q \in Portable : MergeOK(q)'
      BY <1>5, <1>8, <2>1 DEF MergeOK
    <2>. QED
      BY <1>5, <1>8, <2>1, <2>2
  <1>9. CASE ~Merged(e)
    <2>1. UNCHANGED <<seen, found.media, found.sidecars, found.errors>> /\ IsScan(found')
      BY <1>0, <1>1, <1>9 DEF Report, IsScan
    <2>. QED
      BY <1>3, <1>8, <1>9, <2>1
  <1>10. CASE Merged(e) /\ seen[p] # None /\ seen[p] = Identity(e)
    <2>1. UNCHANGED seen /\ Report("warnings", "ARCHIVE_DUPLICATE", p)
      BY <1>1, <1>10 DEF merge_entry
    <2>2. UNCHANGED <<found.media, found.sidecars, found.errors>> /\ IsScan(found')
      BY <1>0, <2>1 DEF Report, IsScan
    <2>3. Copies(p) = {Identity(e)}
      BY <1>7, <1>10, IdentityFacts DEF MergeOK
    <2>. QED
      BY <1>3, <1>8, <2>1, <2>2, <2>3
  <1>11. CASE Merged(e) /\ seen[p] = None
    <2>. DEFINE new == MediaOf(None, p, LenOf[e.content], Blocks(e.content))
    <2>1. /\ seen' = [seen EXCEPT ![p] = Identity(e)]
          /\ found' = IF media_kind(p) # None
               THEN [found EXCEPT !.media = @ \cup
                       {DiscoveredMedia(None, p, LenOf[e.content], Blocks(e.content))}]
               ELSE [found EXCEPT !.sidecars = @ \cup
                       {DiscoveredSidecar(None, p, LenOf[e.content], Blocks(e.content))}]
      BY <1>1, <1>11 DEF merge_entry
    <2>2. Joins(new, p) /\ UNCHANGED found.errors
      <3>1. CASE media_kind(p) # None
        BY <1>0, <2>1, <3>1 DEF Joins, IsScan, MediaOf
      <3>2. CASE media_kind(p) = None
        BY <1>0, <2>1, <3>2 DEF Joins, IsScan, MediaOf
      <3>. QED
        BY <3>1, <3>2
    <2>3. Copies(p) = {} /\ diagnostic("ARCHIVE_CONFLICT", {p}) \notin found.errors
      BY <1>7, <1>11, IdentityFacts DEF MergeOK
    <2>4. \A y \in Found : y.path # p
      BY <1>5, <2>3
    <2>5. Known(p)
      BY <1>11, KnownExtension DEF Merged, Known
    <2>6. /\ FoundOK' /\ Found' = Found \cup {new}
          /\ new.native = None /\ new.path = p /\ new.digest = Blocks(e.content)
      <3>1. PICK len, digest : len \in Nat /\ len = LenOf[e.content] /\ digest = Blocks(e.content)
        BY IdentityFacts
      <3>2. /\ FoundOK' /\ Found' = Found \cup {MediaOf(None, p, len, digest)}
            /\ LET x == MediaOf(None, p, len, digest) IN
               x.native = None /\ x.path = p /\ x.len = len /\ x.digest = digest
        <4>1. /\ Joins(MediaOf(None, p, len, digest), p)
              /\ \A y \in Found : ~(y.path = p /\ y.native = None)
          BY <2>2, <2>4, <3>1
        <4>2. len \in Nat
          BY <3>1
        <4>. HIDE DEF p
        <4>. QED
          BY <1>0, <1>7, <2>5, <4>1, <4>2, Added
      <3>. QED
        BY <3>1, <3>2
    <2>7. /\ seen' = [q \in Portable |-> seen'[q]]
          /\ seen'[p] = Identity(e) /\ \A q \in Portable : q # p => seen'[q] = seen[q]
      BY <1>5, <1>7, <2>1
    <2>8. Copies(p)' = {Identity(e)} /\ \A q : q # p => Copies(q)' = Copies(q)
      BY <1>3, <1>11, <2>3
    <2>. HIDE DEF p, new
    <2>9. MergeOK(p)'
      BY <2>2, <2>3, <2>6, <2>7, <2>8, IdentityFacts DEF MergeOK
    <2>10. \A q \in Portable : q # p => MergeOK(q)'
      BY <1>5, <2>2, <2>6, <2>7, <2>8 DEF MergeOK
    <2>11. \A x \in Found' : /\ x.native = None /\ Copies(x.path)' # {}
                             /\ \A y \in Found' : x.path = y.path => x = y
      BY <1>5, <2>4, <2>6, <2>8
    <2>. QED
      BY <2>6, <2>7, <2>9, <2>10, <2>11
  <1>12. CASE Merged(e) /\ seen[p] # None /\ seen[p] # Identity(e)
    <2>1. /\ seen' = [seen EXCEPT ![p] = Conflicting]
          /\ found' = [found EXCEPT !.media = {m \in @ : m.path # p},
                                    !.sidecars = {s \in @ : s.path # p},
                                    !.errors = @ \cup {diagnostic("ARCHIVE_CONFLICT", {p})}]
      BY <1>1, <1>12 DEF merge_entry, Conflict, Conflicting
    <2>2. /\ IsScan(found')
          /\ found'.media = {m \in found.media : m.path # p}
          /\ found'.sidecars = {s \in found.sidecars : s.path # p}
          /\ found'.errors = found.errors \cup {diagnostic("ARCHIVE_CONFLICT", {p})}
      BY <1>0, <2>1 DEF IsScan
    <2>3. FoundOK' /\ Found' = {x \in Found : x.path # p}
      BY <1>0, <2>2, Removed DEF Found
    <2>4. \E i, j \in Copies(p)' : i # j
      BY <1>3, <1>7, <1>12, IdentityFacts DEF MergeOK
    <2>5. /\ seen' = [q \in Portable |-> seen'[q]]
          /\ seen'[p] = Conflicting /\ \A q \in Portable : q # p => seen'[q] = seen[q]
      BY <1>5, <1>7, <2>1
    <2>6. \A q : q # p => Copies(q)' = Copies(q)
      BY <1>3
    <2>7. \A q : q # p => (diagnostic("ARCHIVE_CONFLICT", {q}) \in found'.errors
                             <=> diagnostic("ARCHIVE_CONFLICT", {q}) \in found.errors)
      BY <2>2 DEF diagnostic
    <2>. HIDE DEF p
    <2>8. MergeOK(p)'
      BY <2>2, <2>3, <2>4, <2>5 DEF MergeOK
    <2>9. \A q \in Portable : q # p => MergeOK(q)'
      <3>1. SUFFICES ASSUME NEW q \in Portable, q # p PROVE MergeOK(q)'
        OBVIOUS
      <3>2. MergeOK(q) /\ seen'[q] = seen[q] /\ Copies(q)' = Copies(q)
        BY <1>5, <2>5, <2>6, <3>1
      <3>3. \A x : x \in Found' /\ x.path = q <=> x \in Found /\ x.path = q
        BY <2>3, <3>1
      <3>4. diagnostic("ARCHIVE_CONFLICT", {q}) \in found'.errors
              <=> diagnostic("ARCHIVE_CONFLICT", {q}) \in found.errors
        BY <2>7, <3>1
      <3>. QED
        BY <3>2, <3>3, <3>4 DEF MergeOK
    <2>10. \A x \in Found' : /\ x.native = None /\ Copies(x.path)' # {}
                             /\ \A y \in Found' : x.path = y.path => x = y
      BY <1>5, <2>3, <2>6
    <2>. QED
      BY <2>3, <2>5, <2>8, <2>9, <2>10
  <1>. QED
    BY <1>9, <1>10, <1>11, <1>12

\* Every step keeps the invariant of the scan.
LEMMA ScanStep == ASSUME ScanOK, [Next]_vars PROVE ScanOK'
  <1>1. CASE WriterChanges
    BY <1>1, StepWriter
  <1>2. CASE ListDirectory
    BY <1>2, StepListDirectory
  <1>3. CASE Stat
    BY <1>3, StepStat
  <1>4. CASE Open
    BY <1>4, StepOpen
  <1>5. CASE Read
    BY <1>5, StepRead
  <1>6. CASE Recheck
    BY <1>6, StepRecheck
  <1>7. CASE \E e \in Entries : ReadEntry(e)
    BY <1>7, StepReadEntry
  <1>8. CASE ScanFails
    BY <1>8, QuietStep
    DEF ScanFails, TakeoutPartRefused, PartRefused, Cancelled, IniRefused, End
  <1>9. CASE ScanOver
    <2>1. phase = "list" => plan = None
      BY DEF ScanOK, PhaseOK
    <2>. QED
      BY <1>9, <2>1, QuietStep DEF ScanOver, End
  <1>10. CASE ParseSidecar
    <2>1. phase = "reconcile" => plan = None
      BY DEF ScanOK, PhaseOK
    <2>. QED
      BY <1>10, <2>1, QuietStep DEF ParseSidecar
  <1>11. CASE Finish
    BY <1>11, QuietStep DEF Finish
  <1>12. CASE Create
    BY <1>12, QuietStep DEF Create
  <1>13. CASE UNCHANGED vars
    <2>1. FoundOK' /\ WorldOK' /\ PhaseOK'
      BY <1>13 DEF ScanOK, FoundOK, Found, WorldOK, PhaseOK, vars
    <2>2. ReadOK' /\ WalkOK'
      BY <1>13 DEF ScanOK, ReadOK, WalkOK, Found, Passed, Whole, vars
    <2>3. ArchiveOK'
      BY <1>13 DEF ScanOK, ArchiveOK, Found, MergeOK, Copies, Identity, Merged, InLayout, Noise, vars
    <2>. QED
      BY <2>1, <2>2, <2>3 DEF ScanOK
  <1>. QED
    BY <1>1, <1>2, <1>3, <1>4, <1>5, <1>6, <1>7, <1>8, <1>9, <1>10, <1>11, <1>12, <1>13
    DEF Next

\* The findings are sound at every moment of a scan, whatever other programs
\* do to the files meanwhile.
THEOREM ScanInvariance == Spec => []ScanOK
  BY ScanInit, ScanStep, PTL DEF Spec

-----------------------------------------------------------------------------
(* Archives in any order *)

\* A set with one element, by its cardinality.
LEMMA CardinalityOne ==
  ASSUME NEW S, IsFiniteSet(S)
  PROVE  /\ Cardinality(S) = 1 <=> \E x : S = {x}
         /\ Cardinality(S) > 1 <=> \E x, y \in S : x # y
  <1>1. Cardinality(S) = 1 <=> \E x : S = {x}
    BY FS_Singleton
  <1>2. Cardinality(S) \in Nat /\ (Cardinality(S) = 0 <=> S = {})
    BY FS_CardinalityType, FS_EmptySet
  <1>3. Cardinality(S) > 1 <=> S # {} /\ ~\E x : S = {x}
    BY <1>1, <1>2
  <1>4. (S # {} /\ ~\E x : S = {x}) <=> \E x, y \in S : x # y
    OBVIOUS
  <1>. QED
    BY <1>1, <1>3, <1>4

\* However merge_entry meets the parts, the findings are the paths whose copies
\* are all alike, and the conflicts are the others.
THEOREM MergesAreOrderFree == Spec => []MergeIsOrderFree
  <1>1. ASSUME ScanOK PROVE MergeIsOrderFree
    <2>. SUFFICES ASSUME archived PROVE MergeIsOrderFree
      BY DEF MergeIsOrderFree
    <2>. DEFINE read == {e \in Entries : got[e] > 0 /\ Merged(e)}
                copies(p) == {Identity(e) : e \in {x \in read : x.path = p}}
                paths == {e.path : e \in read}
    <2>1. /\ \A p \in Portable : MergeOK(p)
          /\ \A x \in Found : x.path \in Portable /\ Copies(x.path) # {}
      BY <1>1 DEF ScanOK, ArchiveOK, FoundOK
    <2>2. \A p : copies(p) = Copies(p)
      BY DEF Copies
    <2>3. \A p : p \in paths <=> p \in Portable /\ Copies(p) # {}
      BY DEF Copies, Portable
    <2>4. \A p : IsFiniteSet(Copies(p))
      <3>1. SUFFICES ASSUME NEW p PROVE IsFiniteSet(Copies(p))
        OBVIOUS
      <3>. DEFINE S == {x \in Entries : got[x] > 0 /\ Merged(x) /\ x.path = p}
                  f == [x \in S |-> Identity(x)]
      <3>2. IsFiniteSet(S)
        BY FS_Subset, ScanAssumption
      <3>3. f \in Surjection(S, Copies(p))
        BY DEF Surjection, Copies
      <3>. QED
        BY <3>2, <3>3, FS_Surjection
    <2>. HIDE DEF copies, paths, read
    <2>5. \A p \in paths : /\ Cardinality(copies(p)) = 1 <=> \E i : Copies(p) = {i}
                           /\ Cardinality(copies(p)) > 1 <=> \E i, j \in Copies(p) : i # j
      BY <2>2, <2>4, CardinalityOne
    <2>6. \A p \in paths : /\ Copies(p) # {} /\ MergeOK(p)
      BY <2>1, <2>3
    <2>7. {p \in paths : diagnostic("ARCHIVE_CONFLICT", {p}) \in found.errors}
            = {p \in paths : Cardinality(copies(p)) > 1}
      BY <2>5, <2>6 DEF MergeOK
    <2>8. ASSUME NEW p \in paths, Cardinality(copies(p)) = 1
          PROVE  /\ seen[p] = CHOOSE i \in copies(p) : TRUE
                 /\ \E x \in Found : x.path = p /\ x.digest = seen[p].digest
      BY <2>2, <2>5, <2>6, <2>8 DEF MergeOK
    <2>9. ASSUME NEW x \in Found
          PROVE  x.path \in paths /\ Cardinality(copies(x.path)) = 1 /\ x.digest = seen[x.path].digest
      <3>1. x.path \in paths
        BY <2>1, <2>3
      <3>2. \A y \in Found : x.path = y.path => x = y
        BY <1>1 DEF ScanOK, ArchiveOK
      <3>3. Copies(x.path) = {seen[x.path]}
            /\ \E y \in Found : y.path = x.path /\ y.digest = seen[x.path].digest
        BY <2>6, <3>1 DEF MergeOK
      <3>. QED
        BY <2>5, <3>1, <3>2, <3>3
    <2>10. {<<x.path, x.digest>> : x \in Found}
             = {<<p, (CHOOSE i \in copies(p) : TRUE).digest>> :
                  p \in {q \in paths : Cardinality(copies(q)) = 1}}
      <3>. DEFINE alike == {q \in paths : Cardinality(copies(q)) = 1}
                  digest(p) == (CHOOSE i \in copies(p) : TRUE).digest
      <3>1. \A x \in Found : x.path \in alike /\ x.digest = digest(x.path)
        BY <2>8, <2>9
      <3>2. ASSUME NEW p \in alike
            PROVE  \E x \in Found : x.path = p /\ x.digest = digest(p)
        <4>1. PICK x \in Found : x.path = p /\ x.digest = seen[p].digest
          BY <2>8
        <4>2. seen[p] = CHOOSE i \in copies(p) : TRUE
          BY <2>8
        <4>3. x.digest = digest(p)
          BY <4>1, <4>2
        <4>. QED
          BY <4>1, <4>3
      <3>. HIDE DEF alike, digest
      <3>3. {<<x.path, x.digest>> : x \in Found} = {<<p, digest(p)>> : p \in alike}
        BY <3>1, <3>2
      <3>. QED
        BY <3>3 DEF alike, digest
    <2>. QED
      BY <2>7, <2>10 DEF MergeIsOrderFree, Found, copies, paths, read
  <1>. QED
    BY <1>1, ScanInvariance, PTL

-----------------------------------------------------------------------------
(* What reconciliation keeps *)

Rules == {"SIDECAR", "TAKEOUT", "ALBUM"}
AllAttached(sidecars) == {Attached(s, rule) : s \in sidecars, rule \in Rules}

\* A DiscoveredMedia, as a scan or a step of reconcile makes it.
IsMedia(m) == m = [native |-> m.native, path |-> m.path, kind |-> m.kind, len |-> m.len,
                   digest |-> m.digest, sidecars |-> m.sidecars, metadata |-> m.metadata,
                   live |-> m.live]

MediaOK(m, sidecars) ==
    /\ IsMedia(m)
    /\ m.kind = media_kind(m.path) /\ m.path.name.ext \in Images \cup Videos
    /\ m.path \in Portable /\ m.len \in Nat
    /\ m.sidecars \subseteq AllAttached(sidecars)

SidecarOK(s) == /\ s.path.name.ext \in {"json", "xmp"} /\ s.kind = metadata_kind(s.path)
                /\ s.path \in Portable /\ s.len \in Nat

OnePerPath(xs) == \A x, y \in xs : x.path = y.path => x = y

Sound(state) ==
    /\ IsScan(state)
    /\ IsFiniteSet(state.media) /\ IsFiniteSet(state.sidecars)
    /\ \A m \in state.media : MediaOK(m, state.sidecars)
    /\ \A s \in state.sidecars : SidecarOK(s)
    /\ OnePerPath(state.media) /\ OnePerPath(state.sidecars)

\* The asset a stands for the file m.
SameFile(a, m) == /\ a.native = m.native /\ a.path = m.path /\ a.kind = m.kind
                  /\ a.len = m.len /\ a.digest = m.digest

\* An image and a video name each other, and nothing else names them.
Pair(i, v) == <<{i.path}, {v.path}>>
LiveOK(assets) ==
    \A a \in assets : a.live # None =>
        \E i, v \in assets : /\ a \in {i, v}
                             /\ i.live = [pair |-> Pair(i, v), role |-> "image"]
                             /\ v.live = [pair |-> Pair(i, v), role |-> "video"]

\* A plan whose files are all there.
Executable(assets, fs) ==
    /\ OnePerPath(assets) /\ LiveOK(assets)
    /\ \A f \in fs : f.len \in Nat
    /\ \A a \in assets : /\ Resolved(a, fs) /\ a.path \in Portable
                         /\ IsFiniteSet(a.sidecars)
                         /\ \A s \in a.sidecars : \E f \in fs : {g \in fs : g.path = s.path} = {f}

\* The invariant of a plan: it reports what the scan reported.
PlanOK == plan # None => /\ found.errors \subseteq plan.errors
                         /\ Executable(plan.assets, files)

Document == [status : {"ok", "invalid", "changed"}, title : Titles \cup {None},
             facts : [Fields -> FactValues]]
DocsOK == /\ docs \in [Portable -> Document \cup {None}]
          /\ archived => \A x \in Found : x.len = Len(x.digest)

\* remove_unicode_collisions leaves one file for each portable path.
LEMMA Prepared ==
  ASSUME FoundOK
  PROVE  /\ Sound(prepare(found)) /\ found.errors \subseteq prepare(found).errors
         /\ prepare(found).media \subseteq found.media
         /\ prepare(found).sidecars \subseteq found.sidecars
         /\ \A m \in prepare(found).media : m.metadata = None
  <1>. DEFINE natives(path) == {x.native : x \in {m \in found.media : m.path = path}}
                               \cup {x.native : x \in {s \in found.sidecars : s.path = path}}
              collisions == {p \in Paths(found.media) \cup Paths(found.sidecars) :
                               Cardinality(natives(p)) > 1}
              state == prepare(found)
  <1>0. /\ IsScan(found) /\ IsFiniteSet(found.media) /\ IsFiniteSet(found.sidecars)
        /\ \A m \in found.media : m = DiscoveredMedia(m.native, m.path, m.len, m.digest)
                                  /\ m.path.name.ext \in Images \cup Videos
        /\ \A s \in found.sidecars : s = DiscoveredSidecar(s.native, s.path, s.len, s.digest)
                                     /\ s.path.name.ext \in {"json", "xmp"}
        /\ \A x \in Found : x.len \in Nat /\ x.path \in Portable
        /\ \A x, y \in Found : x.path = y.path /\ x.native = y.native => x = y
    BY DEF FoundOK
  <1>1. /\ IsScan(state)
        /\ state.media = {m \in found.media : m.path \notin collisions}
        /\ state.sidecars = {s \in found.sidecars : s.path \notin collisions}
        /\ found.errors \subseteq state.errors
    <2>1. state = [found EXCEPT
                !.media = {m \in @ : m.path \notin collisions},
                !.sidecars = {s \in @ : s.path \notin collisions},
                !.errors = @ \cup {diagnostic("UNICODE_COLLISION", {p}) : p \in collisions}]
      BY DEF prepare
    <2>. HIDE DEF collisions, state
    <2>. QED
      BY <1>0, <2>1 DEF IsScan
  <1>2. state.media \subseteq found.media /\ state.sidecars \subseteq found.sidecars
    BY <1>1
  <1>3. \A p : IsFiniteSet(natives(p))
    <2>1. SUFFICES ASSUME NEW p PROVE IsFiniteSet(natives(p))
      OBVIOUS
    <2>. DEFINE A == {m \in found.media : m.path = p}
                B == {s \in found.sidecars : s.path = p}
                fa == [x \in A |-> x.native]
                fb == [x \in B |-> x.native]
                NA == {x.native : x \in A}
                NB == {x.native : x \in B}
    <2>2. IsFiniteSet(A) /\ IsFiniteSet(B)
      BY <1>0, FS_Subset
    <2>3. fa \in Surjection(A, NA) /\ fb \in Surjection(B, NB)
      BY DEF Surjection
    <2>4. IsFiniteSet(NA) /\ IsFiniteSet(NB)
      BY <2>2, <2>3, FS_Surjection
    <2>. HIDE DEF NA, NB
    <2>5. IsFiniteSet(NA \cup NB)
      BY <2>4, FS_Union
    <2>. QED
      BY <2>5 DEF NA, NB
  <1>4. ASSUME NEW x \in Found, NEW y \in Found, x.path = y.path, x # y
        PROVE  x.path \in collisions
    <2>1. x.native \in natives(x.path) /\ y.native \in natives(x.path)
      BY <1>4 DEF Found
    <2>2. x.native # y.native
      BY <1>0, <1>4
    <2>3. x.path \in Paths(found.media) \cup Paths(found.sidecars)
      BY DEF Found, Paths
    <2>4. Cardinality(natives(x.path)) > 1
      <3>. HIDE DEF natives
      <3>. QED
        BY <1>3, <2>1, <2>2, CardinalityOne
    <2>. QED
      BY <2>3, <2>4
  <1>. HIDE DEF collisions, natives, state
  <1>5. OnePerPath(state.media) /\ OnePerPath(state.sidecars)
    BY <1>1, <1>4 DEF OnePerPath, Found
  <1>6. IsFiniteSet(state.media) /\ IsFiniteSet(state.sidecars)
    BY <1>0, <1>2, FS_Subset
  <1>7. \A m \in state.media : MediaOK(m, state.sidecars) /\ m.metadata = None
    BY <1>0, <1>2 DEF MediaOK, IsMedia, DiscoveredMedia, Found
  <1>8. \A s \in state.sidecars : SidecarOK(s)
    BY <1>0, <1>2 DEF SidecarOK, DiscoveredSidecar, Found
  <1>. QED
    BY <1>1, <1>2, <1>5, <1>6, <1>7, <1>8 DEF Sound, state

\* A step of reconciliation that says more of every file and changes none.
LEMMA Mapped ==
  ASSUME NEW state, Sound(state), NEW next, IsScan(next), next.sidecars = state.sidecars,
         NEW F, F = [m \in state.media |-> F[m]], next.media = {F[m] : m \in state.media},
         \A m \in state.media : /\ IsMedia(F[m]) /\ SameFile(F[m], m)
                                /\ F[m].sidecars \subseteq AllAttached(state.sidecars)
  PROVE  Sound(next)
  <1>1. F \in Surjection(state.media, next.media)
    BY DEF Surjection
  <1>2. IsFiniteSet(next.media)
    BY <1>1, FS_Surjection DEF Sound
  <1>3. \A m \in next.media : MediaOK(m, next.sidecars)
    <2>1. SUFFICES ASSUME NEW m \in state.media PROVE MediaOK(F[m], next.sidecars)
      OBVIOUS
    <2>2. MediaOK(m, state.sidecars) /\ SameFile(F[m], m) /\ IsMedia(F[m])
      BY DEF Sound
    <2>. QED
      BY <2>2 DEF MediaOK, SameFile
  <1>4. OnePerPath(next.media)
    <2>1. \A m \in state.media : F[m].path = m.path
      BY DEF SameFile
    <2>. QED
      BY <2>1 DEF Sound, OnePerPath
  <1>. QED
    BY <1>2, <1>3, <1>4 DEF Sound

\* Sidecars are given to a file.
LEMMA GivenSidecars ==
  ASSUME NEW m, IsMedia(m), NEW x, NEW a, a = [m EXCEPT !.sidecars = x]
  PROVE  IsMedia(a) /\ SameFile(a, m) /\ a.sidecars = x /\ a.metadata = m.metadata
  <1>1. PICK n, p, k, l, d, s, t, v :
          m = [native |-> n, path |-> p, kind |-> k, len |-> l, digest |-> d,
               sidecars |-> s, metadata |-> t, live |-> v]
    BY DEF IsMedia
  <1>2. a = [native |-> n, path |-> p, kind |-> k, len |-> l, digest |-> d,
             sidecars |-> x, metadata |-> t, live |-> v]
    BY <1>1
  <1>. QED
    BY <1>1, <1>2 DEF IsMedia, SameFile

\* Sidecars and metadata are given to a file.
Give(m, x, y) == [m EXCEPT !.sidecars = x, !.metadata = y]

\* The file stays the same one.
LEMMA GivenBoth ==
  ASSUME NEW m, IsMedia(m), NEW x, NEW y
  PROVE  /\ IsMedia(Give(m, x, y)) /\ SameFile(Give(m, x, y), m)
         /\ Give(m, x, y).sidecars = x /\ Give(m, x, y).metadata = y
  <1>1. PICK n, p, k, l, d, s, t, v :
          m = [native |-> n, path |-> p, kind |-> k, len |-> l, digest |-> d,
               sidecars |-> s, metadata |-> t, live |-> v]
    BY DEF IsMedia
  <1>2. PICK a : a = [m EXCEPT !.sidecars = x, !.metadata = y]
    OBVIOUS
  <1>3. a = [native |-> n, path |-> p, kind |-> k, len |-> l, digest |-> d,
             sidecars |-> x, metadata |-> y, live |-> v]
    BY <1>1, <1>2
  <1>4. Give(m, x, y) = a
    BY <1>2 DEF Give
  <1>. QED
    BY <1>1, <1>3, <1>4 DEF IsMedia, SameFile

\* Metadata are given to a file.
LEMMA GivenMetadata ==
  ASSUME NEW m, IsMedia(m), NEW x, NEW a, a = [m EXCEPT !.metadata = x]
  PROVE  IsMedia(a) /\ SameFile(a, m) /\ a.sidecars = m.sidecars /\ a.metadata = x /\ a.live = m.live
  <1>1. PICK n, p, k, l, d, s, t, v :
          m = [native |-> n, path |-> p, kind |-> k, len |-> l, digest |-> d,
               sidecars |-> s, metadata |-> t, live |-> v]
    BY DEF IsMedia
  <1>2. a = [native |-> n, path |-> p, kind |-> k, len |-> l, digest |-> d,
             sidecars |-> s, metadata |-> x, live |-> v]
    BY <1>1
  <1>. QED
    BY <1>1, <1>2 DEF IsMedia, SameFile

\* A file becomes a part of a Live Photo.
LEMMA GivenLive ==
  ASSUME NEW m, IsMedia(m), NEW x, NEW a, a = [m EXCEPT !.live = x]
  PROVE  IsMedia(a) /\ SameFile(a, m) /\ a.sidecars = m.sidecars /\ a.metadata = m.metadata /\ a.live = x
  <1>1. PICK n, p, k, l, d, s, t, v :
          m = [native |-> n, path |-> p, kind |-> k, len |-> l, digest |-> d,
               sidecars |-> s, metadata |-> t, live |-> v]
    BY DEF IsMedia
  <1>2. a = [native |-> n, path |-> p, kind |-> k, len |-> l, digest |-> d,
             sidecars |-> s, metadata |-> t, live |-> x]
    BY <1>1
  <1>. QED
    BY <1>1, <1>2 DEF IsMedia, SameFile

\* reconcile_sidecars: each sidecar goes to one file at most.
LEMMA SidecarsReconciled ==
  ASSUME NEW state, Sound(state)
  PROVE  /\ Sound(reconcile_sidecars(state))
         /\ state.errors \subseteq reconcile_sidecars(state).errors
  <1>. DEFINE next == reconcile_sidecars(state)
              sidecars(m) == {Attached(s, "SIDECAR") :
                                s \in {t \in state.sidecars : SidecarMatches(state, t) = {m}}}
              orphans == {s \in state.sidecars : SidecarMatches(state, s) = {}}
              ambiguous == {s \in state.sidecars : Cardinality(SidecarMatches(state, s)) > 1}
              W == {diagnostic("ORPHAN_SIDECAR", {s.path}) : s \in orphans}
              E == {diagnostic("AMBIGUOUS_SIDECAR", {s.path} \cup Paths(SidecarMatches(state, s))) :
                      s \in ambiguous}
              F == [m \in state.media |-> [m EXCEPT !.sidecars = sidecars(m)]]
  <1>1. next = [state EXCEPT !.media = {[m EXCEPT !.sidecars = sidecars(m)] : m \in @},
                             !.warnings = @ \cup W, !.errors = @ \cup E]
    BY DEF reconcile_sidecars
  <1>2. \A m : sidecars(m) \subseteq AllAttached(state.sidecars)
    BY DEF AllAttached, Rules
  <1>. HIDE DEF next, sidecars, W, E
  <1>3. /\ IsScan(next) /\ next.sidecars = state.sidecars /\ state.errors \subseteq next.errors
        /\ next.media = {F[m] : m \in state.media}
    BY <1>1 DEF Sound, IsScan
  <1>4. \A m \in state.media : /\ IsMedia(F[m]) /\ SameFile(F[m], m)
                               /\ F[m].sidecars \subseteq AllAttached(state.sidecars)
    <2>1. SUFFICES ASSUME NEW m \in state.media
                   PROVE  /\ IsMedia(F[m]) /\ SameFile(F[m], m)
                          /\ F[m].sidecars \subseteq AllAttached(state.sidecars)
      OBVIOUS
    <2>2. IsMedia(m) /\ F[m] = [m EXCEPT !.sidecars = sidecars(m)]
      BY DEF Sound, MediaOK
    <2>. HIDE DEF F
    <2>3. IsMedia(F[m]) /\ SameFile(F[m], m) /\ F[m].sidecars = sidecars(m)
      BY <2>2, GivenSidecars
    <2>. QED
      BY <1>2, <2>3
  <1>5. F = [m \in state.media |-> F[m]]
    OBVIOUS
  <1>. HIDE DEF F
  <1>6. Sound(next)
    BY <1>3, <1>4, <1>5, Mapped
  <1>. QED
    BY <1>3, <1>6 DEF next

\* What a Takeout plan says of a file.
Told(state) == \A m \in state.media : m.metadata \in NormalizedMetadata \cup {None}

\* A title is one of a document or the name of a directory.
LEMMA TitleKnown ==
  ASSUME NEW path \in Portable, NEW doc \in Document
  PROVE  Title(path, doc) \in Titles
  BY DEF Title, Document, Titles

\* Nothing known is a fact.
LEMMA NothingIsMetadata == Metadata(NoFacts, {}) \in NormalizedMetadata
  BY DEF Metadata, NoFacts, NormalizedMetadata, FactValues

\* attach_asset_documents: without an error, a file has the facts of every
\* document that goes with it alone.
LEMMA DocumentsAttached ==
  ASSUME NEW state, Sound(state), Told(state), NEW matches, NEW D,
         DOMAIN matches \subseteq state.sidecars,
         \A s \in DOMAIN matches : D[s.path] \in Document
  PROVE  LET next == attach_asset_documents(state, matches, D) IN
         /\ Sound(next) /\ Told(next) /\ next.sidecars = state.sidecars
         /\ state.errors \subseteq next.errors
         /\ next.errors = {} =>
              \A m \in state.media : \E a \in next.media :
                 /\ SameFile(a, m)
                 /\ \A s \in DOMAIN matches : matches[s] = {m} =>
                      a.metadata # None /\ a.metadata.facts = D[s.path].facts
  <1>. DEFINE next == attach_asset_documents(state, matches, D)
              selected(m) == {s \in DOMAIN matches : matches[s] = {m}}
              document(s) == [title |-> Title(s.path, D[s.path]), facts |-> D[s.path].facts]
              documents(m) == {document(s) : s \in selected(m)}
              clash == {m \in state.media : Cardinality(documents(m)) > 1}
              given(m) == {Attached(s, "TAKEOUT") : s \in selected(m)}
              facts(m) == (CHOOSE d \in documents(m) : TRUE).facts
              told(m) == Metadata(facts(m), {})
              F == [m \in state.media |->
                      IF m \in clash \/ selected(m) = {} THEN m
                      ELSE [m EXCEPT !.sidecars = given(m), !.metadata = told(m)]]
              E == {diagnostic("METADATA_CONFLICT", {m.path} \cup Paths(selected(m))) : m \in clash}
  <1>1. next = [state EXCEPT !.media = {F[m] : m \in @}, !.errors = @ \cup E]
    BY DEF attach_asset_documents
  <1>2. \A m : given(m) \subseteq AllAttached(state.sidecars)
    BY DEF AllAttached, Rules
  <1>3. ASSUME NEW m, selected(m) # {} PROVE told(m) \in NormalizedMetadata
    <2>1. documents(m) # {}
      BY <1>3
    <2>2. PICK s \in selected(m) : (CHOOSE d \in documents(m) : TRUE) = document(s)
      BY <2>1
    <2>3. facts(m) = D[s.path].facts
      <3>1. document(s).facts = D[s.path].facts
        OBVIOUS
      <3>. HIDE DEF document, documents
      <3>. QED
        BY <2>2, <3>1
    <2>4. D[s.path].facts \in [Fields -> FactValues]
      BY DEF Document
    <2>. HIDE DEF facts
    <2>. QED
      BY <2>3, <2>4 DEF Metadata, NormalizedMetadata
  <1>4. \A m : IsFiniteSet(documents(m))
    <2>1. SUFFICES ASSUME NEW m PROVE IsFiniteSet(documents(m))
      OBVIOUS
    <2>. DEFINE f == [s \in selected(m) |-> document(s)]
    <2>2. IsFiniteSet(selected(m))
      BY FS_Subset DEF Sound
    <2>. HIDE DEF document, selected
    <2>3. f \in Surjection(selected(m), documents(m))
      BY DEF Surjection
    <2>. HIDE DEF f, documents
    <2>. QED
      BY <2>2, <2>3, FS_Surjection
  <1>5. ASSUME NEW m, NEW s \in selected(m), ~(Cardinality(documents(m)) > 1)
        PROVE  told(m).facts = D[s.path].facts
    <2>1. document(s) \in documents(m)
      OBVIOUS
    <2>2. \A d, e \in documents(m) : d = e
      <3>. HIDE DEF documents
      <3>. QED
        BY <1>4, <1>5, CardinalityOne
    <2>3. (CHOOSE d \in documents(m) : TRUE) = document(s)
      <3>. HIDE DEF documents, document
      <3>. QED
        BY <2>1, <2>2
    <2>4. facts(m) = D[s.path].facts
      <3>1. document(s).facts = D[s.path].facts
        OBVIOUS
      <3>. HIDE DEF document, documents
      <3>. QED
        BY <2>3, <3>1
    <2>. HIDE DEF facts
    <2>. QED
      BY <2>4 DEF Metadata
  <1>6. \A m, s : s \in selected(m) <=> s \in DOMAIN matches /\ matches[s] = {m}
    OBVIOUS
  <1>7. \A m \in state.media : m \in clash => E # {}
    <2>. HIDE DEF clash, selected
    <2>. QED
      OBVIOUS
  <1>8. \A m \in state.media : ~(Cardinality(documents(m)) > 1) <=> m \notin clash
    OBVIOUS
  <1>. HIDE DEF next, selected, documents, clash, given, facts, told, E
  <1>9. ASSUME NEW m \in state.media
        PROVE  /\ IsMedia(F[m]) /\ SameFile(F[m], m)
               /\ F[m].sidecars \subseteq AllAttached(state.sidecars)
               /\ F[m].metadata \in NormalizedMetadata \cup {None}
               /\ m \notin clash /\ selected(m) # {} => F[m].metadata = told(m)
    <2>0. MediaOK(m, state.sidecars) /\ m.metadata \in NormalizedMetadata \cup {None}
      BY DEF Sound, Told
    <2>1. CASE m \in clash \/ selected(m) = {}
      <3>1. F[m] = m
        BY <2>1
      <3>. QED
        BY <2>0, <2>1, <3>1 DEF MediaOK, SameFile
    <2>2. CASE ~(m \in clash \/ selected(m) = {})
      <3>1. F[m] = [m EXCEPT !.sidecars = given(m), !.metadata = told(m)] /\ IsMedia(m)
        BY <2>0, <2>2 DEF MediaOK
      <3>. HIDE DEF F
      <3>2. /\ IsMedia(F[m]) /\ SameFile(F[m], m)
            /\ F[m].sidecars = given(m) /\ F[m].metadata = told(m)
        <4>1. F[m] = Give(m, given(m), told(m)) /\ IsMedia(m)
          BY <3>1 DEF Give
        <4>. QED
          BY <4>1, GivenBoth
      <3>. QED
        BY <1>2, <1>3, <2>2, <3>2
    <2>. QED
      BY <2>1, <2>2
  <1>10. F = [m \in state.media |-> F[m]]
    OBVIOUS
  <1>. HIDE DEF F
  <1>11. /\ IsScan(next) /\ next.sidecars = state.sidecars /\ next.errors = state.errors \cup E
         /\ next.media = {F[m] : m \in state.media}
    BY <1>1 DEF Sound, IsScan
  <1>12. Sound(next)
    BY <1>9, <1>10, <1>11, Mapped
  <1>13. Told(next)
    BY <1>9, <1>11 DEF Told
  <1>14. ASSUME next.errors = {}, NEW m \in state.media
         PROVE  \E a \in next.media :
                 /\ SameFile(a, m)
                 /\ \A s \in DOMAIN matches : matches[s] = {m} =>
                      a.metadata # None /\ a.metadata.facts = D[s.path].facts
    <2>1. F[m] \in next.media /\ SameFile(F[m], m) /\ m \notin clash
      BY <1>7, <1>9, <1>11, <1>14
    <2>2. ASSUME NEW s \in DOMAIN matches, matches[s] = {m}
          PROVE  F[m].metadata # None /\ F[m].metadata.facts = D[s.path].facts
      <3>1. s \in selected(m)
        BY <1>6, <2>2
      <3>2. F[m].metadata = told(m) /\ told(m) \in NormalizedMetadata
        BY <1>3, <1>9, <2>1, <3>1
      <3>3. told(m).facts = D[s.path].facts
        BY <1>5, <1>8, <2>1, <3>1
      <3>. QED
        BY <3>2, <3>3, PlanAssumption
    <2>. QED
      BY <2>1, <2>2
  <1>. QED
    BY <1>11, <1>12, <1>13, <1>14 DEF next

\* Albums are added to what is said of a file.
Enlist(old, titles) == [old EXCEPT !.albums = @ \cup titles]

\* The facts stay, and nothing leaves an album.
LEMMA Enlisted ==
  ASSUME NEW old \in NormalizedMetadata, NEW titles \in SUBSET Titles
  PROVE  /\ Enlist(old, titles) \in NormalizedMetadata /\ Enlist(old, titles).facts = old.facts
         /\ Enlist(old, titles).albums = old.albums \cup titles
  BY DEF Enlist, NormalizedMetadata

\* attach_albums: a file is in the albums of its directory, and keeps its facts.
LEMMA AlbumsAttached ==
  ASSUME NEW state, Sound(state), Told(state), NEW albums, NEW D,
         albums \subseteq state.sidecars, \A s \in albums : D[s.path] \in Document
  PROVE  LET next == attach_albums(state, albums, D) IN
         /\ Sound(next) /\ Told(next) /\ next.sidecars = state.sidecars
         /\ state.errors = next.errors
         /\ \A m \in state.media : \E a \in next.media :
              /\ SameFile(a, m)
              /\ m.metadata # None => a.metadata # None /\ a.metadata.facts = m.metadata.facts
              /\ \A s \in albums : s.path.dir = m.path.dir =>
                   a.metadata # None /\ Title(s.path, D[s.path]) \in a.metadata.albums
  <1>. DEFINE next == attach_albums(state, albums, D)
              of(m) == {s \in albums : s.path.dir = m.path.dir}
              old(m) == IF m.metadata = None THEN Metadata(NoFacts, {}) ELSE m.metadata
              given(m) == m.sidecars \cup {Attached(s, "ALBUM") : s \in of(m)}
              titles(m) == {Title(s.path, D[s.path]) : s \in of(m)}
              told(m) == Enlist(old(m), titles(m))
              F == [m \in state.media |-> IF of(m) = {} THEN m ELSE Give(m, given(m), told(m))]
  <1>1. next = [state EXCEPT !.media = {F[m] : m \in @}]
    BY DEF attach_albums, Give, Enlist
  <1>2. \A m \in state.media : given(m) \subseteq AllAttached(state.sidecars)
    <2>1. \A m : {Attached(s, "ALBUM") : s \in of(m)} \subseteq AllAttached(state.sidecars)
      BY DEF AllAttached, Rules
    <2>. QED
      BY <2>1 DEF Sound, MediaOK
  <1>3. \A m : titles(m) \subseteq Titles
    <2>1. \A s \in albums : s.path \in Portable
      BY DEF Sound, SidecarOK
    <2>. QED
      BY <2>1, TitleKnown
  <1>4. \A m, s : s \in of(m) => Title(s.path, D[s.path]) \in titles(m)
    OBVIOUS
  <1>5. \A m, s : s \in of(m) <=> s \in albums /\ s.path.dir = m.path.dir
    OBVIOUS
  <1>6. \A m \in state.media : old(m) \in NormalizedMetadata
    BY NothingIsMetadata DEF Told
  <1>7. \A m : m.metadata # None => old(m) = m.metadata
    OBVIOUS
  <1>. HIDE DEF next, of, old, given, titles
  <1>8. \A m \in state.media : /\ told(m) \in NormalizedMetadata /\ told(m).facts = old(m).facts
                               /\ told(m).albums = old(m).albums \cup titles(m)
    BY <1>3, <1>6, Enlisted
  <1>. HIDE DEF told
  <1>9. ASSUME NEW m \in state.media
        PROVE  /\ IsMedia(F[m]) /\ SameFile(F[m], m)
               /\ F[m].sidecars \subseteq AllAttached(state.sidecars)
               /\ F[m].metadata = IF of(m) = {} THEN m.metadata ELSE told(m)
    <2>0. MediaOK(m, state.sidecars)
      BY DEF Sound
    <2>1. CASE of(m) = {}
      BY <2>0, <2>1 DEF MediaOK, SameFile
    <2>2. CASE of(m) # {}
      <3>1. F[m] = Give(m, given(m), told(m)) /\ IsMedia(m)
        BY <2>0, <2>2 DEF MediaOK
      <3>. HIDE DEF F
      <3>. QED
        BY <1>2, <2>2, <3>1, GivenBoth
    <2>. QED
      BY <2>1, <2>2
  <1>10. F = [m \in state.media |-> F[m]]
    OBVIOUS
  <1>. HIDE DEF F
  <1>11. /\ IsScan(next) /\ next.sidecars = state.sidecars /\ next.errors = state.errors
         /\ next.media = {F[m] : m \in state.media}
    BY <1>1 DEF Sound, IsScan
  <1>12. Sound(next)
    BY <1>9, <1>10, <1>11, Mapped
  <1>13. Told(next)
    BY <1>8, <1>9, <1>11 DEF Told
  <1>14. ASSUME NEW m \in state.media
         PROVE  \E a \in next.media :
              /\ SameFile(a, m)
              /\ m.metadata # None => a.metadata # None /\ a.metadata.facts = m.metadata.facts
              /\ \A s \in albums : s.path.dir = m.path.dir =>
                   a.metadata # None /\ Title(s.path, D[s.path]) \in a.metadata.albums
    <2>1. F[m] \in next.media /\ SameFile(F[m], m)
      BY <1>9, <1>11
    <2>2. m.metadata # None => F[m].metadata # None /\ F[m].metadata.facts = m.metadata.facts
      BY <1>7, <1>8, <1>9, PlanAssumption
    <2>3. ASSUME NEW s \in albums, s.path.dir = m.path.dir
          PROVE  F[m].metadata # None /\ Title(s.path, D[s.path]) \in F[m].metadata.albums
      <3>1. s \in of(m) /\ Title(s.path, D[s.path]) \in titles(m)
        BY <1>4, <1>5, <2>3
      <3>2. F[m].metadata = told(m)
        BY <1>9, <3>1
      <3>. QED
        BY <1>8, <3>1, <3>2, PlanAssumption
    <2>. QED
      BY <2>1, <2>2, <2>3
  <1>. QED
    BY <1>11, <1>12, <1>13, <1>14 DEF next

\* merge_normalized: where no two copies differ, every value and every album of
\* a copy is that of all.
LEMMA CopiesMerged ==
  ASSUME NEW group, \A m \in group : m.metadata \in NormalizedMetadata \cup {None}
  PROVE  /\ merge_normalized(group) \in NormalizedMetadata
         /\ ~MetadataConflict(group) =>
              \A m \in group : m.metadata # None =>
                 /\ m.metadata.albums \subseteq merge_normalized(group).albums
                 /\ \A f \in Fields : m.metadata.facts[f] # None =>
                      merge_normalized(group).facts[f] = m.metadata.facts[f]
  <1>. DEFINE value(f) == IF Values(group, f) = {} THEN None ELSE CHOOSE v \in Values(group, f) : TRUE
              albums == UNION {d.albums : d \in Described(group)}
  <1>1. merge_normalized(group) = [facts |-> [f \in Fields |-> value(f)], albums |-> albums]
    BY DEF merge_normalized, Metadata
  <1>2. Described(group) \subseteq NormalizedMetadata
    BY DEF Described
  <1>3. \A f \in Fields : value(f) \in FactValues
    <2>1. SUFFICES ASSUME NEW f \in Fields, Values(group, f) # {}
                   PROVE  (CHOOSE v \in Values(group, f) : TRUE) \in FactValues
      BY DEF FactValues
    <2>2. \A v \in Values(group, f) : v \in FactValues
      BY <1>2 DEF Values, NormalizedMetadata
    <2>. QED
      BY <2>1, <2>2
  <1>4. albums \subseteq Titles
    BY <1>2 DEF NormalizedMetadata
  <1>5. ASSUME ~MetadataConflict(group), NEW m \in group, m.metadata # None,
               NEW f \in Fields, m.metadata.facts[f] # None
        PROVE  value(f) = m.metadata.facts[f]
    <2>1. m.metadata.facts[f] \in Values(group, f)
      BY <1>5 DEF Values, Described
    <2>2. \A v, w \in Values(group, f) : v = w
      BY <1>5 DEF MetadataConflict
    <2>. QED
      BY <2>1, <2>2
  <1>6. ASSUME NEW m \in group, m.metadata # None PROVE m.metadata.albums \subseteq albums
    BY <1>6 DEF Described
  <1>. HIDE DEF value, albums
  <1>7. merge_normalized(group) \in NormalizedMetadata
    BY <1>1, <1>3, <1>4 DEF NormalizedMetadata
  <1>8. /\ merge_normalized(group).albums = albums
        /\ \A f \in Fields : merge_normalized(group).facts[f] = value(f)
    BY <1>1
  <1>. QED
    BY <1>5, <1>6, <1>7, <1>8

\* The copies of one content.
Group(media, m) == {n \in media : n.len = m.len /\ n.digest = m.digest}

\* Copies have the same copies, and one of them is canonical.
LEMMA Grouped ==
  ASSUME NEW media, NEW m \in media
  PROVE  /\ m \in Group(media, m) /\ Group(media, m) \subseteq media
         /\ Canonical(Group(media, m)) \in Group(media, m)
         /\ \A n \in Group(media, m) : /\ n.len = m.len /\ n.digest = m.digest
                                       /\ Group(media, n) = Group(media, m)
  BY DEF Group, Canonical

\* collapse_content_aliases: without an error, the asset of a content has what
\* any copy of it has.
LEMMA AliasesCollapsed ==
  ASSUME NEW state, Sound(state), Told(state)
  PROVE  LET next == collapse_content_aliases(state) IN
         /\ Sound(next) /\ Told(next) /\ next.sidecars = state.sidecars
         /\ state.errors \subseteq next.errors
         /\ next.errors = {} =>
              \A m \in state.media : \E a \in next.media :
                 /\ a.len = m.len /\ a.digest = m.digest
                 /\ m.metadata # None =>
                      /\ a.metadata # None
                      /\ m.metadata.albums \subseteq a.metadata.albums
                      /\ \A f \in Fields : m.metadata.facts[f] # None =>
                           a.metadata.facts[f] = m.metadata.facts[f]
  <1>. DEFINE next == collapse_content_aliases(state)
              group(m) == Group(state.media, m)
              groups == {group(m) : m \in state.media}
              given(g) == UNION {m.sidecars : m \in g}
              told(g) == IF Described(g) = {} \/ MetadataConflict(g) THEN None
                         ELSE merge_normalized(g)
              asset(g) == Give(Canonical(g), given(g), told(g))
              F == [m \in state.media |-> asset(group(m))]
              E == {diagnostic("METADATA_CONFLICT", {Canonical(g).path}) :
                      g \in {h \in groups : MetadataConflict(h)}}
              W == {diagnostic("CONTENT_ALIAS", Paths(g)) : g \in {h \in groups : Cardinality(h) > 1}}
  <1>1. next = [state EXCEPT !.media = {asset(g) : g \in groups},
                             !.errors = @ \cup E, !.warnings = @ \cup W]
    BY DEF collapse_content_aliases, merge_alias, Give, Group
  <1>2. {asset(g) : g \in groups} = {F[m] : m \in state.media}
    <2>. HIDE DEF asset, group
    <2>. QED
      OBVIOUS
  <1>3. \A m \in state.media : MetadataConflict(group(m)) => E # {}
    <2>. HIDE DEF group
    <2>. QED
      OBVIOUS
  <1>. HIDE DEF E, W, groups, next
  <1>4. /\ IsScan(next) /\ next.sidecars = state.sidecars /\ next.errors = state.errors \cup E
        /\ next.media = {F[m] : m \in state.media}
    <2>. DEFINE M == {asset(g) : g \in groups}
    <2>1. next = [state EXCEPT !.media = M, !.errors = @ \cup E, !.warnings = @ \cup W]
      BY <1>1
    <2>2. M = {F[m] : m \in state.media}
      BY <1>2
    <2>. HIDE DEF M, F
    <2>. QED
      BY <2>1, <2>2 DEF Sound, IsScan
  <1>5. ASSUME NEW m \in state.media
        PROVE  /\ m \in group(m) /\ group(m) \subseteq state.media
               /\ Canonical(group(m)) \in group(m)
               /\ \A n \in group(m) : /\ n.len = m.len /\ n.digest = m.digest
                                      /\ group(n) = group(m)
    BY Grouped
  <1>6. ASSUME NEW m \in state.media
        PROVE  /\ told(group(m)) \in NormalizedMetadata \cup {None}
               /\ given(group(m)) \subseteq AllAttached(state.sidecars)
    <2>1. \A n \in group(m) : n \in state.media
      BY <1>5
    <2>2. \A n \in group(m) : /\ n.metadata \in NormalizedMetadata \cup {None}
                              /\ n.sidecars \subseteq AllAttached(state.sidecars)
      BY <2>1 DEF Sound, Told, MediaOK
    <2>. HIDE DEF group
    <2>3. merge_normalized(group(m)) \in NormalizedMetadata
      BY <2>2, CopiesMerged
    <2>. QED
      BY <2>2, <2>3
  <1>. HIDE DEF group, given
  <1>7. ASSUME NEW m \in state.media
        PROVE  /\ IsMedia(F[m]) /\ SameFile(F[m], Canonical(group(m)))
               /\ F[m].sidecars \subseteq AllAttached(state.sidecars)
               /\ F[m].metadata = told(group(m))
    <2>. HIDE DEF told
    <2>1. IsMedia(Canonical(group(m)))
      BY <1>5 DEF Sound, MediaOK
    <2>2. F[m] = Give(Canonical(group(m)), given(group(m)), told(group(m)))
      OBVIOUS
    <2>. HIDE DEF F
    <2>. QED
      BY <1>6, <2>1, <2>2, GivenBoth
  <1>8. ASSUME NEW m \in state.media, NEW n \in state.media, F[m].path = F[n].path
        PROVE  F[m] = F[n]
    <2>1. Canonical(group(m)).path = Canonical(group(n)).path
      BY <1>7, <1>8 DEF SameFile
    <2>2. Canonical(group(m)) = Canonical(group(n))
      BY <1>5, <2>1 DEF Sound, OnePerPath
    <2>3. group(m) = group(n)
      BY <1>5, <2>2
    <2>. QED
      BY <2>3
  <1>9. F \in Surjection(state.media, {F[m] : m \in state.media})
    <2>1. F = [m \in state.media |-> F[m]]
      OBVIOUS
    <2>. HIDE DEF F
    <2>. QED
      BY <2>1 DEF Surjection
  <1>10. ASSUME NEW m \in state.media, ~MetadataConflict(group(m)), m.metadata # None
         PROVE  told(group(m)) = merge_normalized(group(m))
    BY <1>5, <1>10 DEF Described
  <1>. HIDE DEF F, told
  <1>11. Sound(next)
    <2>1. IsFiniteSet(next.media)
      BY <1>4, <1>9, FS_Surjection DEF Sound
    <2>2. OnePerPath(next.media)
      BY <1>4, <1>8 DEF OnePerPath
    <2>3. \A m \in next.media : MediaOK(m, next.sidecars)
      <3>1. SUFFICES ASSUME NEW m \in state.media PROVE MediaOK(F[m], state.sidecars)
        BY <1>4
      <3>2. PICK c \in state.media : c = Canonical(group(m))
        BY <1>5
      <3>3. MediaOK(c, state.sidecars) /\ SameFile(F[m], c) /\ IsMedia(F[m])
        BY <1>7, <3>2 DEF Sound
      <3>. QED
        BY <1>7, <3>3 DEF MediaOK, SameFile
    <2>. QED
      BY <1>4, <2>1, <2>2, <2>3 DEF Sound
  <1>12. Told(next)
    BY <1>4, <1>6, <1>7 DEF Told
  <1>13. ASSUME next.errors = {}, NEW m \in state.media
         PROVE  \E a \in next.media :
                 /\ a.len = m.len /\ a.digest = m.digest
                 /\ m.metadata # None =>
                      /\ a.metadata # None
                      /\ m.metadata.albums \subseteq a.metadata.albums
                      /\ \A f \in Fields : m.metadata.facts[f] # None =>
                           a.metadata.facts[f] = m.metadata.facts[f]
    <2>1. F[m] \in next.media /\ ~MetadataConflict(group(m))
      BY <1>3, <1>4, <1>13
    <2>2. F[m].len = m.len /\ F[m].digest = m.digest
      <3>1. PICK c \in group(m) : c = Canonical(group(m))
        BY <1>5
      <3>. QED
        BY <1>5, <1>7, <3>1 DEF SameFile
    <2>3. ASSUME m.metadata # None
          PROVE  /\ F[m].metadata # None
                 /\ m.metadata.albums \subseteq F[m].metadata.albums
                 /\ \A f \in Fields : m.metadata.facts[f] # None =>
                      F[m].metadata.facts[f] = m.metadata.facts[f]
      <3>1. F[m].metadata = merge_normalized(group(m))
        BY <1>7, <1>10, <2>1, <2>3
      <3>2. \A n \in group(m) : n.metadata \in NormalizedMetadata \cup {None}
        BY <1>5 DEF Told
      <3>3. m \in group(m)
        BY <1>5
      <3>4. /\ merge_normalized(group(m)) \in NormalizedMetadata
            /\ m.metadata.albums \subseteq merge_normalized(group(m)).albums
            /\ \A f \in Fields : m.metadata.facts[f] # None =>
                 merge_normalized(group(m)).facts[f] = m.metadata.facts[f]
        BY <2>1, <2>3, <3>2, <3>3, CopiesMerged
      <3>. QED
        BY <3>1, <3>4, PlanAssumption
    <2>. QED
      BY <2>1, <2>2, <2>3
  <1>. QED
    BY <1>4, <1>11, <1>12, <1>13 DEF next

\* The files of one stem in one directory.
Stem(media, m) == {n \in media : n.path.dir = m.path.dir /\ stem(n.path.name) = stem(m.path.name)}
StemImages(media, m) == {n \in Stem(media, m) : n.kind = "image"}
StemVideos(media, m) == {n \in Stem(media, m) : n.path.name.ext = "mov"}

\* reconcile_live_photos: a file of a Live Photo is its image or its video.
LEMMA LivePaired ==
  ASSUME NEW state, Sound(state), NEW m \in state.media, LivePair(state.media, m) # None
  PROVE  \E i, v \in state.media :
            /\ m \in {i, v}
            /\ LivePair(state.media, i) = [pair |-> Pair(i, v), role |-> "image"]
            /\ LivePair(state.media, v) = [pair |-> Pair(i, v), role |-> "video"]
  <1>. DEFINE media == state.media
              one(n) == /\ Cardinality(StemImages(media, n)) = 1
                        /\ Cardinality(StemVideos(media, n)) = 1
                        /\ n \in StemImages(media, n) \cup StemVideos(media, n)
  <1>1. ASSUME NEW n
        PROVE  LivePair(media, n) =
                 IF one(n) THEN [pair |-> <<{x.path : x \in StemImages(media, n)},
                                            {x.path : x \in StemVideos(media, n)}>>,
                                 role |-> n.kind]
                 ELSE None
    BY DEF LivePair, StemImages, StemVideos, Stem
  <1>2. one(m)
    BY <1>1
  <1>3. IsFiniteSet(StemImages(media, m)) /\ IsFiniteSet(StemVideos(media, m))
    <2>1. StemImages(media, m) \subseteq media /\ StemVideos(media, m) \subseteq media
      BY DEF StemImages, StemVideos, Stem
    <2>. QED
      BY <2>1, FS_Subset DEF Sound
  <1>4. PICK i, v : StemImages(media, m) = {i} /\ StemVideos(media, m) = {v}
    <2>1. Cardinality(StemImages(media, m)) = 1 /\ Cardinality(StemVideos(media, m)) = 1
      BY <1>2
    <2>2. \E i : StemImages(media, m) = {i}
      BY <1>3, <2>1, CardinalityOne
    <2>3. \E v : StemVideos(media, m) = {v}
      BY <1>3, <2>1, CardinalityOne
    <2>. QED
      BY <2>2, <2>3
  <1>5. /\ i \in Stem(media, m) /\ v \in Stem(media, m) /\ i \in media /\ v \in media
        /\ i.kind = "image" /\ v.path.name.ext = "mov" /\ m \in {i, v}
    BY <1>2, <1>4 DEF StemImages, StemVideos, Stem
  <1>6. v.kind = "video"
    BY <1>5 DEF Sound, MediaOK, media_kind, Images, Videos
  <1>7. \A n \in Stem(media, m) : Stem(media, n) = Stem(media, m)
    BY DEF Stem
  <1>8. \A n \in {i, v} : StemImages(media, n) = {i} /\ StemVideos(media, n) = {v}
    BY <1>4, <1>5, <1>7 DEF StemImages, StemVideos
  <1>9. Cardinality({i}) = 1 /\ Cardinality({v}) = 1
    BY FS_Singleton
  <1>10. {x.path : x \in {i}} = {i.path} /\ {x.path : x \in {v}} = {v.path}
    OBVIOUS
  <1>11. \A n \in {i, v} : one(n)
    BY <1>8, <1>9
  <1>. HIDE DEF one, media
  <1>12. \A n \in {i, v} : LivePair(media, n) = [pair |-> Pair(i, v), role |-> n.kind]
    <2>1. SUFFICES ASSUME NEW n \in {i, v}
                   PROVE  LivePair(media, n) = [pair |-> Pair(i, v), role |-> n.kind]
      OBVIOUS
    <2>2. LivePair(media, n) = [pair |-> <<{x.path : x \in {i}}, {x.path : x \in {v}}>>,
                                role |-> n.kind]
      BY <1>1, <1>8, <1>11
    <2>. QED
      BY <1>10, <2>2 DEF Pair
  <1>. QED
    BY <1>5, <1>6, <1>12 DEF media

\* complete: the files stay, and some become parts of Live Photos.
LEMMA Completed ==
  ASSUME NEW state, Sound(state)
  PROVE  LET next == complete(state) IN
         /\ Sound(next) /\ LiveOK(next.media) /\ next.sidecars = state.sidecars
         /\ state.errors \subseteq next.errors
         /\ \A m \in state.media : \E a \in next.media : SameFile(a, m) /\ a.metadata = m.metadata
  <1>. DEFINE next == complete(state)
              live(m) == LivePair(state.media, m)
              F == [m \in state.media |-> [m EXCEPT !.live = live(m)]]
              E == CaseCollisions(Paths(state.media))
              W == DuplicateBasenames(Paths(state.media))
  <1>1. next = [state EXCEPT !.media = {F[m] : m \in @}, !.errors = @ \cup E, !.warnings = @ \cup W]
    BY DEF complete
  <1>2. ASSUME NEW m \in state.media, live(m) # None
        PROVE  \E i, v \in state.media :
                 /\ m \in {i, v}
                 /\ live(i) = [pair |-> Pair(i, v), role |-> "image"]
                 /\ live(v) = [pair |-> Pair(i, v), role |-> "video"]
    BY <1>2, LivePaired
  <1>. HIDE DEF next, live, E, W
  <1>3. ASSUME NEW m \in state.media
        PROVE  /\ IsMedia(F[m]) /\ SameFile(F[m], m) /\ F[m].live = live(m)
               /\ F[m].metadata = m.metadata
               /\ F[m].sidecars \subseteq AllAttached(state.sidecars)
    <2>1. F[m] = [m EXCEPT !.live = live(m)] /\ MediaOK(m, state.sidecars)
      BY DEF Sound
    <2>. HIDE DEF F
    <2>2. IsMedia(m) /\ m.sidecars \subseteq AllAttached(state.sidecars)
      BY <2>1 DEF MediaOK
    <2>3. /\ IsMedia(F[m]) /\ SameFile(F[m], m) /\ F[m].live = live(m)
          /\ F[m].metadata = m.metadata /\ F[m].sidecars = m.sidecars
      BY <2>1, <2>2, GivenLive
    <2>. QED
      BY <2>2, <2>3
  <1>4. F = [m \in state.media |-> F[m]]
    OBVIOUS
  <1>. HIDE DEF F
  <1>5. /\ IsScan(next) /\ next.sidecars = state.sidecars /\ state.errors \subseteq next.errors
        /\ next.media = {F[m] : m \in state.media}
    BY <1>1 DEF Sound, IsScan
  <1>6. Sound(next)
    BY <1>3, <1>4, <1>5, Mapped
  <1>7. LiveOK(next.media)
    <2>0. SUFFICES ASSUME NEW a \in next.media, a.live # None
                   PROVE  \E x, y \in next.media :
                            /\ a \in {x, y}
                            /\ x.live = [pair |-> Pair(x, y), role |-> "image"]
                            /\ y.live = [pair |-> Pair(x, y), role |-> "video"]
      BY DEF LiveOK
    <2>1. PICK m \in state.media : a = F[m]
      BY <1>5
    <2>2. PICK i, v \in state.media :
                 /\ m \in {i, v}
                 /\ live(i) = [pair |-> Pair(i, v), role |-> "image"]
                 /\ live(v) = [pair |-> Pair(i, v), role |-> "video"]
      BY <1>2, <1>3, <2>0, <2>1
    <2>3. Pair(F[i], F[v]) = Pair(i, v)
      BY <1>3 DEF Pair, SameFile
    <2>4. F[i].live = live(i) /\ F[v].live = live(v) /\ F[m] \in {F[i], F[v]}
      BY <1>3, <2>2
    <2>5. F[i] \in next.media /\ F[v] \in next.media
      BY <1>5
    <2>. QED
      BY <2>1, <2>2, <2>3, <2>4, <2>5
  <1>8. \A m \in state.media : \E a \in next.media : SameFile(a, m) /\ a.metadata = m.metadata
    BY <1>3, <1>5
  <1>. QED
    BY <1>5, <1>6, <1>7, <1>8 DEF next

\* Warnings and errors are added to a scan.
Diagnose(state, W, E) == [state EXCEPT !.warnings = @ \cup W, !.errors = @ \cup E]

\* Diagnostics change no file.
LEMMA Diagnosed ==
  ASSUME NEW state, Sound(state), NEW W, NEW E
  PROVE  LET next == Diagnose(state, W, E) IN
         /\ Sound(next) /\ next.media = state.media /\ next.sidecars = state.sidecars
         /\ next.errors = state.errors \cup E
  <1>1. PICK m, s, w, e : state = [media |-> m, sidecars |-> s, warnings |-> w, errors |-> e]
    BY DEF Sound, IsScan
  <1>2. PICK next : next = [state EXCEPT !.warnings = @ \cup W, !.errors = @ \cup E]
    OBVIOUS
  <1>3. next = [media |-> m, sidecars |-> s, warnings |-> w \cup W, errors |-> e \cup E]
    BY <1>1, <1>2
  <1>4. /\ IsScan(next) /\ next.media = state.media /\ next.sidecars = state.sidecars
        /\ next.errors = state.errors \cup E
    BY <1>1, <1>3 DEF IsScan
  <1>5. next = Diagnose(state, W, E)
    BY <1>2 DEF Diagnose
  <1>. QED
    BY <1>4, <1>5 DEF Sound

\* What becomes of a Takeout file m that is found with the documents D.
Kept(state, D, m, a) ==
    /\ a.len = m.len /\ a.digest = m.digest
    /\ \A s \in {t \in state.sidecars : t.kind = "json"} :
         /\ Candidates(state, s, D[s.path]) = {m} => \A f \in Fields :
              D[s.path].facts[f] # None =>
                  /\ a.metadata # None
                  /\ a.metadata.facts[f] = D[s.path].facts[f]
         /\ (Candidates(state, s, D[s.path]) = {} /\ is_album_document(s.path)
               /\ s.path.dir = m.path.dir) =>
              /\ a.metadata # None
              /\ Title(s.path, D[s.path]) \in a.metadata.albums

\* takeout_reconcile: the files stay sound, and without an error every file is
\* kept with what its documents and its albums say.
LEMMA TakeoutReconciled ==
  ASSUME FoundOK, NEW D,
         \A s \in prepare(found).sidecars : s.kind = "json" => D[s.path] \in Document
  PROVE  LET next == takeout_reconcile(found, D) IN
         /\ Sound(next) /\ LiveOK(next.media) /\ found.errors \subseteq next.errors
         /\ next.errors = {} =>
              \A m \in prepare(found).media : \E a \in next.media :
                 Kept(prepare(found), D, m, a)
  <1>. DEFINE next == takeout_reconcile(found, D)
              state == prepare(found)
              json == {s \in state.sidecars : s.kind = "json"}
              parsed == {s \in json : D[s.path].status = "ok"}
              matches == [s \in parsed |-> Candidates(state, s, D[s.path])]
              lone == {s \in parsed : matches[s] = {}}
              albums == {s \in lone : is_album_document(s.path)}
              s1 == attach_asset_documents(state, matches, D)
              s2 == attach_albums(s1, albums, D)
              s3 == collapse_content_aliases(s2)
              bare == {m \in s3.media : ~ \E s \in m.sidecars : s.rule = "TAKEOUT"}
              W == {diagnostic("UNSUPPORTED", {s.path}) : s \in state.sidecars \ json}
                     \cup {diagnostic("ORPHAN_SIDECAR", {s.path}) : s \in lone \ albums}
                     \cup {diagnostic("UNMATCHED_MEDIA", {m.path}) : m \in bare}
              E1 == {diagnostic(D[s.path].status, {s.path}) : s \in json \ parsed}
              E2 == {diagnostic("AMBIGUOUS", {s.path} \cup Paths(matches[s])) :
                        s \in {t \in parsed : Cardinality(matches[t]) > 1}}
              s4 == Diagnose(s3, W, E1 \cup E2)
  <1>1. next = complete(s4)
    <2>1. [s3 EXCEPT !.warnings = @ \cup W, !.errors = @ \cup E1 \cup E2] = s4
      <3>. HIDE DEF s3, W, E1, E2
      <3>. QED
        BY DEF Diagnose
    <2>. QED
      BY <2>1 DEF takeout_reconcile, takeout_order
  <1>2. /\ Sound(state) /\ Told(state) /\ found.errors \subseteq state.errors
    BY Prepared DEF Told
  <1>3. /\ DOMAIN matches = parsed /\ parsed \subseteq json /\ json \subseteq state.sidecars
        /\ \A s \in json : D[s.path] \in Document
        /\ albums \subseteq parsed
    OBVIOUS
  <1>4. \A s \in json : E1 = {} => s \in parsed
    OBVIOUS
  <1>5. \A s \in parsed : matches[s] = Candidates(state, s, D[s.path])
    OBVIOUS
  <1>6. \A s \in parsed : matches[s] = {} /\ is_album_document(s.path) => s \in albums
    OBVIOUS
  <1>. HIDE DEF next, matches, albums, parsed, E1, E2, W
  <1>7. /\ Sound(s1) /\ Told(s1) /\ s1.sidecars = state.sidecars /\ state.errors \subseteq s1.errors
        /\ s1.errors = {} =>
              \A m \in state.media : \E a \in s1.media :
                 /\ SameFile(a, m)
                 /\ \A s \in parsed : matches[s] = {m} =>
                      a.metadata # None /\ a.metadata.facts = D[s.path].facts
    <2>. HIDE DEF state, json
    <2>1. DOMAIN matches \subseteq state.sidecars /\ \A s \in DOMAIN matches : D[s.path] \in Document
      BY <1>3
    <2>. QED
      BY <1>2, <1>3, <2>1, DocumentsAttached
  <1>. HIDE DEF s1
  <1>8. /\ Sound(s2) /\ Told(s2) /\ s2.sidecars = s1.sidecars /\ s1.errors = s2.errors
        /\ \A m \in s1.media : \E a \in s2.media :
              /\ SameFile(a, m)
              /\ m.metadata # None => a.metadata # None /\ a.metadata.facts = m.metadata.facts
              /\ \A s \in albums : s.path.dir = m.path.dir =>
                   a.metadata # None /\ Title(s.path, D[s.path]) \in a.metadata.albums
    <2>. HIDE DEF state, json
    <2>1. albums \subseteq s1.sidecars /\ \A s \in albums : D[s.path] \in Document
      BY <1>3, <1>7
    <2>. QED
      BY <1>7, <2>1, AlbumsAttached
  <1>. HIDE DEF s2
  <1>9. /\ Sound(s3) /\ s2.errors \subseteq s3.errors
        /\ s3.errors = {} =>
              \A m \in s2.media : \E a \in s3.media :
                 /\ a.len = m.len /\ a.digest = m.digest
                 /\ m.metadata # None =>
                      /\ a.metadata # None
                      /\ m.metadata.albums \subseteq a.metadata.albums
                      /\ \A f \in Fields : m.metadata.facts[f] # None =>
                           a.metadata.facts[f] = m.metadata.facts[f]
    BY <1>8, AliasesCollapsed
  <1>. HIDE DEF s3
  <1>10. Sound(s4) /\ s4.media = s3.media /\ s4.errors = s3.errors \cup (E1 \cup E2)
    BY <1>9, Diagnosed
  <1>. HIDE DEF s4
  <1>11. /\ Sound(next) /\ LiveOK(next.media) /\ s4.errors \subseteq next.errors
         /\ \A m \in s4.media : \E a \in next.media : SameFile(a, m) /\ a.metadata = m.metadata
    BY <1>1, <1>10, Completed
  <1>12. found.errors \subseteq next.errors
    BY <1>2, <1>7, <1>8, <1>9, <1>10, <1>11
  <1>13. ASSUME next.errors = {}, NEW m \in state.media
         PROVE  \E a \in next.media : Kept(state, D, m, a)
    <2>0. E1 = {} /\ s1.errors = {} /\ s2.errors = {} /\ s3.errors = {}
      BY <1>8, <1>9, <1>10, <1>11, <1>13
    <2>1. PICK a1 \in s1.media :
                 /\ SameFile(a1, m)
                 /\ \A s \in parsed : matches[s] = {m} =>
                      a1.metadata # None /\ a1.metadata.facts = D[s.path].facts
      BY <1>7, <2>0
    <2>2. PICK a2 \in s2.media :
              /\ SameFile(a2, a1)
              /\ a1.metadata # None => a2.metadata # None /\ a2.metadata.facts = a1.metadata.facts
              /\ \A s \in albums : s.path.dir = a1.path.dir =>
                   a2.metadata # None /\ Title(s.path, D[s.path]) \in a2.metadata.albums
      BY <1>8, <2>1
    <2>3. PICK a3 \in s3.media :
                 /\ a3.len = a2.len /\ a3.digest = a2.digest
                 /\ a2.metadata # None =>
                      /\ a3.metadata # None
                      /\ a2.metadata.albums \subseteq a3.metadata.albums
                      /\ \A f \in Fields : a2.metadata.facts[f] # None =>
                           a3.metadata.facts[f] = a2.metadata.facts[f]
      BY <1>9, <2>0, <2>2
    <2>4. PICK a \in next.media : SameFile(a, a3) /\ a.metadata = a3.metadata
      BY <1>10, <1>11, <2>3
    <2>5. a.len = m.len /\ a.digest = m.digest /\ a1.path = m.path
      BY <2>1, <2>2, <2>3, <2>4 DEF SameFile
    <2>6. ASSUME NEW s \in json, Candidates(state, s, D[s.path]) = {m},
                 NEW f \in Fields, D[s.path].facts[f] # None
          PROVE  a.metadata # None /\ a.metadata.facts[f] = D[s.path].facts[f]
      <3>1. s \in parsed /\ matches[s] = {m}
        BY <1>4, <1>5, <2>0, <2>6
      <3>2. a1.metadata # None /\ a1.metadata.facts = D[s.path].facts
        BY <2>1, <3>1
      <3>3. a2.metadata # None /\ a2.metadata.facts = D[s.path].facts
        BY <2>2, <3>2
      <3>. QED
        BY <2>3, <2>4, <2>6, <3>3
    <2>7. ASSUME NEW s \in json, Candidates(state, s, D[s.path]) = {},
                 is_album_document(s.path), s.path.dir = m.path.dir
          PROVE  a.metadata # None /\ Title(s.path, D[s.path]) \in a.metadata.albums
      <3>1. s \in albums
        BY <1>4, <1>5, <1>6, <2>0, <2>7
      <3>2. a2.metadata # None /\ Title(s.path, D[s.path]) \in a2.metadata.albums
        BY <2>2, <2>5, <2>7, <3>1
      <3>. QED
        BY <2>3, <2>4, <3>2
    <2>8. Kept(state, D, m, a)
      BY <2>5, <2>6, <2>7 DEF Kept
    <2>. QED
      BY <2>8
  <1>. QED
    BY <1>11, <1>12, <1>13 DEF next

\* reconcile: the files stay sound.
LEMMA PlainReconciled ==
  ASSUME FoundOK
  PROVE  LET next == reconcile(found) IN
         Sound(next) /\ LiveOK(next.media) /\ found.errors \subseteq next.errors
  <1>1. Sound(prepare(found)) /\ found.errors \subseteq prepare(found).errors
    BY Prepared
  <1>2. PICK s1 : s1 = reconcile_sidecars(prepare(found))
    OBVIOUS
  <1>3. Sound(s1) /\ prepare(found).errors \subseteq s1.errors
    BY <1>1, <1>2, SidecarsReconciled
  <1>4. reconcile(found) = complete(s1)
    BY <1>2 DEF reconcile
  <1>. QED
    BY <1>1, <1>3, <1>4, Completed

-----------------------------------------------------------------------------
(* What the planners make of a reconciled scan *)

\* The sidecars that files can have.
LEMMA AttachedFinite ==
  ASSUME NEW sidecars, IsFiniteSet(sidecars)
  PROVE  IsFiniteSet(AllAttached(sidecars))
  <1>. DEFINE f == [x \in sidecars \X Rules |-> Attached(x[1], x[2])]
  <1>1. IsFiniteSet(Rules)
    <2>1. IsFiniteSet({"SIDECAR"}) /\ IsFiniteSet({"TAKEOUT"}) /\ IsFiniteSet({"ALBUM"})
      BY FS_Singleton
    <2>2. IsFiniteSet({"SIDECAR"} \cup {"TAKEOUT"} \cup {"ALBUM"})
      BY <2>1, FS_Union
    <2>3. Rules = {"SIDECAR"} \cup {"TAKEOUT"} \cup {"ALBUM"}
      BY DEF Rules
    <2>. QED
      BY <2>2, <2>3
  <1>2. IsFiniteSet(sidecars \X Rules)
    BY <1>1, FS_Product
  <1>3. f \in Surjection(sidecars \X Rules, AllAttached(sidecars))
    <2>1. \A x \in sidecars \X Rules : f[x] \in AllAttached(sidecars)
      BY DEF AllAttached
    <2>2. ASSUME NEW y \in AllAttached(sidecars) PROVE \E x \in sidecars \X Rules : f[x] = y
      <3>1. PICK s \in sidecars, r \in Rules : y = Attached(s, r)
        BY DEF AllAttached
      <3>2. <<s, r>> \in sidecars \X Rules /\ f[<<s, r>>] = y
        BY <3>1
      <3>. QED
        BY <3>2
    <2>. QED
      BY <2>1, <2>2 DEF Surjection
  <1>. QED
    BY <1>2, <1>3, FS_Surjection

\* Every asset and every sidecar of a plan is among the resolved files.
LEMMA FilesResolved ==
  ASSUME NEW state, Sound(state), LiveOK(state.media), NEW G,
         \A m \in state.media : /\ SameFile(G[m], m) /\ G[m].sidecars = m.sidecars
                                /\ G[m].live = m.live
  PROVE  Executable({G[m] : m \in state.media}, resolved_files(state))
  <1>. DEFINE assets == {G[m] : m \in state.media}
              fs == resolved_files(state)
              file(x) == [path |-> x.path, native |-> x.native, len |-> x.len, digest |-> x.digest]
  <1>1. fs = {file(x) : x \in state.media \cup state.sidecars}
    BY DEF resolved_files
  <1>2. \A m \in state.media : MediaOK(m, state.sidecars)
    BY DEF Sound
  <1>3. \A x : /\ file(x).path = x.path /\ file(x).len = x.len /\ file(x).digest = x.digest
    OBVIOUS
  <1>4. \A x \in state.media \cup state.sidecars : x.len \in Nat
    BY DEF Sound, MediaOK, SidecarOK
  <1>. HIDE DEF file, fs
  <1>5. \A f \in fs : f.len \in Nat
    BY <1>1, <1>3, <1>4
  <1>6. OnePerPath(assets)
    <2>1. \A m \in state.media : G[m].path = m.path
      BY DEF SameFile
    <2>. QED
      BY <2>1 DEF Sound, OnePerPath
  <1>7. LiveOK(assets)
    <2>1. SUFFICES ASSUME NEW a \in assets, a.live # None
                   PROVE  \E x, y \in assets :
                            /\ a \in {x, y}
                            /\ x.live = [pair |-> Pair(x, y), role |-> "image"]
                            /\ y.live = [pair |-> Pair(x, y), role |-> "video"]
      BY DEF LiveOK
    <2>2. PICK m \in state.media : a = G[m]
      OBVIOUS
    <2>3. PICK i, v \in state.media :
                 /\ m \in {i, v}
                 /\ i.live = [pair |-> Pair(i, v), role |-> "image"]
                 /\ v.live = [pair |-> Pair(i, v), role |-> "video"]
      BY <2>1, <2>2 DEF LiveOK
    <2>4. Pair(G[i], G[v]) = Pair(i, v) /\ G[i].live = i.live /\ G[v].live = v.live
      BY DEF Pair, SameFile
    <2>5. a \in {G[i], G[v]} /\ G[i] \in assets /\ G[v] \in assets
      BY <2>2, <2>3
    <2>. QED
      BY <2>3, <2>4, <2>5
  <1>8. ASSUME NEW a \in assets
        PROVE  /\ Resolved(a, fs) /\ a.path \in Portable
               /\ IsFiniteSet(a.sidecars)
               /\ \A s \in a.sidecars : \E f \in fs : {g \in fs : g.path = s.path} = {f}
    <2>1. PICK m \in state.media : a = G[m]
      OBVIOUS
    <2>2. /\ a.path = m.path /\ a.len = m.len /\ a.digest = m.digest /\ a.sidecars = m.sidecars
          /\ m.path \in Portable /\ m.sidecars \subseteq AllAttached(state.sidecars)
      BY <1>2, <2>1 DEF SameFile, MediaOK
    <2>3. file(m) \in fs
      BY <1>1
    <2>4. Resolved(a, fs)
      BY <1>3, <2>2, <2>3 DEF Resolved
    <2>5. IsFiniteSet(a.sidecars)
      BY <2>2, AttachedFinite, FS_Subset DEF Sound
    <2>6. ASSUME NEW s \in a.sidecars
          PROVE  \E f \in fs : {g \in fs : g.path = s.path} = {f}
      <3>1. PICK t \in state.sidecars, rule \in Rules : s = Attached(t, rule)
        BY <2>2 DEF AllAttached
      <3>2. s.path = t.path /\ t.path.name.ext \in {"json", "xmp"}
        BY <3>1 DEF Attached, Sound, SidecarOK
      <3>3. \A x \in state.media \cup state.sidecars : x.path = t.path => x = t
        BY <1>2, <3>2 DEF Sound, OnePerPath, MediaOK, Images, Videos
      <3>4. {g \in fs : g.path = s.path} = {file(t)} /\ file(t) \in fs
        BY <1>1, <1>3, <3>2, <3>3
      <3>. QED
        BY <3>4
    <2>. QED
      BY <2>2, <2>4, <2>5, <2>6
  <1>. QED
    BY <1>5, <1>6, <1>7, <1>8 DEF Executable, fs

\* An image of a Live Photo has one video, which the plan has as such.
LEMMA ImageHasVideo ==
  ASSUME NEW p, NEW fs, Executable(p.assets, fs), NEW a \in p.assets, Role(p, a).role = "image"
  PROVE  \E v \in p.assets : /\ Role(p, a).video = {Operation(v)} /\ Role(p, v).role = "video"
                             /\ v.live.pair = Pair(a, v)
  <1>1. /\ a.live # None /\ a.live.role # "video"
        /\ Role(p, a).video = {Operation(x) : x \in {y \in p.assets : y.live # None
                                 /\ y.live.role = "video" /\ y.live.pair = a.live.pair}}
    BY DEF Role
  <1>2. PICK i, v \in p.assets : /\ a \in {i, v}
                                 /\ i.live = [pair |-> Pair(i, v), role |-> "image"]
                                 /\ v.live = [pair |-> Pair(i, v), role |-> "video"]
    BY <1>1 DEF Executable, LiveOK
  <1>3. /\ a = i /\ a.live.pair = Pair(a, v) /\ v.live.role = "video" /\ v.live.pair = Pair(a, v)
    BY <1>1, <1>2
  <1>4. v.live # None
    <2>1. v.live \in LivePhoto
      BY <1>2 DEF Executable, LivePhoto, Pair
    <2>. QED
      BY <2>1, PlanAssumption
  <1>5. ASSUME NEW x \in p.assets, x.live # None, x.live.role = "video", x.live.pair = Pair(a, v)
        PROVE  x = v
    <2>1. PICK j, w \in p.assets : /\ x \in {j, w}
                                   /\ j.live = [pair |-> Pair(j, w), role |-> "image"]
                                   /\ w.live = [pair |-> Pair(j, w), role |-> "video"]
      BY <1>5 DEF Executable, LiveOK
    <2>2. x = w /\ Pair(j, w) = Pair(a, v)
      BY <1>5, <2>1
    <2>3. w.path = v.path
      BY <2>2 DEF Pair
    <2>. QED
      BY <2>2, <2>3 DEF Executable, OnePerPath
  <1>6. {y \in p.assets : y.live # None /\ y.live.role = "video" /\ y.live.pair = a.live.pair} = {v}
    BY <1>3, <1>4, <1>5
  <1>7. Role(p, a).video = {Operation(v)}
    BY <1>1, <1>6
  <1>8. Role(p, v).role = "video"
    BY <1>3, <1>4 DEF Role
  <1>. QED
    BY <1>3, <1>7, <1>8

\* A set with at most one element.
LEMMA AtMostOne ==
  ASSUME NEW S, IsFiniteSet(S), ~(Cardinality(S) > 1)
  PROVE  S = {} \/ \E x : S = {x}
  <1>1. ~ \E x, y \in S : x # y
    BY CardinalityOne
  <1>. QED
    BY <1>1

\* The files that an operation uploads with an asset are all found.
LEMMA XmpFound ==
  ASSUME NEW kind, NEW assets, NEW fs, Executable(assets, fs), NEW a \in assets, ~Unsupported(kind, a)
  PROVE  Cardinality({f \in fs : f.path \in Paths(PlannedXmp(kind, a))})
           = Cardinality(PlannedXmp(kind, a))
  <1>. DEFINE S == PlannedXmp(kind, a)
  <1>1. S \subseteq a.sidecars /\ IsFiniteSet(a.sidecars)
    BY DEF PlannedXmp, Executable
  <1>2. IsFiniteSet(S) /\ ~(Cardinality(S) > 1)
    BY <1>1, FS_Subset DEF Unsupported
  <1>3. S = {} \/ \E s : S = {s}
    BY <1>2, AtMostOne
  <1>. HIDE DEF S
  <1>4. CASE S = {}
    <2>1. {f \in fs : f.path \in Paths(S)} = {}
      BY <1>4 DEF Paths
    <2>. QED
      BY <1>4, <2>1 DEF S
  <1>5. CASE \E s : S = {s}
    <2>1. PICK s : S = {s}
      BY <1>5
    <2>2. PICK f \in fs : {g \in fs : g.path = s.path} = {f}
      BY <1>1, <2>1 DEF Executable
    <2>3. {g \in fs : g.path \in Paths(S)} = {f}
      BY <2>1, <2>2 DEF Paths
    <2>4. Cardinality({f}) = 1 /\ Cardinality({s}) = 1
      BY FS_Singleton
    <2>. QED
      BY <2>1, <2>3, <2>4 DEF S
  <1>. QED
    BY <1>3, <1>4, <1>5

\* What PlanIsExecutable asks of a result.
Paired(operations) ==
    LET images == {o \in operations : o.role.role = "image"}
        videos == {o.id : o \in {x \in operations : x.role.role = "video"}}
    IN \A o \in images : /\ Cardinality(o.role.video) = 1 /\ o.role.video \subseteq videos
                         /\ \A q \in images \ {o} : q.role.video \cap o.role.video = {}

\* The planners: the lookups succeed, only an empty file makes a plan invalid,
\* and images and videos are paired off.
LEMMA OperationsPlanned ==
  ASSUME NEW p, NEW fs, Executable(p.assets, fs)
  PROVE  LET r == Planned(p, fs) IN
         /\ r.result # "Invariant"
         /\ r.result = "InvalidPlan" => \E f \in fs : f.len = 0
         /\ Paired(r.operations)
  <1>. DEFINE r == Planned(p, fs)
              xmp(a) == {f \in fs : f.path \in Paths(PlannedXmp(p.kind, a))}
              op(a) == [id |-> Operation(a), path |-> a.path, len |-> a.len, xmp |-> xmp(a),
                        metadata |-> a.metadata, role |-> Role(p, a)]
              operations == {op(a) : a \in p.assets}
              lost(a) == Cardinality(xmp(a)) # Cardinality(PlannedXmp(p.kind, a))
  <1>1. r = IF \E a \in p.assets : Unsupported(p.kind, a) THEN Refused("UnsupportedMetadata")
            ELSE IF \E a \in p.assets : ~Resolved(a, fs) \/ lost(a) THEN Refused("Invariant")
            ELSE IF ~UploadValid(operations) THEN Refused("InvalidPlan")
            ELSE [result |-> "planned", operations |-> operations]
    BY DEF Planned
  <1>2. \A a \in p.assets : ~Unsupported(p.kind, a) => ~lost(a)
    BY XmpFound
  <1>3. \A a \in p.assets : Resolved(a, fs)
    BY DEF Executable
  <1>4. \A a : /\ op(a).id = Operation(a) /\ op(a).len = a.len /\ op(a).role = Role(p, a)
               /\ op(a).xmp = xmp(a)
    OBVIOUS
  <1>5. \A a : xmp(a) \subseteq fs
    OBVIOUS
  <1>. HIDE DEF xmp, lost, r
  <1>6. \/ r = Refused("UnsupportedMetadata")
        \/ ~UploadValid(operations) /\ r = Refused("InvalidPlan")
        \/ r = [result |-> "planned", operations |-> operations]
    BY <1>1, <1>2, <1>3
  <1>. HIDE DEF op
  <1>7. ASSUME ~UploadValid(operations) PROVE \E f \in fs : f.len = 0
    <2>1. PICK a \in p.assets :
            ~(/\ op(a).len > 0 /\ \A f \in op(a).xmp : f.len > 0
              /\ op(a).role.role = "image" => op(a).role.video # {})
      BY <1>7 DEF UploadValid
    <2>2. op(a).role.role = "image" => op(a).role.video # {}
      BY <1>4, ImageHasVideo
    <2>3. CASE ~(op(a).len > 0)
      <3>1. PICK f \in fs : f.len = a.len
        BY <1>3 DEF Resolved
      <3>2. f.len \in Nat /\ ~(f.len > 0)
        BY <1>4, <2>3, <3>1 DEF Executable
      <3>. QED
        BY <3>2
    <2>4. CASE \E f \in op(a).xmp : ~(f.len > 0)
      <3>1. PICK f \in fs : ~(f.len > 0)
        BY <1>4, <1>5, <2>4
      <3>2. f.len \in Nat
        BY DEF Executable
      <3>. QED
        BY <3>1, <3>2
    <2>. QED
      BY <2>1, <2>2, <2>3, <2>4
  <1>8. Paired(operations)
    <2>. DEFINE images == {o \in operations : o.role.role = "image"}
                videos == {o.id : o \in {x \in operations : x.role.role = "video"}}
    <2>1. ASSUME NEW o \in images
          PROVE  \E a, v \in p.assets : /\ o = op(a) /\ o.role.video = {Operation(v)}
                                        /\ Operation(v) \in videos /\ v.live.pair = Pair(a, v)
      <3>1. PICK a \in p.assets : o = op(a) /\ Role(p, a).role = "image"
        BY <1>4
      <3>2. PICK v \in p.assets : /\ Role(p, a).video = {Operation(v)} /\ Role(p, v).role = "video"
                                  /\ v.live.pair = Pair(a, v)
        BY <3>1, ImageHasVideo
      <3>3. op(v) \in operations /\ op(v).role.role = "video" /\ op(v).id = Operation(v)
        BY <1>4, <3>2
      <3>4. Operation(v) \in videos
        BY <3>3
      <3>. QED
        BY <1>4, <3>1, <3>2, <3>4
    <2>2. ASSUME NEW o \in images, NEW q \in images \ {o}
          PROVE  q.role.video \cap o.role.video = {}
      <3>1. PICK a, v \in p.assets : /\ o = op(a) /\ o.role.video = {Operation(v)}
                                     /\ v.live.pair = Pair(a, v)
        BY <2>1
      <3>2. PICK b, w \in p.assets : /\ q = op(b) /\ q.role.video = {Operation(w)}
                                     /\ w.live.pair = Pair(b, w)
        BY <2>1
      <3>3. ASSUME Operation(v) = Operation(w) PROVE FALSE
        <4>1. v.path = w.path
          BY <3>3 DEF Operation
        <4>2. v = w
          BY <4>1 DEF Executable, OnePerPath
        <4>3. a.path = b.path
          BY <3>1, <3>2, <4>2 DEF Pair
        <4>4. a = b
          BY <4>3 DEF Executable, OnePerPath
        <4>. QED
          BY <2>2, <3>1, <3>2, <4>4
      <3>. QED
        BY <3>1, <3>2, <3>3
    <2>3. \A o \in images : Cardinality(o.role.video) = 1 /\ o.role.video \subseteq videos
      BY <2>1, FS_Singleton
    <2>. HIDE DEF images, videos
    <2>4. \A o \in images : /\ Cardinality(o.role.video) = 1 /\ o.role.video \subseteq videos
                            /\ \A q \in images \ {o} : q.role.video \cap o.role.video = {}
      BY <2>2, <2>3
    <2>. QED
      BY <2>4 DEF Paired, images, videos
  <1>9. Paired({})
    BY DEF Paired
  <1>. HIDE DEF operations
  <1>. QED
    BY <1>6, <1>7, <1>8, <1>9 DEF Refused, r

-----------------------------------------------------------------------------
(* The documents and the plan *)

\* The digest of an entry is as long as the entry.
LEMMA BlocksLength ==
  ASSUME NEW c \in AllContents
  PROVE  Len(Blocks(c)) = LenOf[c] /\ \A i \in 1..LenOf[c] : Blocks(c)[i] = c
  <1>1. LenOf[c] \in Nat
    BY ScanAssumption
  <1>2. PICK n \in Nat : n = LenOf[c]
    BY <1>1
  <1>3. Blocks(c) = [i \in 1..n |-> c]
    BY <1>2 DEF Blocks
  <1>. QED
    BY <1>2, <1>3

\* A document is what parse_bytes can make of a content.
LEMMA BytesParsed ==
  ASSUME NEW path, NEW c \in AllContents
  PROVE  parse_bytes(path, c) \in Document
  <1>1. DocOf[c] \in [status : {"ok", "invalid"}, title : Titles, facts : [Fields -> FactValues]]
    BY PlanAssumption
  <1>2. [DocOf[c] EXCEPT !.status = "invalid"] \in Document /\ DocOf[c] \in Document
    BY <1>1 DEF Document
  <1>. QED
    BY <1>2 DEF parse_bytes

\* parse_document gives a document in any case.
LEMMA DocumentParsed ==
  ASSUME ScanOK, DocsOK, NEW s \in found.sidecars
  PROVE  parse_document(s) \in Document
  <1>1. BadDocument("invalid") \in Document /\ BadDocument("changed") \in Document
    BY DEF BadDocument, Document, NoFacts, FactValues
  <1>2. s \in Found /\ s.len \in Nat
    BY DEF ScanOK, FoundOK, Found
  <1>3. ASSUME archived, s.len # 0 PROVE s.digest[1] \in AllContents
    <2>1. PICK e \in Entries : s.digest = Blocks(e.content)
      <3>1. /\ s.path \in Portable /\ MergeOK(s.path) /\ Copies(s.path) # {}
            /\ \A y \in Found : s.path = y.path => s = y
        BY <1>2, <1>3 DEF ScanOK, ArchiveOK, FoundOK
      <3>2. Copies(s.path) = {seen[s.path]} /\ s.digest = seen[s.path].digest
        BY <1>2, <3>1 DEF MergeOK
      <3>3. PICK e \in Entries : seen[s.path] = Identity(e)
        BY <3>2 DEF Copies
      <3>. QED
        BY <3>2, <3>3 DEF Identity
    <2>2. e.content \in AllContents
      BY DEF AllContents
    <2>3. s.len = LenOf[e.content] /\ LenOf[e.content] \in Nat
      BY <1>2, <1>3, <2>1, <2>2, BlocksLength, ScanAssumption DEF DocsOK
    <2>. QED
      BY <1>3, <2>1, <2>2, <2>3, BlocksLength
  <1>4. ASSUME ~archived, disk[s.native] # None PROVE disk[s.native].content \in AllContents
    <2>1. s.native \in Natives
      BY <1>2, <1>4 DEF ScanOK, WalkOK, Passed
    <2>2. disk[s.native] \in Version
      BY <1>4, <2>1 DEF ScanOK, WorldOK
    <2>. QED
      BY <2>2 DEF Version
  <1>5. CASE archived
    BY <1>1, <1>3, <1>5, BytesParsed DEF parse_document
  <1>6. CASE ~archived
    BY <1>1, <1>4, <1>6, BytesParsed DEF parse_document
  <1>. QED
    BY <1>5, <1>6

\* Every step keeps the documents.
LEMMA DocsStep == ASSUME ScanOK, DocsOK, [Next]_vars PROVE DocsOK'
  <1>1. CASE UNCHANGED <<archived, found, docs>>
    BY <1>1 DEF DocsOK, Found
  <1>2. CASE ~archived /\ UNCHANGED <<archived, docs>>
    BY <1>2 DEF DocsOK
  <1>3. archived => listed = {} /\ phase \notin {"open", "read"}
    BY DEF ScanOK, ArchiveOK
  <1>4. CASE WriterChanges \/ ListDirectory \/ Stat \/ Open \/ Recheck
    <2>1. ~archived
      BY <1>3, <1>4 DEF WriterChanges, Change, ListDirectory, Stat, Open, Recheck
    <2>2. UNCHANGED <<archived, docs>>
      BY <1>4 DEF WriterChanges, Change, ListDirectory, Stat, Open, Recheck, End, inputs
    <2>. QED
      BY <1>2, <2>1, <2>2
  <1>5. CASE Read \/ ScanFails \/ ScanOver \/ Finish \/ Create \/ UNCHANGED vars
    BY <1>1, <1>5 DEF Read, ScanFails, TakeoutPartRefused, PartRefused, Cancelled, IniRefused,
                      End, ScanOver, Finish, Create, vars, inputs
  <1>6. CASE ParseSidecar
    <2>1. PICK s \in ToParse : /\ docs' = [docs EXCEPT ![s.path] = parse_document(s)]
                               /\ UNCHANGED <<archived, found>>
      BY <1>6 DEF ParseSidecar, inputs
    <2>2. s \in found.sidecars
      BY Prepared DEF ToParse, ScanOK
    <2>3. parse_document(s) \in Document
      BY <2>2, DocumentParsed
    <2>. QED
      BY <2>1, <2>3 DEF DocsOK, Found
  <1>7. CASE \E e \in Entries : ReadEntry(e)
    <2>1. PICK e \in Entries : ReadEntry(e)
      BY <1>7
    <2>2. e.content \in AllContents /\ IsScan(found)
      BY DEF AllContents, ScanOK, FoundOK
    <2>. DEFINE new == MediaOf(None, e.path, LenOf[e.content], Blocks(e.content))
    <2>3. Found' \subseteq Found \cup {new}
      <3>1. CASE merge_entry(e)
        BY <2>2, <3>1 DEF merge_entry, Report, MediaOf, Found, IsScan
      <3>2. CASE ~merge_entry(e)
        BY <2>1, <2>2, <3>2 DEF ReadEntry, Report, Found, IsScan
      <3>. QED
        BY <3>1, <3>2
    <2>4. new.len = Len(new.digest)
      BY <2>2, BlocksLength DEF MediaOf, DiscoveredMedia, DiscoveredSidecar
    <2>5. UNCHANGED <<archived, docs>>
      BY <2>1 DEF ReadEntry, inputs
    <2>. HIDE DEF new
    <2>. QED
      BY <2>3, <2>4, <2>5 DEF DocsOK
  <1>. QED
    BY <1>4, <1>5, <1>6, <1>7 DEF Next

\* What the adapters add last is metadata.
LEMMA Finished ==
  ASSUME NEW a, IsMedia(a), NEW ini
  PROVE  /\ SameFile(apple_finish(a), a) /\ apple_finish(a).sidecars = a.sidecars
         /\ apple_finish(a).live = a.live
         /\ SameFile(picasa_finish(a, ini), a) /\ picasa_finish(a, ini).sidecars = a.sidecars
         /\ picasa_finish(a, ini).live = a.live
  <1>1. \E x : apple_finish(a) = a \/ apple_finish(a) = [a EXCEPT !.metadata = x]
    BY DEF apple_finish
  <1>2. \E x : picasa_finish(a, ini) = [a EXCEPT !.metadata = x]
    BY DEF picasa_finish
  <1>3. SameFile(a, a)
    BY DEF SameFile
  <1>4. /\ SameFile(apple_finish(a), a) /\ apple_finish(a).sidecars = a.sidecars
        /\ apple_finish(a).live = a.live
    BY <1>1, <1>3, GivenMetadata
  <1>5. /\ SameFile(picasa_finish(a, ini), a) /\ picasa_finish(a, ini).sidecars = a.sidecars
        /\ picasa_finish(a, ini).live = a.live
    BY <1>2, GivenMetadata
  <1>. QED
    BY <1>4, <1>5

\* The reconciled scan of any source is sound.
LEMMA ReconciledSound ==
  ASSUME ScanOK, DocsOK, source = "takeout" => ToParse = {}
  PROVE  /\ Sound(Reconciled) /\ LiveOK(Reconciled.media) /\ found.errors \subseteq Reconciled.errors
         /\ source = "takeout" /\ Reconciled.errors = {} =>
              \A m \in prepare(found).media : \E a \in Reconciled.media :
                 Kept(prepare(found), docs, m, a)
  <1>0. FoundOK
    BY DEF ScanOK
  <1>1. CASE source = "takeout"
    <2>1. ASSUME NEW s \in prepare(found).sidecars, s.kind = "json" PROVE docs[s.path] \in Document
      <3>1. docs[s.path] # None
        BY <1>1, <2>1 DEF ToParse
      <3>2. s.path \in Portable
        BY <1>0, Prepared DEF Sound, SidecarOK
      <3>. QED
        BY <3>1, <3>2 DEF DocsOK
    <2>2. Reconciled = takeout_reconcile(found, docs)
      BY <1>1 DEF Reconciled
    <2>. QED
      BY <1>0, <2>1, <2>2, TakeoutReconciled
  <1>2. CASE source # "takeout"
    <2>1. Reconciled = reconcile(found)
      BY <1>2 DEF Reconciled
    <2>. QED
      BY <1>0, <1>2, <2>1, PlainReconciled
  <1>. QED
    BY <1>1, <1>2

\* Every file is kept by a Takeout plan without errors.
AllKept ==
    (plan # None /\ source = "takeout" /\ plan.errors = {}) =>
        \A m \in prepare(found).media :
            \E a \in plan.assets : Kept(prepare(found), docs, m, a)

\* That is what NothingLost says.
LEMMA KeptIsNotLost == AllKept <=> NothingLost
  BY DEF AllKept, NothingLost, Kept

\* finish_plan: the plan has the reconciled files and reports what was found.
LEMMA StepFinish ==
  ASSUME ScanOK, DocsOK, Finish
  PROVE  PlanOK' /\ AllKept'
  <1>. DEFINE state == Reconciled
              base == finalize_plan(source, state)
              dirs == IF archived THEN {e.path.dir : e \in Entries}
                      ELSE {a.path.dir : a \in base.assets}
              bad == {diagnostic("PICASA_INI_INVALID", {d}) : d \in {x \in dirs : IniBad(x)}}
  <1>1. PICK ini :
            /\ plan' = CASE source = "apple" -> [base EXCEPT !.assets = {apple_finish(a) : a \in @}]
                         [] source = "picasa" ->
                              [base EXCEPT !.assets = {picasa_finish(a, ini[a.path.dir]) : a \in @},
                                           !.errors = @ \cup bad]
                         [] OTHER -> base
            /\ files' = resolved_files(state)
    BY DEF Finish
  <1>2. /\ UNCHANGED <<source, found, docs>> /\ (source = "takeout" => ToParse = {})
    BY DEF Finish, inputs
  <1>3. /\ Sound(state) /\ LiveOK(state.media) /\ found.errors \subseteq state.errors
        /\ source = "takeout" /\ state.errors = {} =>
              \A m \in prepare(found).media : \E a \in state.media :
                 Kept(prepare(found), docs, m, a)
    BY <1>2, ReconciledSound
  <1>. HIDE DEF state, dirs, bad
  <1>4. base = [kind |-> source, assets |-> state.media, warnings |-> state.warnings,
                errors |-> state.errors]
    BY DEF finalize_plan
  <1>. HIDE DEF base
  <1>5. \A m \in state.media : IsMedia(m)
    BY <1>3 DEF Sound, MediaOK
  <1>6. PICK G : /\ plan'.assets = {G[m] : m \in state.media} /\ state.errors \subseteq plan'.errors
                 /\ \A m \in state.media : /\ SameFile(G[m], m) /\ G[m].sidecars = m.sidecars
                                           /\ G[m].live = m.live
    <2>1. CASE source = "apple"
      <3>. DEFINE H == [m \in state.media |-> apple_finish(m)]
      <3>1. plan' = [base EXCEPT !.assets = {apple_finish(a) : a \in @}]
        BY <1>1, <2>1
      <3>2. plan'.assets = {H[m] : m \in state.media} /\ plan'.errors = state.errors
        BY <1>4, <3>1
      <3>3. \A m \in state.media : /\ SameFile(H[m], m) /\ H[m].sidecars = m.sidecars
                                   /\ H[m].live = m.live
        BY <1>5, Finished
      <3>. HIDE DEF H
      <3>. QED
        BY <3>2, <3>3
    <2>2. CASE source = "picasa"
      <3>. DEFINE H == [m \in state.media |-> picasa_finish(m, ini[m.path.dir])]
                  A == {picasa_finish(a, ini[a.path.dir]) : a \in state.media}
      <3>1. plan' = [base EXCEPT !.assets = A, !.errors = @ \cup bad]
        BY <1>1, <1>4, <2>2
      <3>2. A = {H[m] : m \in state.media}
        OBVIOUS
      <3>3. \A m \in state.media : /\ SameFile(H[m], m) /\ H[m].sidecars = m.sidecars
                                   /\ H[m].live = m.live
        BY <1>5, Finished
      <3>. HIDE DEF H, A
      <3>4. plan'.assets = A /\ plan'.errors = state.errors \cup bad
        BY <1>4, <3>1
      <3>. QED
        BY <3>2, <3>3, <3>4
    <2>3. CASE source \notin {"apple", "picasa"}
      <3>. DEFINE H == [m \in state.media |-> m]
      <3>1. plan' = base
        BY <1>1, <2>3
      <3>2. plan'.assets = {H[m] : m \in state.media} /\ plan'.errors = state.errors
        BY <1>4, <3>1
      <3>3. \A m \in state.media : /\ SameFile(H[m], m) /\ H[m].sidecars = m.sidecars
                                   /\ H[m].live = m.live
        BY DEF SameFile
      <3>. HIDE DEF H
      <3>. QED
        BY <3>2, <3>3
    <2>. QED
      BY <2>1, <2>2, <2>3
  <1>7. Executable(plan'.assets, files')
    <2>1. Executable({G[m] : m \in state.media}, resolved_files(state))
      BY <1>3, <1>6, FilesResolved
    <2>. QED
      BY <1>1, <1>6, <2>1
  <1>8. PlanOK'
    BY <1>2, <1>3, <1>6, <1>7 DEF PlanOK
  <1>9. ASSUME source = "takeout", plan'.errors = {}, NEW m \in prepare(found).media
        PROVE  \E a \in plan'.assets : Kept(prepare(found), docs, m, a)
    <2>1. plan' = base
      BY <1>1, <1>9
    <2>2. plan'.assets = state.media /\ plan'.errors = state.errors
      BY <1>4, <2>1
    <2>. QED
      BY <1>3, <1>9, <2>2
  <1>10. AllKept'
    BY <1>2, <1>9 DEF AllKept
  <1>. QED
    BY <1>8, <1>10

\* A plan changes no more, and neither does what it was made from.
LEMMA PlanStays ==
  ASSUME ScanOK, [Next]_vars, ~Finish, plan' # None
  PROVE  UNCHANGED <<source, found, docs, plan, files>>
  <1>1. UNCHANGED plan
    BY DEF Next, WriterChanges, Change, ListDirectory, End, Stat, Open, Read, Recheck, ReadEntry,
           ScanFails, TakeoutPartRefused, PartRefused, Cancelled, IniRefused, ScanOver,
           ParseSidecar, Create, vars
  <1>2. phase \notin {"list", "open", "read", "reconcile"}
    BY <1>1 DEF ScanOK, PhaseOK
  <1>3. WriterChanges \/ Create \/ UNCHANGED vars
    BY <1>2 DEF Next, ListDirectory, Stat, Open, Read, Recheck, ReadEntry,
           ScanFails, TakeoutPartRefused, PartRefused, Cancelled, IniRefused, ScanOver,
           ParseSidecar, Finish
  <1>. QED
    BY <1>3 DEF WriterChanges, Change, Create, vars, inputs

\* The result of a scan that made a plan.
ResultOK ==
    (phase = "done" /\ plan # None) =>
        /\ result.result # "Invariant"
        /\ (result.result = "InvalidPlan" /\ plan.errors = {}) => \E f \in files : f.len = 0
        /\ Paired(result.operations)

\* That is what PlanIsExecutable says.
LEMMA ResultIsExecutable == ResultOK <=> PlanIsExecutable
  BY DEF ResultOK, PlanIsExecutable, Paired

\* create_upload_plan and create_import_upload_plan, and the ways to get there.
LEMMA ResultStep == ASSUME ScanOK, PlanOK, ResultOK, [Next]_vars PROVE ResultOK'
  <1>1. SUFFICES ASSUME phase' = "done", plan' # None
                 PROVE  /\ result'.result # "Invariant"
                        /\ (result'.result = "InvalidPlan" /\ plan'.errors = {}) =>
                             \E f \in files' : f.len = 0
                        /\ Paired(result'.operations)
    BY DEF ResultOK
  <1>2. ASSUME NEW how, how \notin {"Invariant", "InvalidPlan"}, result' = Refused(how)
        PROVE  /\ result'.result \notin {"Invariant", "InvalidPlan"} /\ Paired(result'.operations)
    BY <1>2 DEF Refused, Paired
  <1>3. CASE Finish
    BY <1>1, <1>2, <1>3 DEF Finish
  <1>4. CASE ~Finish
    <2>0. UNCHANGED <<source, found, docs, plan, files>>
      BY <1>1, <1>4, PlanStays
    <2>1. Executable(plan.assets, files)
      BY <1>1, <2>0 DEF PlanOK
    <2>2. CASE Create
      <3>. DEFINE created == IF source = "folder" THEN create_upload_plan(plan, files)
                             ELSE create_import_upload_plan(plan, files)
      <3>1. result' = created \/ result' = Refused("SourceChanged")
        BY <2>2 DEF Create
      <3>2. \/ created = Planned(plan, files)
            \/ created = Refused("SourceDiagnostics")
            \/ created = Refused("InvalidPlan") /\ plan.errors # {}
        BY DEF create_upload_plan, create_import_upload_plan
      <3>. HIDE DEF created
      <3>3. CASE result' = Planned(plan, files)
        BY <2>0, <2>1, <3>3, OperationsPlanned
      <3>4. CASE result' = Refused("InvalidPlan") /\ plan.errors # {}
        BY <2>0, <3>4 DEF Refused, Paired
      <3>. QED
        BY <1>2, <3>1, <3>2, <3>3, <3>4
    <2>3. CASE ~Create
      <3>1. phase \notin {"list", "open", "read", "reconcile"}
        BY <1>1, <2>0 DEF ScanOK, PhaseOK
      <3>2. WriterChanges \/ UNCHANGED vars
        BY <1>4, <2>3, <3>1 DEF Next, ListDirectory, Stat, Open, Read, Recheck, ReadEntry,
           ScanFails, TakeoutPartRefused, PartRefused, Cancelled, IniRefused, ScanOver,
           ParseSidecar
      <3>3. UNCHANGED <<phase, result>>
        BY <3>2 DEF WriterChanges, Change, vars
      <3>. QED
        BY <1>1, <2>0, <3>3 DEF ResultOK
    <2>. QED
      BY <2>2, <2>3
  <1>. QED
    BY <1>3, <1>4

\* Whatever happens to the files, what is made of a scan holds together: the
\* findings, the documents, and the plan that keeps them.
THEOREM PlanInvariance == Spec => [](ScanOK /\ DocsOK /\ PlanOK /\ AllKept /\ ResultOK)
  <1>. DEFINE Inv == ScanOK /\ DocsOK /\ PlanOK /\ AllKept /\ ResultOK
  <1>1. ASSUME Init PROVE Inv
    <2>1. Found = {} /\ plan = None /\ docs = [p \in Portable |-> None]
      BY <1>1 DEF Init, ScanState, Found
    <2>2. DocsOK
      BY <2>1 DEF DocsOK
    <2>. QED
      BY <1>1, <2>1, <2>2, ScanInit DEF PlanOK, AllKept, ResultOK
  <1>2. ASSUME Inv, [Next]_vars PROVE Inv'
    <2>1. ScanOK' /\ DocsOK' /\ ResultOK'
      BY <1>2, ScanStep, DocsStep, ResultStep
    <2>2. CASE Finish
      BY <1>2, <2>1, <2>2, StepFinish
    <2>3. CASE ~Finish /\ plan' # None
      <3>1. UNCHANGED <<source, found, docs, plan, files>>
        BY <1>2, <2>3, PlanStays
      <3>2. PlanOK' /\ AllKept'
        BY <1>2, <3>1 DEF PlanOK, AllKept
      <3>. QED
        BY <2>1, <3>2
    <2>4. CASE plan' = None
      BY <2>1, <2>4 DEF PlanOK, AllKept
    <2>. QED
      BY <2>2, <2>3, <2>4
  <1>. QED
    BY <1>1, <1>2, PTL DEF Spec

\* stream_identity: a file that the plan does not report as changed has the
\* digest of a content it really had, whoever writes to it during the scan.
THEOREM UnreportedFilesAreWhole == Spec => []UnreportedIsWhole
  <1>1. ASSUME ScanOK, PlanOK PROVE UnreportedIsWhole
    <2>1. SUFFICES ASSUME plan # None, ~archived, NEW x \in Found
                   PROVE  \/ diagnostic("SOURCE_CHANGED", {x.path}) \in plan.errors
                          \/ \E c \in past[x.native] : x.digest = Blocks(c)
      BY DEF UnreportedIsWhole, Found
    <2>2. Whole(x)
      BY <1>1, <2>1 DEF ScanOK, WalkOK
    <2>. QED
      BY <1>1, <2>1, <2>2 DEF Whole, PlanOK
  <1>. QED
    BY <1>1, PlanInvariance, PTL

\* takeout_reconcile: a plan without errors loses no file, no value of a
\* document and no album.
THEOREM TakeoutLosesNothing == Spec => []NothingLost
  BY KeptIsNotLost, PlanInvariance, PTL

\* The planners: a scan without errors is refused only for a reason its plan
\* shows, and the images and videos of Live Photos are paired off.
THEOREM PlansAreExecutable == Spec => []PlanIsExecutable
  BY ResultIsExecutable, PlanInvariance, PTL
=============================================================================
