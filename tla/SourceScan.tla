----------------------------- MODULE SourceScan -----------------------------
(***************************************************************************)
(* One scan of a source, and the upload plan made from it.  A directory is *)
(* listed, and each file is examined, opened, read block by block and      *)
(* examined again (discovery.rs, identity.rs) while other programs write,  *)
(* replace and remove files; the entries of ZIP parts are merged in the    *)
(* order of the parts (takeout_archive.rs, apple_archive.rs).  Then the    *)
(* findings are reconciled, and the plan is created from the result.       *)
(*                                                                         *)
(* A file is a version [ino, mtime, content]; its bytes are LenOf[content] *)
(* blocks, and a digest is the sequence of the blocks that were hashed.    *)
(* Every write gives a file a new modification time.                       *)
(***************************************************************************)
EXTENDS Reconcile, Sequences

CONSTANTS
    Sources,      \* the adapters: subset of {"folder", "takeout", "apple", "picasa"}
    Natives,      \* names a directory may hold: [path, form, content], content at first
    Entries,      \* entries a ZIP part may hold: [path, content, time]
    Contents,     \* what a writer can put into a file
    LenOf,        \* content -> number of blocks
    DocOf,        \* content -> [status, title, facts]: what parse_bytes makes of it
    IniOf,        \* content -> [status, album, captions]: what picasa_ini makes of it
    Specials,     \* natives that are links or devices
    NoisePaths,   \* paths that export_noise_path recognises
    MaxEntries, MaxDirectoryEntries,
    MaxChanges    \* bound on writes, replacements, removals and failures

VARIABLES
    source, archived,   \* the adapter, and whether its inputs are ZIP parts
    disk,         \* native -> version or None
    past,         \* native -> the contents it has had
    changes,
    phase,        \* "list", "open", "read", "reconcile", "create", "done"
    toList, listed,     \* directories, and entries of the current one, to come
    entriesSeen,
    cur,          \* the file being read
    found,        \* ScanState
    seen,         \* archives: path -> identity, "conflict" or None
    got,          \* archives: entry -> how often it was read
    docs,         \* path of a JSON sidecar -> its document
    plan, files,  \* ResolvedFolderPlan
    result        \* how the scan or the planning ended, and the operations

vars == <<source, archived, disk, past, changes, phase, toList, listed, entriesSeen,
          cur, found, seen, got, docs, plan, files, result>>
inputs == <<source, archived>>
world == <<disk, past, changes>>
walk == <<toList, listed, entriesSeen, cur, seen, got>>

Portable == {n.path : n \in Natives} \cup {e.path : e \in Entries}
Blocks(content) == [i \in 1..LenOf[content] |-> content]
Unread == [native |-> None]

\* What a file and an entry can be.
AllContents == Contents \cup {n.content : n \in Natives} \cup {e.content : e \in Entries}
Version == [ino : Nat, mtime : Nat, content : AllContents]
EntryIdentity == [kind : {"image", "video", None} \X {"json", "xmp", None},
                  digest : {Blocks(c) : c \in AllContents},
                  time : {0} \cup {e.time : e \in Entries}]

ASSUME ScanAssumption ==
    /\ IsFiniteSet(Natives) /\ IsFiniteSet(Entries)
    /\ \A c \in AllContents : LenOf[c] \in Nat
    /\ None \notin Version /\ None \notin EntryIdentity /\ None # [digest |-> "conflict"]

\* What a plan can say of an asset: its place in a Live Photo and its metadata.
LivePhoto == [pair : (SUBSET Portable) \X (SUBSET Portable), role : {"image", "video"}]
FactValues == {DocOf[c].facts[f] : c \in AllContents, f \in Fields} \cup {None}
Titles == {DocOf[c].title : c \in AllContents} \cup {p.dir : p \in Portable}
NormalizedMetadata == [facts : [Fields -> FactValues], albums : SUBSET Titles]

ASSUME PlanAssumption ==
    /\ \A c \in AllContents : DocOf[c] \in [status : {"ok", "invalid"}, title : Titles,
                                            facts : [Fields -> FactValues]]
    /\ None \notin LivePhoto /\ None \notin NormalizedMetadata

TypeOK ==
    /\ source \in Sources /\ archived \in BOOLEAN
    /\ phase \in {"list", "open", "read", "reconcile", "create", "done"}
    /\ toList \subseteq {n.path.dir : n \in Natives} /\ listed \subseteq Natives
    /\ found.media \cap found.sidecars = {}
    /\ changes \in 0..MaxChanges /\ entriesSeen \in 0..MaxEntries

\* A source tree with any of its possible files in place.
Init ==
    /\ source \in Sources /\ archived \in (IF source = "folder" THEN {FALSE} ELSE BOOLEAN)
    /\ \E present \in IF archived THEN {{}} ELSE SUBSET Natives :
          disk = [n \in Natives |-> IF n \in present
                    THEN [ino |-> 0, mtime |-> 0, content |-> n.content] ELSE None]
    /\ past = [n \in Natives |-> IF disk[n] = None THEN {} ELSE {n.content}]
    /\ changes = 0
    /\ phase = "list"
    /\ toList = {n.path.dir : n \in Natives} /\ listed = {} /\ entriesSeen = 0
    /\ cur = Unread /\ found = ScanState
    /\ seen = [p \in Portable |-> None] /\ got = [e \in Entries |-> 0]
    /\ docs = [p \in Portable |-> None]
    /\ plan = None /\ files = {} /\ result = None

-----------------------------------------------------------------------------
(* What other programs do to the directory.                                *)

Change(n, version) ==
    /\ phase # "done" /\ ~archived /\ changes < MaxChanges
    /\ changes' = changes + 1
    /\ disk' = [disk EXCEPT ![n] = version]
    /\ past' = [past EXCEPT ![n] = @ \cup (IF version = None THEN {} ELSE {version.content})]
    \* a write in place also reaches the file that the scanner has open
    /\ cur' = IF cur.native = n /\ phase = "read" /\ version # None
                 /\ disk[n] # None /\ version.ino = cur.handle.ino
              THEN [cur EXCEPT !.handle = version] ELSE cur
    /\ UNCHANGED <<inputs, phase, toList, listed, entriesSeen, found, seen, got,
                   docs, plan, files, result>>

WriterChanges ==
    \E n \in Natives, c \in Contents :
        /\ disk[n] # None
        /\ \/ Change(n, [disk[n] EXCEPT !.mtime = changes + 1, !.content = c])
           \/ Change(n, [ino |-> changes + 1, mtime |-> 0, content |-> c])
           \/ Change(n, None)

-----------------------------------------------------------------------------
(* Directory inputs.                                                       *)

Report(severity, rule, path) ==
    found' = [found EXCEPT ![severity] = @ \cup {diagnostic(rule, {path})}]

End(how) ==
    /\ phase' = "done" /\ result' = Refused(how)
    /\ UNCHANGED <<inputs, world, walk, found, docs, plan, files>>

\* directory_entries of the next directory, or an unreadable one.
ListDirectory ==
    /\ phase = "list" /\ ~archived /\ listed = {} /\ toList # {}
    /\ LET dir == CHOOSE d \in toList : TRUE
           there == {n \in Natives : disk[n] # None /\ n.path.dir = dir}
       IN \/ /\ Cardinality(there) <= MaxDirectoryEntries
             /\ toList' = toList \ {dir} /\ listed' = there
             /\ UNCHANGED <<inputs, world, phase, entriesSeen, cur, found, seen, got,
                            docs, plan, files, result>>
          \/ Cardinality(there) > MaxDirectoryEntries /\ End("LimitExceeded")
          \/ /\ changes < MaxChanges /\ changes' = changes + 1
             /\ Report("errors", "UNREADABLE", dir)
             /\ toList' = toList \ {dir}
             /\ UNCHANGED <<inputs, disk, past, phase, listed, entriesSeen, cur, seen,
                            got, docs, plan, files, result>>

\* export_noise_path, in Apple exports.
Noise(path) == source = "apple" /\ path \in NoisePaths

\* discover takes the next entry: process_entry looks at it without following
\* links, and only regular files with a known extension go on to be read.
Stat ==
    /\ phase = "list" /\ listed # {}
    /\ LET n == CHOOSE m \in listed : TRUE
           regular == n \notin Specials /\ ~Noise(n.path)
           known == media_kind(n.path) # None \/ metadata_kind(n.path) # None
       IN IF entriesSeen = MaxEntries THEN End("LimitExceeded")
          ELSE /\ listed' = listed \ {n} /\ entriesSeen' = entriesSeen + 1
               /\ IF disk[n] # None /\ regular /\ known
                  THEN /\ phase' = "open"
                       /\ cur' = [native |-> n, before |-> disk[n]]
                       /\ UNCHANGED found
                  ELSE /\ IF disk[n] = None THEN Report("errors", "UNREADABLE", n.path)
                          ELSE IF ~regular THEN Report("warnings", "SKIPPED", n.path)
                          ELSE UNCHANGED found
                       /\ UNCHANGED <<phase, cur>>
               /\ UNCHANGED <<inputs, world, toList, seen, got, docs, plan, files, result>>

\* stream_identity, up to the first read.
Open ==
    /\ phase = "open"
    /\ IF disk[cur.native] = None
       THEN /\ Report("errors", "UNREADABLE", cur.native.path)
            /\ phase' = "list" /\ cur' = Unread
       ELSE /\ cur' = [native |-> cur.native, before |-> cur.before,
                       opened |-> disk[cur.native], handle |-> disk[cur.native],
                       read |-> <<>>]
            /\ phase' = "read" /\ UNCHANGED found
    /\ UNCHANGED <<inputs, world, toList, listed, entriesSeen, seen, got, docs, plan,
                   files, result>>

\* No more than the length at opening is read; a shortened file ends early.
MoreToRead == Len(cur.read) < LenOf[cur.opened.content]
              /\ Len(cur.read) < LenOf[cur.handle.content]

Read ==
    /\ phase = "read" /\ MoreToRead
    /\ cur' = [cur EXCEPT !.read = Append(@, cur.handle.content)]
    /\ UNCHANGED <<inputs, world, phase, toList, listed, entriesSeen, found, seen, got,
                   docs, plan, files, result>>

Snapshot(v) == [ino |-> v.ino, mtime |-> v.mtime, len |-> LenOf[v.content]]

\* Mutant: only the path is examined again, not its modification time.
ChangedLengthOnly ==
    \/ Snapshot(cur.before).len # Snapshot(cur.opened).len
    \/ Snapshot(cur.opened).len # Snapshot(disk[cur.native]).len
    \/ Len(cur.read) # LenOf[cur.opened.content]

Changed ==
    \/ Snapshot(cur.before) # Snapshot(cur.opened)
    \/ Snapshot(cur.opened) # Snapshot(cur.handle)
    \/ Snapshot(cur.opened) # Snapshot(disk[cur.native])
    \/ Len(cur.read) # LenOf[cur.opened.content]

\* The file is examined by handle and by path; one that changed is reported,
\* and kept.
Recheck ==
    /\ phase = "read" /\ ~MoreToRead
    /\ LET n == cur.native
           errors == IF disk[n] # None /\ Changed
                     THEN {diagnostic("SOURCE_CHANGED", {n.path})} ELSE {}
       IN IF disk[n] = None THEN Report("errors", "UNREADABLE", n.path)
          ELSE found' = IF media_kind(n.path) # None
               THEN [found EXCEPT !.errors = @ \cup errors, !.media = @ \cup
                       {DiscoveredMedia(n, n.path, Len(cur.read), cur.read)}]
               ELSE [found EXCEPT !.errors = @ \cup errors, !.sidecars = @ \cup
                       {DiscoveredSidecar(n, n.path, Len(cur.read), cur.read)}]
    /\ phase' = "list" /\ cur' = Unread
    /\ UNCHANGED <<inputs, world, toList, listed, entriesSeen, seen, got, docs, plan,
                   files, result>>

-----------------------------------------------------------------------------
(* ZIP inputs.                                                             *)

\* Apple and Picasa parts compare the time of an entry too.
Identity(e) == [kind |-> <<media_kind(e.path), metadata_kind(e.path)>>,
                digest |-> Blocks(e.content),
                time |-> IF source = "takeout" THEN 0 ELSE e.time]

\* Mutant: a conflict forgets that the path was ever seen.
ConflictForgets(path) == [seen EXCEPT ![path] = None]

\* A path with two contents is out for good.
Conflict(path) == [seen EXCEPT ![path] = [digest |-> "conflict"]]

\* merge_entry, for entries of the layout with a known extension.
merge_entry(e) ==
    IF seen[e.path] = None
    THEN /\ seen' = [seen EXCEPT ![e.path] = Identity(e)]
         /\ found' = IF media_kind(e.path) # None
               THEN [found EXCEPT !.media = @ \cup
                       {DiscoveredMedia(None, e.path, LenOf[e.content], Blocks(e.content))}]
               ELSE [found EXCEPT !.sidecars = @ \cup
                       {DiscoveredSidecar(None, e.path, LenOf[e.content], Blocks(e.content))}]
    ELSE IF seen[e.path] = Identity(e)
    THEN Report("warnings", "ARCHIVE_DUPLICATE", e.path) /\ UNCHANGED seen
    ELSE /\ seen' = Conflict(e.path)
         /\ found' = [found EXCEPT !.media = {m \in @ : m.path # e.path},
                                   !.sidecars = {s \in @ : s.path # e.path},
                                   !.errors = @ \cup {diagnostic("ARCHIVE_CONFLICT", {e.path})}]

\* In the parts of a Takeout: everything but the root is Takeout/Google Photos.
InLayout(path) == source = "takeout" => path.dir # None

Merged(e) == /\ ~Noise(e.path) /\ InLayout(e.path)
             /\ media_kind(e.path) # None \/ metadata_kind(e.path) # None

\* scan_archive reads the next entry, of any part in any order.
ReadEntry(e) ==
    /\ phase = "list" /\ archived /\ entriesSeen < MaxEntries
    /\ entriesSeen' = entriesSeen + 1 /\ got' = [got EXCEPT ![e] = @ + 1]
    /\ IF Noise(e.path) THEN Report("warnings", "SKIPPED", e.path) /\ UNCHANGED seen
       ELSE IF Merged(e) THEN merge_entry(e)
       ELSE UNCHANGED <<found, seen>>
    /\ UNCHANGED <<inputs, world, phase, toList, listed, cur, docs, plan, files, result>>

\* Anything wrong with a part or an entry (its path, length, compression or a
\* change of the part), and one entry too many, ends the scan without a plan.
\* Takeout parts have checks of their own.
TakeoutPartRefused ==
    phase = "list" /\ archived /\ source = "takeout" /\ End("InvalidArchive")

PartRefused ==
    phase = "list" /\ archived /\ source # "takeout" /\ End("InvalidArchive")

\* check_cancelled, wherever it is called.
Cancelled == phase \in {"list", "open", "read"} /\ End("Cancelled")

\* read_bounded: a .picasa.ini that cannot be read or is too long.
IniRefused == phase = "reconcile" /\ source = "picasa" /\ End("UnreadableIni")

\* What ends a scan without a plan.
ScanFails ==
    /\ changes < MaxChanges
    /\ TakeoutPartRefused \/ PartRefused \/ Cancelled \/ IniRefused

-----------------------------------------------------------------------------
(* From the findings to the plan.                                          *)

parse_bytes(path, content) ==
    LET doc == DocOf[content]
    IN IF LenOf[content] = 0 \/ (doc.title = None /\ ~is_album_document(path))
       THEN [doc EXCEPT !.status = "invalid"] ELSE doc

BadDocument(status) == [status |-> status, title |-> None, facts |-> NoFacts]

\* parse_document: a file is read again and must still have the length and
\* the digest of the scan; an entry was parsed when it was read.
parse_document(s) ==
    LET v == IF archived THEN None ELSE disk[s.native]
    IN IF s.len = 0 THEN BadDocument("invalid")
       ELSE IF archived THEN parse_bytes(s.path, s.digest[1])
       ELSE IF v = None THEN BadDocument("invalid")
       ELSE IF Blocks(v.content) # s.digest THEN BadDocument("changed")
       ELSE parse_bytes(s.path, v.content)

ToParse == {s \in prepare(found).sidecars : s.kind = "json" /\ docs[s.path] = None}

ScanOver ==
    /\ phase = "list"
    /\ archived \/ (listed = {} /\ toList = {})
    /\ IF source = "takeout" /\ archived
          /\ ~ \E e \in Entries : got[e] > 0 /\ InLayout(e.path)
       THEN End("UnsupportedLayout")
       ELSE phase' = "reconcile" /\ UNCHANGED <<inputs, world, walk, found, docs, plan,
                                                files, result>>

ParseSidecar ==
    /\ phase = "reconcile" /\ source = "takeout"
    /\ ToParse # {}
    /\ LET s == CHOOSE t \in ToParse : TRUE
       IN docs' = [docs EXCEPT ![s.path] = parse_document(s)]
    /\ UNCHANGED <<inputs, world, phase, walk, found, plan, files, result>>

\* The .picasa.ini files: one next to any asset, or any in the parts, where
\* the first valid one of a directory stays and every other is an error.
Inis(xs, dir) == {x \in xs : x.path.dir = dir /\ x.path.name.ext = "ini"}

directory_documents(dir) == {disk[n].content : n \in {m \in Inis(Natives \ Specials, dir) :
                                                        disk[m] # None}}
archive_documents(dir) == {e.content : e \in {x \in Inis(Entries, dir) : got[x] > 0}}

IniContents(dir) == IF archived THEN archive_documents(dir) ELSE directory_documents(dir)

IniBad(dir) ==
    \/ \E c \in IniContents(dir) : IniOf[c].status # "ok"
    \/ archived /\ MapThenSumSet(LAMBDA e : got[e], Inis(Entries, dir)) > 1
    \/ ~archived /\ \E n \in Inis(Specials, dir) : disk[n] # None
ValidInis(dir) == {IniOf[c] : c \in {x \in IniContents(dir) : IniOf[x].status = "ok"}}

\* resolved_files: what the planners may look up, sidecars included.
resolved_files(state) == {[path |-> x.path, native |-> x.native, len |-> x.len, digest |-> x.digest] :
                            x \in state.media \cup state.sidecars}

Reconciled == IF source = "takeout" THEN takeout_reconcile(found, docs) ELSE reconcile(found)

\* The adapter's reconciliation, its last additions and the validation.
Finish ==
    /\ phase = "reconcile" /\ (source = "takeout" => ToParse = {})
    /\ LET state == Reconciled
           base == finalize_plan(source, state)
           dirs == IF archived THEN {e.path.dir : e \in Entries}
                   ELSE {a.path.dir : a \in base.assets}
           bad == {diagnostic("PICASA_INI_INVALID", {d}) : d \in {x \in dirs : IniBad(x)}}
       IN \E ini \in [dirs -> UNION {ValidInis(d) : d \in dirs} \cup {None}] :
            /\ \A d \in dirs : IF ValidInis(d) = {} THEN ini[d] = None ELSE ini[d] \in ValidInis(d)
            /\ plan' = CASE source = "apple" -> [base EXCEPT !.assets = {apple_finish(a) : a \in @}]
                         [] source = "picasa" ->
                              [base EXCEPT !.assets = {picasa_finish(a, ini[a.path.dir]) : a \in @},
                                           !.errors = @ \cup bad]
                         [] OTHER -> base
            /\ files' = resolved_files(state)
            /\ IF NormalizedValid(plan')
               THEN phase' = "create" /\ UNCHANGED result
               ELSE phase' = "done" /\ result' = Refused("InvalidScan")
    /\ UNCHANGED <<inputs, world, walk, found, docs>>

\* create_upload_plan looks at every file once more for its timestamps.
Stale == source = "folder" /\ plan.errors = {} /\
         \E f \in {g \in files : g.path \in Paths(plan.assets)} :
            disk[f.native] # None => LenOf[disk[f.native].content] # f.len

Create ==
    /\ phase = "create"
    /\ LET created == IF source = "folder" THEN create_upload_plan(plan, files)
                      ELSE create_import_upload_plan(plan, files)
       IN \/ result' = created /\ (Stale => created.result = "UnsupportedMetadata")
          \/ Stale /\ result' = Refused("SourceChanged")
    /\ phase' = "done"
    /\ UNCHANGED <<inputs, world, walk, found, docs, plan, files>>

Next ==
    \/ WriterChanges
    \/ ListDirectory \/ Stat \/ Open \/ Read \/ Recheck
    \/ \E e \in Entries : ReadEntry(e)
    \/ ScanFails \/ ScanOver \/ ParseSidecar \/ Finish \/ Create

Spec == Init /\ [][Next]_vars

-----------------------------------------------------------------------------
\* Writers at any moment of the scan: a file that the plan does not report as
\* changed has the digest of a content it really had, never a mix of two.
UnreportedIsWhole ==
    (plan # None /\ ~archived) =>
        \A x \in found.media \cup found.sidecars :
            \/ diagnostic("SOURCE_CHANGED", {x.path}) \in plan.errors
            \/ \E c \in past[x.native] : x.digest = Blocks(c)

\* However the parts are ordered, an archive scan finds exactly the paths
\* whose copies are all alike, and reports the others.
MergeIsOrderFree ==
    archived =>
        LET read == {e \in Entries : got[e] > 0 /\ Merged(e)}
            copies(p) == {Identity(e) : e \in {x \in read : x.path = p}}
            paths == {e.path : e \in read}
        IN /\ {<<x.path, x.digest>> : x \in found.media \cup found.sidecars}
                = {<<p, (CHOOSE i \in copies(p) : TRUE).digest>> :
                     p \in {q \in paths : Cardinality(copies(q)) = 1}}
           /\ {p \in paths : diagnostic("ARCHIVE_CONFLICT", {p}) \in found.errors}
                = {p \in paths : Cardinality(copies(p)) > 1}

\* A Takeout plan without errors loses nothing: the asset that stands for a
\* file is in the album of every directory that holds a copy, and has every
\* value of every document that belongs to a copy.
NothingLost ==
    (plan # None /\ source = "takeout" /\ plan.errors = {}) =>
        LET state == prepare(found)
            json == {s \in state.sidecars : s.kind = "json"}
            for(s) == Candidates(state, s, docs[s.path])
        IN \A m \in state.media :
             \E a \in plan.assets :
                /\ a.len = m.len /\ a.digest = m.digest
                /\ \A s \in json :
                     /\ for(s) = {m} => \A f \in Fields :
                          docs[s.path].facts[f] # None =>
                              /\ a.metadata # None
                              /\ a.metadata.facts[f] = docs[s.path].facts[f]
                     /\ (for(s) = {} /\ is_album_document(s.path) /\ s.path.dir = m.path.dir) =>
                          /\ a.metadata # None
                          /\ Title(s.path, docs[s.path]) \in a.metadata.albums

\* The planners miss no file of a finished scan; of a scan without errors the
\* upload plan is invalid only if a file is empty (that the source changed or
\* that metadata cannot be uploaded are refusals of their own); and in an upload
\* plan every Live Photo image has one video, which is no other's.
PlanIsExecutable ==
    LET images == {o \in result.operations : o.role.role = "image"}
        videos == {o.id : o \in {x \in result.operations : x.role.role = "video"}}
    IN (phase = "done" /\ plan # None) =>
        /\ result.result # "Invariant"
        /\ (result.result = "InvalidPlan" /\ plan.errors = {}) => \E f \in files : f.len = 0
        /\ \A o \in images : /\ Cardinality(o.role.video) = 1 /\ o.role.video \subseteq videos
                             /\ \A p \in images \ {o} : p.role.video \cap o.role.video = {}
=============================================================================
