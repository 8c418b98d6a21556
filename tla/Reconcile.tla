------------------------------ MODULE Reconcile ------------------------------
(***************************************************************************)
(* From what a scan found to a plan: the pure part of immich-sources       *)
(* (reconcile.rs, takeout_reconcile.rs, apple_photos.rs, picasa.rs) and of *)
(* the two planners of immich-executor.                                    *)
(*                                                                         *)
(* Portable paths are records.  A media file is [dir, name], its name      *)
(* [stem, idx, ext, upper]: "a(2).jpg" has stem a and idx 2, "a.JPG" is    *)
(* upper.  A sidecar's name is [base, num, mark, ext]: the name it was     *)
(* given after (with ext None where it was cut before the extension), the  *)
(* "(num)" in front of .json, and how much of the supplemental-metadata    *)
(* marker it has ("none", "cut", "full").  No stem is a prefix of another. *)
(* An album title is a model value; a directory can name an album.         *)
(***************************************************************************)
EXTENDS Integers, FiniteSets, FiniteSetsExt

CONSTANTS
    Fields,       \* of NormalizedMetadata: description, taken_at_utc, location
    YearDirs,     \* directories named "Photos from YYYY"
    SystemDirs,   \* Archive, Trash, Bin and other "Photos from" directories
    UnnamableDirs,\* directories whose name is no album title (the root is one)
    AlbumFolders, \* album_mode of the Apple and Picasa scans: folders are albums
    DatedStems,   \* file stems that filename_timestamp reads as a date
    None

Images == {"jpg", "heic"}
Videos == {"mov", "mp4"}
media_kind(path) == IF path.name.ext \in Images THEN "image"
                    ELSE IF path.name.ext \in Videos THEN "video" ELSE None
metadata_kind(path) == IF path.name.ext \in {"json", "xmp"} THEN path.name.ext ELSE None

diagnostic(rule, paths) == [rule |-> rule, paths |-> paths]

NoFacts == [field \in Fields |-> None]
Metadata(facts, albums) == [facts |-> facts, albums |-> albums]

DiscoveredMedia(native, path, len, digest) ==
    [native |-> native, path |-> path, kind |-> media_kind(path), len |-> len,
     digest |-> digest, sidecars |-> {}, metadata |-> None, live |-> None]

DiscoveredSidecar(native, path, len, digest) ==
    [native |-> native, path |-> path, kind |-> metadata_kind(path), len |-> len,
     digest |-> digest]

ScanState == [media |-> {}, sidecars |-> {}, warnings |-> {}, errors |-> {}]

Paths(found) == {item.path : item \in found}
stem(name) == <<name.stem, name.idx>>

-----------------------------------------------------------------------------
(* What every adapter does first and last.                                 *)

\* remove_unicode_collisions: two native names, one portable path.
prepare(state) ==
    LET natives(path) == {x.native : x \in {m \in state.media : m.path = path}}
                         \cup {x.native : x \in {s \in state.sidecars : s.path = path}}
        collisions == {p \in Paths(state.media) \cup Paths(state.sidecars) :
                         Cardinality(natives(p)) > 1}
    IN [state EXCEPT
          !.media = {m \in @ : m.path \notin collisions},
          !.sidecars = {s \in @ : s.path \notin collisions},
          !.errors = @ \cup {diagnostic("UNICODE_COLLISION", {p}) : p \in collisions}]

\* Mutant: every image of the stem is paired with the video.
LivePairAny(media, m) ==
    LET group == {n \in media : n.path.dir = m.path.dir
                                /\ stem(n.path.name) = stem(m.path.name)}
        images == {n \in group : n.kind = "image"}
        videos == {n \in group : n.path.name.ext = "mov"}
    IN IF images # {} /\ Cardinality(videos) = 1 /\ m \in images \cup videos
       THEN [pair |-> <<{n.path : n \in images}, {n.path : n \in videos}>>,
             role |-> m.kind]
       ELSE None

\* reconcile_live_photos: one image and one .mov of a stem in a directory.
LivePair(media, m) ==
    LET group == {n \in media : n.path.dir = m.path.dir
                                /\ stem(n.path.name) = stem(m.path.name)}
        images == {n \in group : n.kind = "image"}
        videos == {n \in group : n.path.name.ext = "mov"}
    IN IF Cardinality(images) = 1 /\ Cardinality(videos) = 1 /\ m \in images \cup videos
       THEN [pair |-> <<{n.path : n \in images}, {n.path : n \in videos}>>,
             role |-> m.kind]
       ELSE None

Lowered(name) == [name EXCEPT !.upper = FALSE]

\* detect_case_collisions and detect_duplicate_basenames.
CaseCollisions(paths) ==
    LET folded(p) == [dir |-> p.dir, name |-> Lowered(p.name)]
        same(p) == {q \in paths : folded(q) = folded(p)}
    IN {diagnostic("CASE_COLLISION", same(p)) : p \in {q \in paths : Cardinality(same(q)) > 1}}

DuplicateBasenames(paths) ==
    LET named(p) == {q \in paths : Lowered(q.name) = Lowered(p.name)}
    IN {diagnostic("DUPLICATE_BASENAME", named(p)) :
          p \in {q \in paths : Cardinality({r.dir : r \in named(q)}) > 1}}

complete(state) ==
    [state EXCEPT
       !.media = {[m EXCEPT !.live = LivePair(state.media, m)] : m \in @},
       !.errors = @ \cup CaseCollisions(Paths(state.media)),
       !.warnings = @ \cup DuplicateBasenames(Paths(state.media))]

Attached(sidecar, rule) == [path |-> sidecar.path, kind |-> sidecar.kind, rule |-> rule]

-----------------------------------------------------------------------------
(* Folder, Apple and Picasa sources: reconcile.                            *)

\* The media a sidecar goes with: a JSON by its exact name, otherwise by
\* stem, the single image of the stem before anything else.
SidecarMatches(state, sidecar) ==
    LET name == sidecar.path.name
        near == {m \in state.media : m.path.dir = sidecar.path.dir}
        plain == name.num = 0 /\ name.mark = "none"
        exact == {m \in near : sidecar.kind = "json" /\ plain /\ m.path.name = name.base}
        alike == {m \in near : plain /\ name.base.ext = None
                               /\ stem(m.path.name) = stem(name.base)}
        images == {m \in alike : m.kind = "image"}
    IN IF exact # {} THEN exact
       ELSE IF Cardinality(images) = 1 THEN images ELSE alike

reconcile_sidecars(state) ==
    LET matches(s) == SidecarMatches(state, s)
        orphans == {s \in state.sidecars : matches(s) = {}}
        ambiguous == {s \in state.sidecars : Cardinality(matches(s)) > 1}
    IN [state EXCEPT
          !.media = {[m EXCEPT !.sidecars = {Attached(s, "SIDECAR") :
                        s \in {t \in state.sidecars : matches(t) = {m}}}] : m \in @},
          !.warnings = @ \cup {diagnostic("ORPHAN_SIDECAR", {s.path}) : s \in orphans},
          !.errors = @ \cup {diagnostic("AMBIGUOUS_SIDECAR",
                                {s.path} \cup Paths(matches(s))) : s \in ambiguous}]

reconcile(state) == complete(reconcile_sidecars(prepare(state)))

-----------------------------------------------------------------------------
(* Google Takeout: takeout_reconcile::reconcile.  `docs` holds what the    *)
(* JSON sidecars were parsed to: [status, title, facts], status "ok" or    *)
(* the parse error.                                                        *)

is_album_document(path) ==
    /\ path.name.base.stem = "metadata" /\ path.name.base.ext = None
    /\ path.name.num = 0 /\ path.name.mark = "none"
    /\ path.dir \notin YearDirs \cup SystemDirs

\* An empty title is that of the directory.
Title(path, doc) == IF doc.title = None THEN path.dir ELSE doc.title

\* A numbered sidecar "a.jpg.supplemental-metadata(2).json" is of "a(2).jpg",
\* whatever part of the marker is left.
IndexedCandidates(near, name) ==
    {m \in near : /\ name.num # 0 /\ name.base.ext # None /\ name.base.idx = 0
                  /\ m.path.name = [name.base EXCEPT !.idx = name.num]}

\* The name without its suffix: exactly, or else as a prefix.
NamedCandidates(near, name) ==
    LET plain == name.num = 0 /\ name.mark # "cut"
        exact == {m \in near : plain /\ m.path.name = name.base}
        prefix == {m \in near : /\ plain /\ name.base.ext = None
                                /\ m.path.name.stem = name.base.stem
                                /\ name.base.idx \in {0, m.path.name.idx}}
    IN IF exact # {} THEN exact ELSE prefix

Candidates(state, sidecar, doc) ==
    LET near == {m \in state.media : m.path.dir = sidecar.path.dir}
        indexed == IndexedCandidates(near, sidecar.path.name)
        exact == {m \in near : m.path.name = Title(sidecar.path, doc)}
    IN IF indexed # {} THEN indexed
       ELSE IF exact # {} THEN exact
       ELSE NamedCandidates(near, sidecar.path.name)

\* The sidecars of one media file, unless two of their documents differ.
attach_asset_documents(state, matches, docs) ==
    LET selected(m) == {s \in DOMAIN matches : matches[s] = {m}}
        documents(m) == {[title |-> Title(s.path, docs[s.path]),
                          facts |-> docs[s.path].facts] : s \in selected(m)}
        clash == {m \in state.media : Cardinality(documents(m)) > 1}
        attach(m) == IF m \in clash \/ selected(m) = {} THEN m
                     ELSE [m EXCEPT !.sidecars = {Attached(s, "TAKEOUT") : s \in selected(m)},
                                    !.metadata = Metadata((CHOOSE d \in documents(m) : TRUE).facts, {})]
    IN [state EXCEPT
          !.media = {attach(m) : m \in @},
          !.errors = @ \cup {diagnostic("METADATA_CONFLICT",
                                {m.path} \cup Paths(selected(m))) : m \in clash}]

\* Every file of a directory with an album document is in that album.
attach_albums(state, albums, docs) ==
    LET of(m) == {s \in albums : s.path.dir = m.path.dir}
        add(m) == LET old == IF m.metadata = None THEN Metadata(NoFacts, {}) ELSE m.metadata
                  IN IF of(m) = {} THEN m
                     ELSE [m EXCEPT
                       !.sidecars = @ \cup {Attached(s, "ALBUM") : s \in of(m)},
                       !.metadata = [old EXCEPT !.albums = @ \cup
                                       {Title(s.path, docs[s.path]) : s \in of(m)}]]
    IN [state EXCEPT !.media = {add(m) : m \in @}]

\* What the copies of one content are said to be: their metadata, and the
\* values of a field.
Described(group) == {m.metadata : m \in group} \ {None}
Values(group, field) == {d.facts[field] : d \in Described(group)} \ {None}

\* merge_value: two copies have different values of a field.
MetadataConflict(group) == \E field \in Fields : \E v, w \in Values(group, field) : v # w

\* merge_normalized: each value that a copy has, and the albums of all.
merge_normalized(group) ==
    Metadata([field \in Fields |-> IF Values(group, field) = {} THEN None
                                   ELSE CHOOSE v \in Values(group, field) : TRUE],
             UNION {d.albums : d \in Described(group)})

\* merge_alias, for every alias of the canonical file: in whatever order, the
\* first difference leaves no metadata for good.
merge_alias(canonical, group) ==
    [canonical EXCEPT
       !.sidecars = UNION {m.sidecars : m \in group},
       !.metadata = IF Described(group) = {} \/ MetadataConflict(group) THEN None
                    ELSE merge_normalized(group)]

\* canonical_rank: a path in a "Photos from" directory comes first.
Canonical(group) ==
    LET years == {m \in group : m.path.dir \in YearDirs}
    IN CHOOSE m \in (IF years = {} THEN group ELSE years) : TRUE

\* Files of one content are one asset.
collapse_content_aliases(state) ==
    LET group(m) == {n \in state.media : n.len = m.len /\ n.digest = m.digest}
        groups == {group(m) : m \in state.media}
    IN [state EXCEPT
          !.media = {merge_alias(Canonical(g), g) : g \in groups},
          !.errors = @ \cup {diagnostic("METADATA_CONFLICT", {Canonical(g).path}) :
                               g \in {h \in groups : MetadataConflict(h)}},
          !.warnings = @ \cup {diagnostic("CONTENT_ALIAS", Paths(g)) :
                                 g \in {h \in groups : Cardinality(h) > 1}}]

\* Mutant: aliases collapse before the albums are known.
takeout_orderLate(state, matches, albums, docs) ==
    attach_albums(collapse_content_aliases(attach_asset_documents(state, matches, docs)),
                  albums, docs)

takeout_order(state, matches, albums, docs) ==
    collapse_content_aliases(
        attach_albums(attach_asset_documents(state, matches, docs), albums, docs))

takeout_reconcile(found, docs) ==
    LET state == prepare(found)
        json == {s \in state.sidecars : s.kind = "json"}
        parsed == {s \in json : docs[s.path].status = "ok"}
        matches == [s \in parsed |-> Candidates(state, s, docs[s.path])]
        lone == {s \in parsed : matches[s] = {}}
        albums == {s \in lone : is_album_document(s.path)}
        merged == takeout_order(state, matches, albums, docs)
        bare == {m \in merged.media : ~ \E s \in m.sidecars : s.rule = "TAKEOUT"}
    IN complete([merged EXCEPT
         !.warnings = @ \cup {diagnostic("UNSUPPORTED", {s.path}) : s \in state.sidecars \ json}
                        \cup {diagnostic("ORPHAN_SIDECAR", {s.path}) : s \in lone \ albums}
                        \cup {diagnostic("UNMATCHED_MEDIA", {m.path}) : m \in bare},
         !.errors = @ \cup {diagnostic(docs[s.path].status, {s.path}) : s \in json \ parsed}
                      \cup {diagnostic("AMBIGUOUS", {s.path} \cup Paths(matches[s])) :
                              s \in {t \in parsed : Cardinality(matches[t]) > 1}}])

-----------------------------------------------------------------------------
(* Albums and captions that Apple and Picasa scans add to a plan.          *)

FolderAlbum(path) == IF AlbumFolders /\ path.dir # None THEN {path.dir} ELSE {}

\* apple_photos::finish_plan.
apple_finish(asset) ==
    LET old == IF asset.metadata = None THEN Metadata(NoFacts, {}) ELSE asset.metadata
    IN IF FolderAlbum(asset.path) = {} THEN asset
       ELSE [asset EXCEPT !.metadata = [old EXCEPT !.albums = @ \cup FolderAlbum(asset.path)]]

\* picasa::apply_metadata: the caption replaces a description; ini is the
\* [album, captions] of the directory, captions by file name, or None.
picasa_finish(asset, ini) ==
    LET old == IF asset.metadata = None THEN Metadata(NoFacts, {}) ELSE asset.metadata
        name == asset.path.name
        caption == IF ini = None \/ name \notin DOMAIN ini.captions THEN None
                   ELSE ini.captions[name]
        dated == name.stem \in DatedStems
        facts == [f \in Fields |->
                    CASE f = "description" /\ caption # None -> caption
                      [] f = "taken_at_utc" /\ old.facts[f] = None /\ dated -> name.stem
                      [] OTHER -> old.facts[f]]
        new == Metadata(facts, old.albums \cup FolderAlbum(asset.path)
                               \cup (IF ini = None \/ ini.album = None THEN {} ELSE {ini.album}))
    IN [asset EXCEPT !.metadata = IF new = Metadata(NoFacts, {}) THEN asset.metadata ELSE new]

-----------------------------------------------------------------------------
(* The plans.                                                              *)

\* finalize_plan, without the fingerprint, a digest of all of it; operation
\* ids are digests of path, content and length.
Operation(asset) == <<asset.path, asset.digest, asset.len>>
finalize_plan(kind, state) ==
    [kind |-> kind, assets |-> state.media, warnings |-> state.warnings,
     errors |-> state.errors]

\* NormalizedMetadata::is_valid, as far as a scan can get it wrong.
is_valid(metadata) == metadata.albums \cap UnnamableDirs = {}

\* NormalizedPlan::validate, for the parts a scan does not set itself.
NormalizedValid(plan) ==
    /\ Cardinality(Paths(plan.assets)) = Cardinality(plan.assets)
    /\ \A a \in plan.assets : a.metadata # None =>
          plan.kind # "folder" /\ is_valid(a.metadata)

\* The sidecar an operation uploads: folder plans take only a lone XMP,
\* import plans leave JSON aside.  More than one is refused.
PlannedXmp(kind, asset) ==
    IF kind = "folder" THEN asset.sidecars
    ELSE {s \in asset.sidecars : s.kind = "xmp"}

Unsupported(kind, asset) ==
    \/ Cardinality(PlannedXmp(kind, asset)) > 1
    \/ \E s \in PlannedXmp(kind, asset) : s.kind = "json"

\* upload_role, with the video of the pair looked up among the assets.
Role(plan, asset) ==
    LET video == {a \in plan.assets : a.live # None /\ a.live.role = "video"
                                      /\ a.live.pair = asset.live.pair}
    IN IF asset.live = None THEN [role |-> "standalone"]
       ELSE IF asset.live.role = "video" THEN [role |-> "video", pair |-> asset.live.pair]
       ELSE [role |-> "image", pair |-> asset.live.pair,
             video |-> {Operation(a) : a \in video}]

\* source_file or source_for finds the asset as the scan left it.
Resolved(asset, files) ==
    \E f \in files : f.path = asset.path /\ f.len = asset.len /\ f.digest = asset.digest

\* UploadPlan::validate: nothing empty, and the video of every image planned.
UploadValid(operations) ==
    \A o \in operations :
        /\ o.len > 0 /\ \A f \in o.xmp : f.len > 0
        /\ o.role.role = "image" => o.role.video # {}

Refused(class) == [result |-> class, operations |-> {}]

\* An operation for every asset, or the class of the refusal.
Planned(plan, files) ==
    LET xmp(a) == {f \in files : f.path \in Paths(PlannedXmp(plan.kind, a))}
        lost(a) == Cardinality(xmp(a)) # Cardinality(PlannedXmp(plan.kind, a))
        operations == {[id |-> Operation(a), path |-> a.path, len |-> a.len, xmp |-> xmp(a),
                        metadata |-> a.metadata, role |-> Role(plan, a)] : a \in plan.assets}
    IN IF \E a \in plan.assets : Unsupported(plan.kind, a) THEN Refused("UnsupportedMetadata")
       ELSE IF \E a \in plan.assets : ~Resolved(a, files) \/ lost(a) THEN Refused("Invariant")
       ELSE IF ~UploadValid(operations) THEN Refused("InvalidPlan")
       ELSE [result |-> "planned", operations |-> operations]

create_upload_plan(plan, files) ==
    IF plan.errors # {} THEN Refused("SourceDiagnostics") ELSE Planned(plan, files)

create_import_upload_plan(plan, files) ==
    IF plan.errors # {} THEN Refused("InvalidPlan") ELSE Planned(plan, files)
=============================================================================
