--------------------------- MODULE RemoteInventory ---------------------------
(***************************************************************************)
(* The read-only inventory of an Immich server that archive and migration  *)
(* plans are made from (immich-client archive.rs and migration.rs,         *)
(* immich-application archive.rs, immich-executor migration_plan.rs). The  *)
(* inventory is many requests; the server may change between any two.      *)
(*                                                                         *)
(* An asset's name, length and checksum are one value, its facts; what the *)
(* listing does not compare (times, description, location) is its meta.    *)
(***************************************************************************)
EXTENDS Integers, Sequences, FiniteSets, FiniteSetsExt, SequencesExt

CONSTANTS
    Assets,             \* asset identifiers (numbers: plans are sorted)
    Rank,               \* Rank[a]: the server lists assets by rank
    Kind,               \* Kind[a]: "image" or "video"
    Versions,           \* Versions[a]: what the server may hold of a, or None
    Albums,             \* identifiers of owned albums
    AlbumName,          \* their names; two albums may share one
    Selections,         \* archive selections: sequences of visibilities
    Libraries,          \* libraries the server starts with
    PageSize, MaxAssets, MaxAlbums, MaxMemberships,
    MaxChanges,         \* bound: changes of the server
    MaxFailures,        \* bound: failed or cancelled requests
    None

ASSUME InventoryAssumption ==
    /\ Assets \subseteq Nat /\ IsFiniteSet(Assets)
    /\ Rank \in [Assets -> Nat] /\ IsInjective(Rank)
    /\ PageSize \in Nat \ {0} /\ MaxAssets \in Nat \ {0}

\* What the listing compares of an asset.
Facts == {v.facts : v \in (UNION {Versions[a] : a \in Assets}) \ {None}}

\* A Live Photo video is an asset, and a library holds versions of assets.
ASSUME LibraryAssumption ==
    /\ \A a \in Assets : \A v \in Versions[a] \ {None} : v.live \in Assets \cup {None}
    /\ \A l \in Libraries : /\ l.assets = [a \in Assets |-> l.assets[a]]
                            /\ \A a \in Assets : l.assets[a] \in Versions[a]
    /\ \A l \in Libraries : l.members \in [Albums -> SUBSET Assets]
    /\ IsFiniteSet(Albums)
    /\ None \notin [mode : {"archive"}, assets : SUBSET [id : Assets, facts : Facts]]

\* An ArchiveSelection lists each visibility once (application archive.rs:19-29);
\* the limits are numbers.
ASSUME SelectionAssumption ==
    /\ \A s \in Selections : /\ s \in Seq({"timeline", "archive", "hidden"})
                             /\ s # <<>> /\ IsInjective(s)
    /\ MaxAlbums \in Nat /\ MaxMemberships \in Nat

VARIABLES
    server,     \* server[a]: the asset, or None
    members,    \* members[b]: the assets of album b
    inv,        \* the inventory under way
    plan,       \* the last manifest or migration plan that was made, or None
    touched,    \* what changed on the server since the inventory started
    changes, failures

inventoryVars == <<server, members, inv, plan, touched, changes, failures>>

\* selection and links serve the properties alone: what was asked for, and
\* every Live Photo link that a page of this inventory showed.
Idle == [pc |-> "idle", mode |-> None, vis |-> <<>>, page |-> 1, listed |-> <<>>,
         related |-> {}, collected |-> <<>>, assets |-> <<>>, albums |-> {},
         queue |-> <<>>, at |-> 1, selection |-> <<>>, links |-> {}]

InventoryInit ==
    /\ \E l \in Libraries : server = l.assets /\ members = l.members
    /\ inv = Idle
    /\ plan = None
    /\ touched = {}
    /\ changes = 0
    /\ failures = 0

-----------------------------------------------------------------------------
(* The server *)

\* Assets that a search for visibility v finds.
Selected(v) == {a \in Assets : server[a] # None /\ server[a].vis = v}

\* The result of a search, and the page p of a result.
Ranked(as) ==
    [k \in 1..Cardinality(as) |->
        CHOOSE a \in as : Cardinality({b \in as : Rank[b] <= Rank[a]}) = k]

Visible(v) == Ranked(Selected(v))

InAlbum(b) == Ranked(Selected("timeline") \cap members[b])

PageOf(all, p) == SubSeq(all, (p - 1) * PageSize + 1, Min({p * PageSize, Len(all)}))

HasNext(all, p) == Len(all) > p * PageSize

\* An upload, deletion, move to the trash or edit of one asset.
Change(a) ==
    /\ changes < MaxChanges
    /\ \E new \in Versions[a] \ {server[a]} : server' = [server EXCEPT ![a] = new]
    /\ touched' = touched \cup {a}
    /\ changes' = changes + 1
    /\ UNCHANGED <<members, inv, plan, failures>>

ChangeAlbum(b) ==
    /\ changes < MaxChanges
    /\ \E new \in SUBSET Assets \ {members[b]} : members' = [members EXCEPT ![b] = new]
    /\ touched' = touched \cup {b}
    /\ changes' = changes + 1
    /\ UNCHANGED <<server, inv, plan, failures>>

-----------------------------------------------------------------------------
(* Listing: list_archive_assets, for each visibility of the selection *)

Step(new) ==
    /\ inv' = new
    /\ UNCHANGED <<server, members, plan, touched, changes, failures>>

Fail == Step([inv EXCEPT !.pc = "failed"])

\* plan_archive, create_migration_plan and verify_current_source.
Start(mode, selection) ==
    /\ inv.pc \in {"idle", "failed", "aborted", "planned"}
    /\ mode = "verify" => plan # None
    /\ inv' = [Idle EXCEPT !.pc = "page", !.mode = mode, !.vis = selection,
                        !.selection = selection]
    /\ touched' = {}
    /\ UNCHANGED <<server, members, plan, changes, failures>>

\* The limit that is left for this visibility.
Limit == MaxAssets - Len(inv.collected)

Ids(entries) == {entries[k].id : k \in DOMAIN entries}

\* convert_asset: what the listing keeps of an asset.
Fact(a) == [id |-> a, facts |-> server[a].facts]

Links(as) == {server[a].live : a \in as} \ {None}

\* Mutant: each page forgets the links of the pages before it.
ListPageForgets ==
    LET all == Visible(Head(inv.vis))
        items == PageOf(all, inv.page)
    IN
    /\ inv.pc = "page"
    /\ Step([inv EXCEPT
            !.listed = @ \o [k \in DOMAIN items |-> Fact(items[k])],
            !.related = Links(ToSet(items)),
            !.links = @ \cup Links(ToSet(items)),
            !.pc = IF HasNext(all, inv.page) THEN "page" ELSE "related",
            !.page = IF HasNext(all, inv.page) THEN @ + 1 ELSE 1])

\* One search request and the checks of its answer.
ListPage ==
    LET all == Visible(Head(inv.vis))
        items == PageOf(all, inv.page)
    IN
    /\ inv.pc = "page"
    /\ IF Len(all) > Limit \/ Len(inv.listed) + Len(items) > Limit
       THEN Fail
       ELSE Step([inv EXCEPT
                !.listed = @ \o [k \in DOMAIN items |-> Fact(items[k])],
                !.related = @ \cup Links(ToSet(items)),
                !.links = @ \cup Links(ToSet(items)),
                !.pc = IF HasNext(all, inv.page) THEN "page" ELSE "related",
                !.page = IF HasNext(all, inv.page) THEN @ + 1 ELSE 1])

\* Mutant: a video of another visibility is not looked up.
UnlistedVisible == (inv.related \ Ids(inv.listed)) \cap ToSet(Visible(Head(inv.vis)))

Unlisted == inv.related \ Ids(inv.listed)

\* A Live Photo video that the pages did not show is looked up by itself.
FetchRelated ==
    /\ inv.pc = "related"
    /\ Unlisted # {}
    /\ LET a == Min(Unlisted) IN
       IF Len(inv.listed) >= Limit \/ server[a] = None
       THEN Fail
       ELSE Step([inv EXCEPT !.listed = Append(@, Fact(a))])

\* The map by identifier refuses two different facts of one asset.
FactsChanged(entries) ==
    \E j, k \in DOMAIN entries : entries[j].id = entries[k].id /\ entries[j] # entries[k]

\* The end of one visibility: the next one, the manifest, or the lookups of a
\* migration.
ListingOver ==
    LET collected == inv.collected \o inv.listed IN
    /\ inv.pc = "related"
    /\ Unlisted = {}
    /\ CASE inv.mode # "archive" ->
                Step([inv EXCEPT !.pc = "recheck", !.at = 1])
         [] inv.mode = "archive" /\ Len(inv.vis) > 1 ->
                IF Len(collected) >= MaxAssets
                THEN Fail
                ELSE Step([inv EXCEPT !.pc = "page", !.vis = Tail(@), !.listed = <<>>,
                                      !.related = {}, !.collected = collected])
         [] OTHER ->
                IF FactsChanged(collected)
                THEN Fail
                ELSE /\ plan' = [mode |-> "archive", assets |-> ToSet(collected)]
                     /\ inv' = [inv EXCEPT !.pc = "planned"]
                     /\ UNCHANGED <<server, members, touched, changes, failures>>

-----------------------------------------------------------------------------
(* Migration: migration_inventory and assemble_migration_plan *)

MigrationFact(a) == [id |-> a, facts |-> server[a].facts, meta |-> server[a].meta,
                     live |-> server[a].live]

\* Every listed asset is looked up again; what the listing saw must still hold.
Recheck ==
    /\ inv.pc = "recheck"
    /\ inv.at <= Len(inv.listed)
    /\ LET a == inv.listed[inv.at].id IN
       IF server[a] = None \/ inv.listed[inv.at] # Fact(a)
       THEN Fail
       ELSE Step([inv EXCEPT !.assets = Append(@, MigrationFact(a)), !.at = @ + 1])

\* The identifiers must be distinct; then the headers of owned albums are read,
\* each with the number of its members.
AlbumHeaders ==
    /\ inv.pc = "recheck"
    /\ inv.at > Len(inv.listed)
    /\ IF ~IsInjective([k \in DOMAIN inv.assets |-> inv.assets[k].id])
            \/ Cardinality(Albums) > MaxAlbums
            \/ \E b \in Albums : Cardinality(members[b]) > MaxMemberships
       THEN Fail
       ELSE Step([inv EXCEPT !.pc = "albums", !.queue = SetToSeq(Albums), !.page = 1,
                             !.related = {}, !.at = 1])

\* The members of the albums together, those of each album for themselves.
Memberships(albums) ==
    Cardinality({p \in Albums \X Assets : \E x \in albums : p[1] = x.id /\ p[2] \in x.members})

\* Members of an album, page by page; those outside the inventory are dropped.
AlbumPage ==
    /\ inv.pc = "albums"
    /\ inv.queue # <<>>
    /\ LET b == Head(inv.queue)
           all == InAlbum(b)
           shown == (inv.page - 1) * PageSize + Len(PageOf(all, inv.page))
           seen == inv.related \cup ToSet(PageOf(all, inv.page))
           kept == seen \cap Ids(inv.assets)
           albums == IF kept = {} THEN inv.albums
                     ELSE inv.albums \cup {[id |-> b, members |-> kept]}
       IN
       IF shown > MaxMemberships
       THEN Fail
       ELSE IF HasNext(all, inv.page)
       THEN Step([inv EXCEPT !.related = seen, !.page = @ + 1])
       ELSE IF Memberships(albums) > MaxMemberships
       THEN Fail
       ELSE Step([inv EXCEPT !.albums = albums, !.queue = Tail(@), !.page = 1,
                             !.related = {}])

\* verify_original streams an asset and compares its checksum; a verification
\* of an existing plan takes the checksums of the plan instead.
VerifyOriginal ==
    /\ inv.pc = "albums"
    /\ inv.queue = <<>>
    /\ inv.mode = "migrate"
    /\ inv.at <= Len(inv.assets)
    /\ LET x == inv.assets[inv.at] IN
       IF server[x.id] = None \/ server[x.id].facts # x.facts
       THEN Fail
       ELSE Step([inv EXCEPT !.at = @ + 1])

\* live_photo_roles: each linked image has a video of its own, which is there.
RolesValid(assets) ==
    LET linked == {x \in assets : x.live # None} IN
    /\ \A x \in linked : /\ Kind[x.id] = "image"
                         /\ \E y \in assets : /\ y.id = x.live
                                              /\ Kind[y.id] = "video"
                                              /\ y.live = None
    /\ \A x, y \in linked : x.live = y.live => x = y

Role(x, assets) ==
    IF x.live # None THEN [kind |-> "image", pair |-> <<x.id, x.live>>]
    ELSE IF \E y \in assets : y.live = x.id
    THEN [kind |-> "video", pair |-> <<(CHOOSE y \in assets : y.live = x.id).id, x.id>>]
    ELSE [kind |-> "standalone", pair |-> <<>>]

\* migration_albums of the plan: an album is its name and its members.
PlannedAlbums(albums) == {[name |-> AlbumName[b.id], members |-> b.members] : b \in albums}

\* assemble_migration_plan without the final validation.
MigrationPlan(assets, albums) ==
    [mode |-> "migrate",
     assets |-> {[id |-> x.id, facts |-> x.facts, meta |-> x.meta,
                  role |-> Role(x, assets)] : x \in assets},
     albums |-> PlannedAlbums(albums)]

\* MigrationPlan::validate: albums strictly sorted by name, members planned,
\* every image's video present with the same pair.
PlanValid(p, albums) ==
    /\ \A b, c \in albums : AlbumName[b.id] = AlbumName[c.id] => b = c
    /\ \A b \in p.albums : b.members # {} /\ b.members \subseteq {x.id : x \in p.assets}
    /\ \A x \in p.assets : x.role.kind = "image" =>
            \E y \in p.assets : y.role = [kind |-> "video", pair |-> x.role.pair]

\* The plan is assembled from what was read, or compared with the given plan.
Assemble ==
    LET assets == ToSet(inv.assets)
        new == MigrationPlan(assets, inv.albums)
    IN
    /\ inv.pc = "albums"
    /\ inv.queue = <<>>
    /\ inv.mode = "migrate" => inv.at > Len(inv.assets)
    /\ IF \/ ~RolesValid(assets)
          \/ ~PlanValid(new, inv.albums)
          \/ inv.mode = "verify" /\ new # plan
       THEN Fail
       ELSE /\ plan' = new
            /\ inv' = [inv EXCEPT !.pc = "planned"]
            /\ UNCHANGED <<server, members, touched, changes, failures>>

\* A request fails or is cancelled: no step of the inventory is retried.
RequestFails ==
    /\ inv.pc \in {"page", "related", "recheck", "albums"}
    /\ failures < MaxFailures
    /\ failures' = failures + 1
    /\ inv' = [inv EXCEPT !.pc = "aborted"]
    /\ UNCHANGED <<server, members, plan, touched, changes>>

InventoryStep ==
    \/ ListPage \/ FetchRelated \/ ListingOver
    \/ Recheck \/ AlbumHeaders \/ AlbumPage \/ VerifyOriginal \/ Assemble
    \/ RequestFails

ServerStep == (\E a \in Assets : Change(a)) \/ (\E b \in Albums : ChangeAlbum(b))

-----------------------------------------------------------------------------
(* What an inventory should find *)

\* Assets of one visibility with the videos of their Live Photos.
Closed(v) == Selected(v) \cup Links(Selected(v))

Wanted == UNION {Closed(v) : v \in ToSet(inv.selection)}

Reference ==
    IF inv.mode = "archive"
    THEN [mode |-> "archive", assets |-> {Fact(a) : a \in Wanted}]
    ELSE LET inside(b) == members[b] \cap Selected("timeline") IN
         MigrationPlan({MigrationFact(a) : a \in Wanted},
                       {[id |-> b, members |-> inside(b)] : b \in {c \in Albums : inside(c) # {}}})

\* Reasons to refuse a library that holds still.
Refusable ==
    \/ \E a \in Wanted : server[a] = None
    \/ Cardinality({p \in ToSet(inv.selection) \X Assets : p[2] \in Closed(p[1])}) >= MaxAssets
    \/ /\ inv.mode # "archive"
       /\ \/ ~RolesValid({MigrationFact(a) : a \in Wanted})
          \/ \E b, c \in Albums : b # c /\ AlbumName[b] = AlbumName[c]
          \/ Cardinality(Albums) > MaxAlbums
          \/ Memberships({[id |-> b, members |-> members[b]] : b \in Albums}) > MaxMemberships
          \/ inv.mode = "verify" /\ plan # Reference

-----------------------------------------------------------------------------
(* Properties *)

\* While the server holds still, an inventory of any page size finds exactly
\* the selected assets with the videos of their Live Photos and the albums on
\* them, and it fails only for a reason; a migration plan is accepted for
\* execution only if it is what the server holds (archive.rs:86-161,
\* migration.rs:96-262, migration_plan.rs:122-190, migration_apply.rs:187-214).
QuietIsExact ==
    touched = {} => /\ inv.pc = "planned" => plan = Reference
                    /\ inv.pc = "failed" => Refusable

\* A manifest never separates a Live Photo: the video of every link that any
\* page showed is in it, however the server changes meanwhile
\* (archive.rs:121-159, application archive.rs:51-66).
PairsComplete ==
    (inv.pc = "planned" /\ inv.mode = "archive")
        => inv.links \subseteq {x.id : x \in plan.assets}

\* An asset that belongs to the selection and did not change while it was
\* listed is in the manifest: drift of the pages is noticed
\* (docs/adr/ADR-0024-read-only-immich-archive.md:34-36).
NoSilentOmission ==
    (inv.pc = "planned" /\ inv.mode = "archive")
        => \A a \in Assets \ touched :
            (server[a] # None /\ server[a].vis \in ToSet(inv.selection))
                => a \in {x.id : x \in plan.assets}
=============================================================================
