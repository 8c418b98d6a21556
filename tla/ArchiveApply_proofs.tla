------------------------ MODULE ArchiveApply_proofs -------------------------
(***************************************************************************)
(* Proofs about the archive path, for every library, selection, page size  *)
(* and number of assets, and any number of changes, failures, crashes and  *)
(* power losses.  What a listing collects is shown to hold every Live      *)
(* Photo video that it saw; a file under its final name, and a report, are *)
(* shown to be true for one process at a time, since nothing in the        *)
(* program keeps a second one out of the directory.  Of a server that      *)
(* holds still an archive manifest or a migration plan is shown to be an   *)
(* exact image, whatever the limits.                                       *)
(***************************************************************************)
EXTENDS ArchiveApply, FiniteSetTheorems, SequenceTheorems, WellFoundedInduction, TLAPS

-----------------------------------------------------------------------------
(* The inductive invariant *)

Entry == [id : Assets, facts : Facts]
IdsOf(entries) == {x.id : x \in entries}

InvFields == {"pc", "mode", "vis", "page", "listed", "related", "collected", "assets",
              "albums", "queue", "at", "selection", "links"}
RunFields == {"pc", "todo", "body", "downloaded", "already"}

\* The server holds versions of assets.
ServerOK == /\ server = [a \in Assets |-> server[a]]
            /\ \A a \in Assets : server[a] \in Versions[a]

\* A manifest was made: its inventory was the last one.
ManifestMade == plan # None /\ plan.mode = "archive"

\* The listing under way: the links it saw are pending or collected.
ListingOK ==
    /\ DOMAIN inv = InvFields
    /\ inv.page \in Nat \ {0}
    /\ inv.listed \in Seq(Entry) /\ inv.collected \in Seq(Entry)
    /\ inv.pc \in {"page", "related"} => inv.related \subseteq Assets
    /\ (inv.mode = "archive" /\ inv.pc \in {"page", "related"}) =>
          inv.links \subseteq inv.related \cup IdsOf(ToSet(inv.collected))
    /\ inv.mode = "archive" => inv.pc \notin {"recheck", "albums"}

ManifestOK ==
    /\ ManifestMade => /\ inv.pc = "planned" /\ inv.mode = "archive"
                       /\ plan.assets \subseteq Entry
                       /\ inv.links \subseteq IdsOf(plan.assets)
    /\ (inv.pc = "planned" /\ (inv.mode = "archive" \/ plan.mode = "archive"))
          => ManifestMade

Working == {"next", "open", "body", "rename"}

\* Assets of the manifest that a run has passed are there and verified.
Passed(r) ==
    \A x \in Manifest : x.id \notin run[r].todo =>
        final[x.id] # None /\ Matches(final[x.id], x.id)

\* One run: what its part file holds at each place.
RunOK(r) ==
    /\ DOMAIN run[r] = RunFields
    /\ run[r].pc \in Working \cup {"idle", "failed", "ok"}
    /\ run[r].pc \in Working =>
          /\ ManifestMade /\ run[r].todo \subseteq IdsOf(Manifest) /\ Passed(r)
    /\ run[r].pc \in {"open", "body", "rename"} => run[r].todo # {}
    /\ run[r].pc = "body" =>
          /\ run[r].body \in Facts /\ part[Current(r)].chunks \in 0..Chunks
          /\ part[Current(r)] = File(r, run[r].body, part[Current(r)].chunks, FALSE)
    /\ run[r].pc = "rename" =>
          /\ run[r].body \in Facts /\ run[r].body = Expected(Current(r))
          /\ part[Current(r)] = File(r, run[r].body, Chunks, TRUE)

RunsOK == run = [r \in Runners |-> run[r]] /\ \A r \in Runners : RunOK(r)

\* The directory: every final file is synced, and one of ours is complete.
DirectoryOK ==
    /\ part = [a \in Assets |-> part[a]] /\ final = [a \in Assets |-> final[a]]
    /\ \A a \in Assets : final[a] # None =>
          /\ final[a].synced
          /\ final[a].by \in Runners => ManifestMade /\ Matches(final[a], a)

PlanningOK == ServerOK /\ ListingOK /\ ManifestOK
ApplyOK == RunsOK /\ DirectoryOK

\* The program has no lock on the directory: this is up to the operator.
OneRunner == \A r, s \in Runners : r = s

-----------------------------------------------------------------------------
(* Pages and sequences *)

\* A set of numbers that is not empty has a least one.
LEMMA MinFacts ==
    ASSUME NEW S \in SUBSET Nat, S # {}
    PROVE  Min(S) \in S
  <1>1. \E x \in S : \A y \in S : ~(<<y, x>> \in OpToRel(<, Nat))
    BY NatLessThanWellFounded, WFMin
  <1>2. PICK x \in S : \A y \in S : ~(<<y, x>> \in OpToRel(<, Nat))
    BY <1>1
  <1>3. \A y \in S : ~(y < x)
    BY <1>2 DEF OpToRel
  <1>4. \A y \in S : x <= y
    BY <1>3
  <1> QED
    BY <1>4 DEF Min

\* A function on 1..n is a sequence.
LEMMA FunctionIsSeq ==
    ASSUME NEW S, NEW n \in Nat, NEW s \in [1..n -> S]
    PROVE  s \in Seq(S)
  BY SeqDef, Zenon

\* The length of a sequence on 1..n is n.
LEMMA LengthIs ==
    ASSUME NEW S, NEW n \in Nat, NEW s \in Seq(S), DOMAIN s = 1..n
    PROVE  Len(s) = n
  <1>1. Len(s) \in Nat /\ 1..Len(s) = 1..n
    BY LenProperties
  <1> DEFINE m == Len(s)
  <1> HIDE DEF m
  <1>2. m \in Nat /\ 1..m = 1..n
    BY <1>1 DEF m
  <1>3. ~(m < n)
    <2> SUFFICES ASSUME m < n PROVE FALSE
      OBVIOUS
    <2>1. n \in 1..n /\ n \notin 1..m
      BY <1>2
    <2> QED
      BY <1>2, <2>1
  <1>4. ~(n < m)
    <2> SUFFICES ASSUME n < m PROVE FALSE
      OBVIOUS
    <2>1. m \in 1..m /\ m \notin 1..n
      BY <1>2
    <2> QED
      BY <1>2, <2>1
  <1> QED
    BY <1>2, <1>3, <1>4 DEF m

\* Ranked lists exactly the assets of a set: by rank no two have the same
\* place, so every place is taken.
LEMMA RankedFacts ==
    ASSUME NEW as \in SUBSET Assets
    PROVE  /\ Ranked(as) \in Seq(as)
           /\ Len(Ranked(as)) = Cardinality(as) /\ Cardinality(as) \in Nat
           /\ \A j, k \in 1..Cardinality(as) : Ranked(as)[j] = Ranked(as)[k] => j = k
           /\ \A a \in as : \E k \in 1..Cardinality(as) : Ranked(as)[k] = a
  <1> DEFINE U == [a \in as |-> {b \in as : Rank[b] <= Rank[a]}]
             f == [a \in as |-> Cardinality(U[a])]
             n == Cardinality(as)
             place(k) == CHOOSE a \in as : f[a] = k
  <1>1. IsFiniteSet(as) /\ n \in Nat
    BY InventoryAssumption, FS_Subset, FS_CardinalityType
  <1>2. \A a \in as : Rank[a] \in Nat
    BY InventoryAssumption
  <1>3. \A a \in as : U[a] \in SUBSET as /\ \A b \in as : b \in U[a] <=> Rank[b] <= Rank[a]
    OBVIOUS
  <1>4. f \in [as -> {Cardinality(U[a]) : a \in as}] /\ \A a \in as : f[a] = Cardinality(U[a])
    OBVIOUS
  <1>5. Ranked(as) = [k \in 1..n |-> place(k)]
    <2>1. \A a \in as : f[a] = Cardinality({b \in as : Rank[b] <= Rank[a]})
      OBVIOUS
    <2>2. \A k : place(k) = CHOOSE a \in as : Cardinality({b \in as : Rank[b] <= Rank[a]}) = k
      <3> HIDE DEF f
      <3> QED
        BY <2>1, Zenon
    <2> HIDE DEF f
    <2>3. Ranked(as) = [k \in 1..n |-> CHOOSE a \in as :
                                Cardinality({b \in as : Rank[b] <= Rank[a]}) = k]
      BY Zenon DEF Ranked
    <2> HIDE DEF place, n
    <2> QED
      BY <2>2, <2>3, Zenon
  <1> HIDE DEF U, f, n
  <1>6. ASSUME NEW a \in as
        PROVE  IsFiniteSet(U[a]) /\ Cardinality(U[a]) \in 1..n
    <2>1. U[a] \in SUBSET as /\ a \in U[a]
      <3>0. \A x \in Nat : x <= x
        OBVIOUS
      <3>1. Rank[a] <= Rank[a]
        BY <1>2, <3>0, Zenon
      <3> QED
        BY <1>3, <3>1, Zenon
    <2>2. IsFiniteSet(U[a]) /\ Cardinality(U[a]) <= n
      BY <1>1, <2>1, FS_Subset DEF n
    <2>3. Cardinality(U[a]) \in Nat /\ Cardinality(U[a]) # 0
      BY <2>1, <2>2, FS_CardinalityType, FS_EmptySet
    <2> DEFINE c == Cardinality(U[a])
    <2> HIDE DEF c
    <2>4. c \in Nat /\ c # 0 /\ c <= n
      BY <2>2, <2>3 DEF c
    <2>5. c \in 1..n
      BY <1>1, <2>4
    <2> QED
      BY <2>2, <2>5 DEF c
  <1>7. ASSUME NEW a \in as, NEW b \in as, Rank[a] < Rank[b]
        PROVE  f[a] # f[b]
    <2> DEFINE x == Rank[a]
               y == Rank[b]
    <2>a. x \in Nat /\ y \in Nat /\ x < y
      BY <1>2, <1>7
    <2>b. y <= y /\ ~(y <= x) /\ \A z \in Nat : z <= x => z <= y
      <3> HIDE DEF x, y
      <3> QED
        BY <2>a
    <2>1. b \in U[b] /\ b \notin U[a]
      BY <1>3, <2>b, Zenon
    <2>2. U[a] \in SUBSET U[b]
      BY <1>2, <1>3, <2>b, Zenon
    <2>3. Cardinality(U[a]) # Cardinality(U[b])
      BY <1>6, <2>1, <2>2, FS_Subset
    <2> QED
      BY <1>4, <2>3
  <1>8. ASSUME NEW a \in as, NEW b \in as, f[a] = f[b]
        PROVE  a = b
    <2>1. ~(Rank[a] < Rank[b]) /\ ~(Rank[b] < Rank[a])
      BY <1>7, <1>8
    <2>a. \A x, y \in Nat : ~(x < y) /\ ~(y < x) => x = y
      OBVIOUS
    <2>2. Rank[a] = Rank[b]
      BY <1>2, <2>1, <2>a, Zenon
    <2> QED
      BY <2>2, InventoryAssumption DEF IsInjective
  <1>9. f \in [as -> 1..n] /\ DOMAIN f = as
    BY <1>4, <1>6
  <1>10. f \in Injection(as, 1..n)
    BY <1>8, <1>9 DEF Injection, IsInjective
  <1>11. IsFiniteSet(1..n) /\ Cardinality(1..n) = n
    <2>1. Cardinality(1..n) = (IF 1 > n THEN 0 ELSE n - 1 + 1) /\ IsFiniteSet(1..n)
      BY <1>1, FS_Interval
    <2> QED
      BY <1>1, <2>1
  <1>12. f \in Surjection(as, 1..n)
    BY <1>10, <1>11, FS_Injection DEF n
  <1>13. \A k \in 1..n : \E a \in as : f[a] = k
    BY <1>12 DEF Surjection
  <1>14. \A k \in 1..n : place(k) \in as /\ f[place(k)] = k
    BY <1>13
  <1>15. \A a \in as : f[a] \in 1..n /\ place(f[a]) = a
    BY <1>8, <1>9, <1>14
  <1> HIDE DEF place
  <1> DEFINE g == [k \in 1..n |-> place(k)]
  <1>16. g \in [1..n -> as] /\ \A k \in 1..n : g[k] = place(k)
    BY <1>14
  <1>17. \A j, k \in 1..n : g[j] = g[k] => j = k
    BY <1>14, <1>16
  <1>18. \A a \in as : \E k \in 1..n : g[k] = a
    BY <1>15, <1>16
  <1> HIDE DEF g
  <1>19. g \in Seq(as) /\ Len(g) = n
    <2>1. g \in Seq(as)
      BY <1>1, <1>16, FunctionIsSeq, Zenon
    <2>2. DOMAIN g = 1..n
      BY <1>16
    <2> QED
      BY <1>1, <2>1, <2>2, LengthIs
  <1>20. Ranked(as) = g
    BY <1>5 DEF g
  <1> QED
    BY <1>1, <1>17, <1>18, <1>19, <1>20 DEF n

\* A page is a sequence of elements of the result.
LEMMA PageFacts ==
    ASSUME NEW S, NEW all \in Seq(S), NEW p \in Nat \ {0}
    PROVE  PageOf(all, p) \in Seq(S)
  <1> DEFINE lo == (p - 1) * PageSize + 1
             hi == Min({p * PageSize, Len(all)})
  <1>1. lo \in Nat /\ lo >= 1 /\ p * PageSize \in Nat
    BY InventoryAssumption
  <1>2. Len(all) \in Nat
    OBVIOUS
  <1>3. hi \in Nat /\ hi <= Len(all)
    <2> DEFINE q == p * PageSize
    <2>1. q \in Nat
      BY <1>1
    <2> HIDE DEF q
    <2>2. Min({q, Len(all)}) \in {q, Len(all)}
      BY <1>2, <2>1, MinFacts
    <2>3. \E x \in {q, Len(all)} : \A y \in {q, Len(all)} : x <= y
      BY <1>2, <2>1
    <2>4. Min({q, Len(all)}) <= Len(all)
      BY <2>3 DEF Min
    <2> QED
      BY <1>2, <2>1, <2>2, <2>4 DEF q
  <1> HIDE DEF lo, hi
  <1>4. \A i \in lo..hi : all[i] \in S
    BY <1>1, <1>2, <1>3
  <1>5. lo \in Int /\ hi \in Int
    BY <1>1, <1>3
  <1>6. SubSeq(all, lo, hi) \in Seq(S)
    BY <1>4, <1>5, SubSeqProperties
  <1> QED
    BY <1>6 DEF PageOf, lo, hi

\* What a joined sequence holds.
LEMMA JoinFacts ==
    ASSUME NEW S, NEW s \in Seq(S), NEW t \in Seq(S)
    PROVE  s \o t \in Seq(S) /\ ToSet(s \o t) = ToSet(s) \cup ToSet(t)
  <1>1. /\ s \o t \in Seq(S) /\ Len(s \o t) = Len(s) + Len(t)
        /\ \A i \in 1..Len(s) + Len(t) :
              (s \o t)[i] = IF i <= Len(s) THEN s[i] ELSE t[i - Len(s)]
    BY ConcatProperties
  <1>2. /\ Len(s) \in Nat /\ Len(t) \in Nat
        /\ DOMAIN s = 1..Len(s) /\ DOMAIN t = 1..Len(t)
        /\ DOMAIN (s \o t) = 1..(Len(s) + Len(t))
    BY <1>1, LenProperties
  <1>3. ASSUME NEW x \in ToSet(s \o t)
        PROVE  x \in ToSet(s) \cup ToSet(t)
    <2>1. PICK i \in 1..Len(s) + Len(t) : x = (s \o t)[i]
      BY <1>2 DEF ToSet
    <2>2. CASE i <= Len(s)
      BY <1>1, <1>2, <2>1, <2>2 DEF ToSet
    <2>3. CASE ~(i <= Len(s))
      <3>1. i - Len(s) \in 1..Len(t)
        BY <1>2, <2>3
      <3> QED
        BY <1>1, <1>2, <2>1, <2>3, <3>1 DEF ToSet
    <2> QED
      BY <2>2, <2>3
  <1>4. ASSUME NEW x \in ToSet(s)
        PROVE  x \in ToSet(s \o t)
    <2>1. PICK i \in 1..Len(s) : x = s[i]
      BY <1>2 DEF ToSet
    <2>2. i \in 1..Len(s) + Len(t) /\ i <= Len(s)
      BY <1>2
    <2> QED
      BY <1>1, <1>2, <2>1, <2>2 DEF ToSet
  <1>5. ASSUME NEW x \in ToSet(t)
        PROVE  x \in ToSet(s \o t)
    <2>1. PICK i \in 1..Len(t) : x = t[i]
      BY <1>2 DEF ToSet
    <2>2. i + Len(s) \in 1..Len(s) + Len(t) /\ ~(i + Len(s) <= Len(s))
          /\ (i + Len(s)) - Len(s) = i
      BY <1>2
    <2>3. (s \o t)[i + Len(s)] = t[i]
      BY <1>1, <2>2
    <2> QED
      BY <1>2, <2>1, <2>2, <2>3 DEF ToSet
  <1> QED
    BY <1>1, <1>3, <1>4, <1>5

\* The identifiers of a listing are those of its entries.
LEMMA IdsFacts ==
    ASSUME NEW s
    PROVE  Ids(s) = IdsOf(ToSet(s))
  BY DEF Ids, IdsOf, ToSet

-----------------------------------------------------------------------------
(* What a request of the inventory returns *)

\* convert_asset gives an entry for an asset that the server holds, and its
\* Live Photo link names an asset.
LEMMA FactIsEntry ==
    ASSUME ServerOK, NEW a \in Assets, server[a] # None
    PROVE  Fact(a) \in Entry /\ server[a].live \in Assets \cup {None}
  <1>1. server[a] \in Versions[a] \ {None}
    BY DEF ServerOK
  <1>2. server[a] \in (UNION {Versions[b] : b \in Assets}) \ {None}
    BY <1>1
  <1>3. server[a].facts \in Facts
    BY <1>2, Zenon DEF Facts
  <1>4. server[a].live \in Assets \cup {None}
    BY <1>1, LibraryAssumption, Zenon
  <1> QED
    BY <1>3, <1>4 DEF Fact, Entry

\* A page of a search shows assets that the server holds: each gives an
\* entry, and their links name assets.
LEMMA PageShows ==
    ASSUME ServerOK, NEW v, NEW p \in Nat \ {0}
    PROVE  LET items == PageOf(Visible(v), p) IN
           /\ [k \in DOMAIN items |-> Fact(items[k])] \in Seq(Entry)
           /\ Links(ToSet(items)) \subseteq Assets
  <1> DEFINE items == PageOf(Visible(v), p)
             n == Len(items)
  <1>1. Selected(v) \in SUBSET Assets
    BY DEF Selected
  <1>2. Visible(v) \in Seq(Selected(v))
    BY <1>1, RankedFacts, Zenon DEF Visible
  <1>3. items \in Seq(Selected(v))
    BY <1>2, PageFacts, Zenon
  <1> HIDE DEF items
  <1>4. n \in Nat /\ DOMAIN items = 1..n /\ \A k \in 1..n : items[k] \in Selected(v)
    BY <1>3, LenProperties
  <1> HIDE DEF n
  <1>5. \A a \in Selected(v) : Fact(a) \in Entry /\ server[a].live \in Assets \cup {None}
    BY FactIsEntry DEF Selected
  <1> DEFINE s == [k \in 1..n |-> Fact(items[k])]
  <1>6. s \in [1..n -> Entry]
    BY <1>4, <1>5
  <1> HIDE DEF s
  <1>7. s \in Seq(Entry)
    BY <1>4, <1>6, FunctionIsSeq, Zenon
  <1>8. ToSet(items) \subseteq Selected(v)
    BY <1>4 DEF ToSet
  <1>9. Links(ToSet(items)) \subseteq Assets
    BY <1>5, <1>8 DEF Links
  <1> QED
    BY <1>4, <1>7, <1>9 DEF s, items

-----------------------------------------------------------------------------
(* Every step of the inventory keeps its invariant *)

\* While no manifest was made, a step that makes no plan has only the listing
\* to keep.
LEMMA ListingKeeps ==
    ASSUME PlanningOK, ~ManifestMade, UNCHANGED <<server, plan>>,
           ListingOK', inv'.pc # "planned"
    PROVE  PlanningOK'
  BY DEF PlanningOK, ServerOK, ManifestOK, ManifestMade

\* A request that fails changes the place of the inventory alone.
LEMMA FailKeeps ==
    ASSUME PlanningOK, ~ManifestMade, UNCHANGED <<server, plan>>,
           NEW pc \in {"failed", "aborted"}, inv' = [inv EXCEPT !.pc = pc]
    PROVE  PlanningOK'
  <1>1. ListingOK'
    BY DEF PlanningOK, ListingOK, InvFields, Entry, IdsOf
  <1>2. inv'.pc # "planned"
    BY DEF PlanningOK, ListingOK, InvFields
  <1> QED
    BY <1>1, <1>2, ListingKeeps

\* A new inventory starts with nothing listed, and only where there is no
\* manifest.
LEMMA StartKeeps ==
    ASSUME PlanningOK, NEW mode, NEW selection, Start(mode, selection), ~ManifestMade
    PROVE  PlanningOK'
  <1>1. ListingOK'
    BY DEF Start, Idle, ListingOK, InvFields, IdsOf
  <1>2. inv'.pc # "planned"
    BY DEF Start, Idle
  <1> QED
    BY <1>1, <1>2, ListingKeeps DEF Start

\* One page: what it shows is listed, and its links are pending.
LEMMA ListPageKeeps ==
    ASSUME PlanningOK, ListPage
    PROVE  PlanningOK'
  <1> DEFINE all == Visible(Head(inv.vis))
             items == PageOf(all, inv.page)
             entries == [k \in DOMAIN items |-> Fact(items[k])]
             found == Links(ToSet(items))
             more == HasNext(all, inv.page)
  <1>1. inv.pc = "page" /\ ~ManifestMade
    BY DEF ListPage, PlanningOK, ManifestOK
  <1>2. CASE Fail
    BY <1>1, <1>2, FailKeeps DEF Fail, Step
  <1>3. CASE Step([inv EXCEPT
                !.listed = @ \o entries,
                !.related = @ \cup found,
                !.links = @ \cup found,
                !.pc = IF more THEN "page" ELSE "related",
                !.page = IF more THEN @ + 1 ELSE 1])
    <2>1. /\ DOMAIN inv = InvFields
          /\ inv.page \in Nat \ {0}
          /\ inv.listed \in Seq(Entry) /\ inv.collected \in Seq(Entry)
          /\ inv.related \subseteq Assets
          /\ inv.mode = "archive" =>
                inv.links \subseteq inv.related \cup IdsOf(ToSet(inv.collected))
      BY <1>1 DEF PlanningOK, ListingOK
    <2>2. entries \in Seq(Entry) /\ found \subseteq Assets
      BY <2>1, PageShows, Zenon DEF PlanningOK
    <2> HIDE DEF entries, found, more
    <2>3. inv.listed \o entries \in Seq(Entry)
      BY <2>1, <2>2, JoinFacts, Zenon
    <2> DEFINE joined == inv.listed \o entries
    <2> HIDE DEF joined
    <2>4. joined \in Seq(Entry)
      BY <2>3 DEF joined
    <2>5. inv' = [inv EXCEPT !.listed = joined, !.related = inv.related \cup found,
                             !.links = inv.links \cup found,
                             !.pc = IF more THEN "page" ELSE "related",
                             !.page = IF more THEN inv.page + 1 ELSE 1]
      BY <1>3 DEF Step, joined
    <2>6. /\ DOMAIN inv' = InvFields /\ inv'.mode = inv.mode
          /\ inv'.listed = joined /\ inv'.collected = inv.collected
          /\ inv'.related = inv.related \cup found /\ inv'.links = inv.links \cup found
          /\ inv'.pc = (IF more THEN "page" ELSE "related")
          /\ inv'.page = (IF more THEN inv.page + 1 ELSE 1)
      BY <2>1, <2>5 DEF InvFields
    <2>7. inv'.page \in Nat \ {0}
      BY <2>1, <2>6
    <2>8. ListingOK'
      BY <2>1, <2>2, <2>4, <2>6, <2>7 DEF ListingOK, Entry, IdsOf, ToSet
    <2> QED
      BY <1>1, <1>3, <2>6, <2>8, ListingKeeps DEF Step
  <1> QED
    BY <1>2, <1>3 DEF ListPage

\* A looked-up video is listed.
LEMMA FetchRelatedKeeps ==
    ASSUME PlanningOK, FetchRelated
    PROVE  PlanningOK'
  <1> DEFINE a == Min(Unlisted)
  <1>1. inv.pc = "related" /\ ~ManifestMade
    BY DEF FetchRelated, PlanningOK, ManifestOK
  <1>2. CASE Fail
    BY <1>1, <1>2, FailKeeps DEF Fail, Step
  <1>3. CASE server[a] # None /\ Step([inv EXCEPT !.listed = Append(@, Fact(a))])
    <2>1. /\ DOMAIN inv = InvFields
          /\ inv.listed \in Seq(Entry) /\ inv.related \subseteq Assets
      BY <1>1 DEF PlanningOK, ListingOK
    <2>2. Unlisted \in SUBSET Assets /\ Assets \in SUBSET Nat /\ Unlisted # {}
      BY <2>1, InventoryAssumption DEF Unlisted, FetchRelated
    <2>3. a \in Assets
      BY <2>2, MinFacts
    <2> HIDE DEF a
    <2>4. Fact(a) \in Entry
      BY <1>3, <2>3, FactIsEntry DEF PlanningOK
    <2> DEFINE e == Fact(a)
               longer == Append(inv.listed, e)
    <2> HIDE DEF e
    <2>5. longer \in Seq(Entry)
      BY <2>1, <2>4 DEF e
    <2> HIDE DEF longer
    <2>6. inv' = [inv EXCEPT !.listed = longer]
      BY <1>3 DEF Step, longer, e
    <2>7. ListingOK'
      BY <1>1, <2>1, <2>5, <2>6 DEF PlanningOK, ListingOK, InvFields, Entry, IdsOf, ToSet
    <2>8. inv'.pc # "planned"
      BY <1>1, <2>1, <2>6 DEF InvFields
    <2> QED
      BY <1>1, <1>3, <2>7, <2>8, ListingKeeps DEF Step
  <1> QED
    BY <1>2, <1>3 DEF FetchRelated

\* Migration steps: the inventory is not one for an archive, and it stays one
\* of sequences of entries.
LEMMA MigrationKeeps ==
    ASSUME PlanningOK, inv.pc \in {"recheck", "albums", "related"}, inv.mode # "archive",
           UNCHANGED <<server, plan>>,
           DOMAIN inv' = InvFields, inv'.page \in Nat \ {0}, inv'.mode = inv.mode,
           inv'.listed = inv.listed, inv'.collected = inv.collected,
           inv'.pc \in {"recheck", "albums"}
    PROVE  PlanningOK'
  <1>1. ~ManifestMade
    BY DEF PlanningOK, ManifestOK
  <1>2. ListingOK'
    BY DEF PlanningOK, ListingOK
  <1> QED
    BY <1>1, <1>2, ListingKeeps

\* The end of a visibility: no link is pending, so every link that was seen is
\* among the collected entries, and the manifest holds those.
LEMMA ListingOverKeeps ==
    ASSUME PlanningOK, ListingOver
    PROVE  PlanningOK'
  <1> DEFINE collected == inv.collected \o inv.listed
  <1>1. inv.pc = "related" /\ ~ManifestMade /\ Unlisted = {}
    BY DEF ListingOver, PlanningOK, ManifestOK
  <1>2. /\ DOMAIN inv = InvFields
        /\ inv.page \in Nat \ {0}
        /\ inv.listed \in Seq(Entry) /\ inv.collected \in Seq(Entry)
        /\ inv.related \subseteq Assets
        /\ inv.mode = "archive" =>
              inv.links \subseteq inv.related \cup IdsOf(ToSet(inv.collected))
    BY <1>1 DEF PlanningOK, ListingOK
  <1>3. /\ collected \in Seq(Entry)
        /\ ToSet(collected) = ToSet(inv.collected) \cup ToSet(inv.listed)
    BY <1>2, JoinFacts, Zenon
  <1>4. inv.related \subseteq IdsOf(ToSet(inv.listed))
    BY <1>1, IdsFacts DEF Unlisted
  <1> HIDE DEF collected
  <1>5. inv.mode = "archive" => inv.links \subseteq IdsOf(ToSet(collected))
    BY <1>2, <1>3, <1>4 DEF IdsOf
  <1>6. CASE inv.mode # "archive" /\ Step([inv EXCEPT !.pc = "recheck", !.at = 1])
    <2>1. /\ DOMAIN inv' = InvFields /\ inv'.page = inv.page /\ inv'.mode = inv.mode
          /\ inv'.listed = inv.listed /\ inv'.collected = inv.collected
          /\ inv'.pc = "recheck"
      BY <1>2, <1>6 DEF Step, InvFields
    <2> QED
      BY <1>1, <1>2, <1>6, <2>1, MigrationKeeps DEF Step
  <1>7. CASE Fail
    BY <1>1, <1>7, FailKeeps DEF Fail, Step
  <1>8. CASE inv.mode = "archive" /\
             Step([inv EXCEPT !.pc = "page", !.vis = Tail(@), !.listed = <<>>,
                              !.related = {}, !.collected = collected])
    <2>1. /\ DOMAIN inv' = InvFields /\ inv'.page = inv.page /\ inv'.mode = inv.mode
          /\ inv'.listed = <<>> /\ inv'.collected = collected /\ inv'.related = {}
          /\ inv'.links = inv.links /\ inv'.pc = "page"
      BY <1>2, <1>8 DEF Step, InvFields
    <2>2. <<>> \in Seq(Entry)
      OBVIOUS
    <2>3. ListingOK'
      BY <1>2, <1>3, <1>5, <1>8, <2>1, <2>2 DEF ListingOK, Entry, IdsOf, ToSet
    <2> QED
      BY <1>1, <1>8, <2>1, <2>3, ListingKeeps DEF Step
  <1>9. CASE /\ inv.mode = "archive"
             /\ plan' = [mode |-> "archive", assets |-> ToSet(collected)]
             /\ inv' = [inv EXCEPT !.pc = "planned"]
             /\ UNCHANGED server
    <2>1. ToSet(collected) \subseteq Entry
      BY <1>3, LenProperties DEF ToSet
    <2>2. /\ DOMAIN inv' = InvFields /\ inv'.page = inv.page /\ inv'.mode = "archive"
          /\ inv'.listed = inv.listed /\ inv'.collected = inv.collected
          /\ inv'.links = inv.links /\ inv'.pc = "planned"
      BY <1>2, <1>9 DEF InvFields
    <2>3. ListingOK'
      BY <1>2, <2>2 DEF ListingOK, Entry
    <2> DEFINE m == ToSet(collected)
    <2> HIDE DEF m
    <2>4. plan' \in [mode : {"archive"}, assets : SUBSET [id : Assets, facts : Facts]]
      BY <1>9, <2>1 DEF m, Entry
    <2>5. plan' # None /\ plan'.mode = "archive" /\ plan'.assets = ToSet(collected)
      BY <1>9, <2>4, LibraryAssumption
    <2>6. ManifestOK'
      BY <1>5, <1>9, <2>1, <2>2, <2>5 DEF ManifestOK, ManifestMade, IdsOf, Entry
    <2> QED
      BY <1>9, <2>3, <2>6 DEF PlanningOK, ServerOK
  <1>10. \/ inv.mode # "archive" /\ Step([inv EXCEPT !.pc = "recheck", !.at = 1])
         \/ Fail
         \/ /\ inv.mode = "archive"
            /\ Step([inv EXCEPT !.pc = "page", !.vis = Tail(@), !.listed = <<>>,
                                !.related = {}, !.collected = collected])
         \/ /\ inv.mode = "archive"
            /\ plan' = [mode |-> "archive", assets |-> ToSet(collected)]
            /\ inv' = [inv EXCEPT !.pc = "planned"]
            /\ UNCHANGED server
    <2>1. CASE inv.mode # "archive"
      BY <2>1, Zenon DEF ListingOver
    <2>2. CASE inv.mode = "archive" /\ Len(inv.vis) > 1
      BY <2>2, Zenon DEF ListingOver, collected
    <2>3. CASE inv.mode = "archive" /\ ~(Len(inv.vis) > 1)
      BY <2>3, Zenon DEF ListingOver, collected
    <2> QED
      BY <2>1, <2>2, <2>3
  <1> QED
    BY <1>6, <1>7, <1>8, <1>9, <1>10

\* The second lookup of a migration changes its own part of the inventory.
LEMMA RecheckKeeps ==
    ASSUME PlanningOK, Recheck
    PROVE  PlanningOK'
  <1>1. /\ inv.pc = "recheck" /\ ~ManifestMade /\ inv.mode # "archive"
        /\ DOMAIN inv = InvFields /\ inv.page \in Nat \ {0}
    BY DEF Recheck, PlanningOK, ManifestOK, ListingOK
  <1>2. CASE Fail
    BY <1>1, <1>2, FailKeeps DEF Fail, Step
  <1>3. CASE \E assets, at : Step([inv EXCEPT !.assets = assets, !.at = at])
    <2>1. PICK assets, at : Step([inv EXCEPT !.assets = assets, !.at = at])
      BY <1>3
    <2>2. /\ DOMAIN inv' = InvFields /\ inv'.page = inv.page /\ inv'.mode = inv.mode
          /\ inv'.listed = inv.listed /\ inv'.collected = inv.collected
          /\ inv'.pc = "recheck"
      BY <1>1, <2>1 DEF Step, InvFields
    <2> QED
      BY <1>1, <2>1, <2>2, MigrationKeeps DEF Step
  <1> QED
    BY <1>2, <1>3 DEF Recheck

\* So do the headers of the albums,
LEMMA AlbumHeadersKeeps ==
    ASSUME PlanningOK, AlbumHeaders
    PROVE  PlanningOK'
  <1>1. /\ inv.pc = "recheck" /\ ~ManifestMade /\ inv.mode # "archive"
        /\ DOMAIN inv = InvFields /\ inv.page \in Nat \ {0}
    BY DEF AlbumHeaders, PlanningOK, ManifestOK, ListingOK
  <1>2. CASE Fail
    BY <1>1, <1>2, FailKeeps DEF Fail, Step
  <1>3. CASE Step([inv EXCEPT !.pc = "albums", !.queue = SetToSeq(Albums), !.page = 1,
                              !.related = {}, !.at = 1])
    <2>1. /\ DOMAIN inv' = InvFields /\ inv'.page = 1 /\ inv'.mode = inv.mode
          /\ inv'.listed = inv.listed /\ inv'.collected = inv.collected
          /\ inv'.pc = "albums"
      BY <1>1, <1>3 DEF Step, InvFields
    <2> QED
      BY <1>1, <1>3, <2>1, MigrationKeeps DEF Step
  <1> QED
    BY <1>2, <1>3 DEF AlbumHeaders

\* a page of the members of one album,
LEMMA AlbumPageKeeps ==
    ASSUME PlanningOK, AlbumPage
    PROVE  PlanningOK'
  <1>1. /\ inv.pc = "albums" /\ ~ManifestMade /\ inv.mode # "archive"
        /\ DOMAIN inv = InvFields /\ inv.page \in Nat \ {0}
    BY DEF AlbumPage, PlanningOK, ManifestOK, ListingOK
  <1>2. CASE Fail
    BY <1>1, <1>2, FailKeeps DEF Fail, Step
  <1>3. CASE \E seen : Step([inv EXCEPT !.related = seen, !.page = @ + 1])
    <2>1. PICK seen : Step([inv EXCEPT !.related = seen, !.page = @ + 1])
      BY <1>3
    <2>2. /\ DOMAIN inv' = InvFields /\ inv'.page = inv.page + 1 /\ inv'.mode = inv.mode
          /\ inv'.listed = inv.listed /\ inv'.collected = inv.collected
          /\ inv'.pc = "albums"
      BY <1>1, <2>1 DEF Step, InvFields
    <2>3. inv'.page \in Nat \ {0}
      BY <1>1, <2>2
    <2> QED
      BY <1>1, <2>1, <2>2, <2>3, MigrationKeeps DEF Step
  <1>4. CASE \E albums : Step([inv EXCEPT !.albums = albums, !.queue = Tail(@), !.page = 1,
                                          !.related = {}])
    <2>1. PICK albums : Step([inv EXCEPT !.albums = albums, !.queue = Tail(@), !.page = 1,
                                         !.related = {}])
      BY <1>4
    <2>2. /\ DOMAIN inv' = InvFields /\ inv'.page = 1 /\ inv'.mode = inv.mode
          /\ inv'.listed = inv.listed /\ inv'.collected = inv.collected
          /\ inv'.pc = "albums"
      BY <1>1, <2>1 DEF Step, InvFields
    <2> QED
      BY <1>1, <2>1, <2>2, MigrationKeeps DEF Step
  <1> QED
    BY <1>2, <1>3, <1>4, Zenon DEF AlbumPage

\* and the check of an original.
LEMMA VerifyOriginalKeeps ==
    ASSUME PlanningOK, VerifyOriginal
    PROVE  PlanningOK'
  <1>1. /\ inv.pc = "albums" /\ ~ManifestMade /\ inv.mode # "archive"
        /\ DOMAIN inv = InvFields /\ inv.page \in Nat \ {0}
    BY DEF VerifyOriginal, PlanningOK, ManifestOK, ListingOK
  <1>2. CASE Fail
    BY <1>1, <1>2, FailKeeps DEF Fail, Step
  <1>3. CASE Step([inv EXCEPT !.at = @ + 1])
    <2>1. /\ DOMAIN inv' = InvFields /\ inv'.page = inv.page /\ inv'.mode = inv.mode
          /\ inv'.listed = inv.listed /\ inv'.collected = inv.collected
          /\ inv'.pc = "albums"
      BY <1>1, <1>3 DEF Step, InvFields
    <2> QED
      BY <1>1, <1>3, <2>1, MigrationKeeps DEF Step
  <1> QED
    BY <1>2, <1>3 DEF VerifyOriginal

\* A migration plan is no manifest.
LEMMA AssembleKeeps ==
    ASSUME PlanningOK, Assemble
    PROVE  PlanningOK'
  <1>1. /\ inv.pc = "albums" /\ ~ManifestMade /\ inv.mode # "archive"
        /\ DOMAIN inv = InvFields
    BY DEF Assemble, PlanningOK, ManifestOK, ListingOK
  <1>2. CASE Fail
    BY <1>1, <1>2, FailKeeps DEF Fail, Step
  <1>3. CASE /\ plan' = MigrationPlan(ToSet(inv.assets), inv.albums)
             /\ inv' = [inv EXCEPT !.pc = "planned"]
             /\ UNCHANGED server
    <2>1. plan'.mode = "migrate"
      BY <1>3 DEF MigrationPlan
    <2>2. /\ DOMAIN inv' = InvFields /\ inv'.page = inv.page /\ inv'.mode = inv.mode
          /\ inv'.listed = inv.listed /\ inv'.collected = inv.collected
          /\ inv'.pc = "planned"
      BY <1>1, <1>3 DEF InvFields
    <2>3. ListingOK'
      BY <1>1, <2>2 DEF PlanningOK, ListingOK
    <2>4. ManifestOK'
      BY <1>1, <2>1, <2>2 DEF ManifestOK, ManifestMade
    <2> QED
      BY <1>3, <2>3, <2>4 DEF PlanningOK, ServerOK
  <1> QED
    BY <1>2, <1>3, Zenon DEF Assemble

\* Every step of an inventory keeps the invariant.
LEMMA InventoryKeeps ==
    ASSUME PlanningOK, InventoryStep
    PROVE  PlanningOK'
  <1>1. CASE RequestFails
    <2>1. ~ManifestMade
      BY <1>1 DEF RequestFails, PlanningOK, ManifestOK
    <2> QED
      BY <1>1, <2>1, FailKeeps DEF RequestFails
  <1> QED
    BY <1>1, ListPageKeeps, FetchRelatedKeeps, ListingOverKeeps, RecheckKeeps,
       AlbumHeadersKeeps, AlbumPageKeeps, VerifyOriginalKeeps, AssembleKeeps
       DEF InventoryStep

\* The server may change as it likes.
LEMMA ServerKeeps ==
    ASSUME PlanningOK, ServerStep
    PROVE  PlanningOK'
  <1>1. UNCHANGED <<inv, plan>>
    BY DEF ServerStep, Change, ChangeAlbum
  <1>2. ServerOK'
    <2>1. CASE \E a \in Assets : Change(a)
      <3>1. PICK a \in Assets : Change(a)
        BY <2>1
      <3>2. PICK new \in Versions[a] : server' = [server EXCEPT ![a] = new]
        BY <3>1 DEF Change
      <3> QED
        BY <3>2 DEF PlanningOK, ServerOK
    <2>2. CASE \E b \in Albums : ChangeAlbum(b)
      BY <2>2 DEF ChangeAlbum, PlanningOK, ServerOK
    <2> QED
      BY <2>1, <2>2 DEF ServerStep
  <1>3. ListingOK'
    BY <1>1 DEF PlanningOK, ListingOK
  <1>4. ManifestOK'
    BY <1>1 DEF PlanningOK, ManifestOK, ManifestMade
  <1> QED
    BY <1>2, <1>3, <1>4 DEF PlanningOK

\* A run of apply_archive reads the manifest and the server alone.
LEMMA RunsReadOnly ==
    ASSUME NEW r \in Runners, Begin(r) \/ RunStep(r) \/ DownloadFails(r) \/ Crash(r)
    PROVE  UNCHANGED <<server, inv, plan, members, touched>>
  BY DEF Begin, RunStep, DownloadFails, Crash, NextAsset, OpenFails, Open, Chunk, Verify,
         Rename, Report, Abort, Runs, inventoryVars

\* So it keeps what the inventory established.
LEMMA UnchangedKeeps ==
    ASSUME PlanningOK, UNCHANGED <<server, inv, plan>>
    PROVE  PlanningOK'
  <1>1. ServerOK'
    BY DEF PlanningOK, ServerOK
  <1>2. ListingOK'
    BY DEF PlanningOK, ListingOK
  <1>3. ManifestOK'
    BY DEF PlanningOK, ManifestOK, ManifestMade
  <1> QED
    BY <1>1, <1>2, <1>3 DEF PlanningOK

\* Initially nothing was listed.
LEMMA PlanningInit ==
    ASSUME Init
    PROVE  PlanningOK
  <1>1. ServerOK
    <2>1. PICK l \in Libraries : server = l.assets
      BY DEF Init, InventoryInit
    <2>2. l.assets = [a \in Assets |-> l.assets[a]] /\ \A a \in Assets : l.assets[a] \in Versions[a]
      BY LibraryAssumption
    <2> QED
      BY <2>1, <2>2 DEF ServerOK
  <1>2. ListingOK
    BY DEF Init, InventoryInit, Idle, ListingOK, InvFields, IdsOf
  <1>3. ManifestOK
    BY DEF Init, InventoryInit, Idle, ManifestOK, ManifestMade
  <1> QED
    BY <1>1, <1>2, <1>3 DEF PlanningOK

\* Every step keeps it.
LEMMA PlanningNext ==
    ASSUME PlanningOK, [Next]_vars
    PROVE  PlanningOK'
  <1>1. CASE \E s \in Selections : Start("archive", s) /\ plan = None
    BY <1>1, StartKeeps DEF ManifestMade
  <1>2. CASE \E m \in {"migrate", "verify"} :
                (plan # None => plan.mode = "migrate") /\ Start(m, <<"timeline">>)
    BY <1>2, StartKeeps DEF ManifestMade
  <1>3. CASE InventoryStep
    BY <1>3, InventoryKeeps
  <1>4. CASE ServerStep
    BY <1>4, ServerKeeps
  <1>5. CASE UNCHANGED <<server, inv, plan>>
    BY <1>5, UnchangedKeeps
  <1>6. PowerLoss => UNCHANGED <<server, inv, plan>>
    BY DEF PowerLoss
  <1>7. UNCHANGED vars => UNCHANGED <<server, inv, plan>>
    BY DEF vars
  <1> QED
    BY <1>1, <1>2, <1>3, <1>4, <1>5, <1>6, <1>7, RunsReadOnly, Zenon DEF Next, Planning

\* The invariant of the inventory holds for every library, selection and page
\* size, and whatever else the machine does.
THEOREM PlanningInvariance == Spec => []PlanningOK
  <1>1. Init => PlanningOK
    BY PlanningInit
  <1>2. PlanningOK /\ [Next]_vars => PlanningOK'
    BY PlanningNext
  <1> QED
    BY <1>1, <1>2, PTL DEF Spec

\* A manifest never separates a Live Photo: the video of every link that a
\* page showed is in it, however the server changed between the requests
\* (archive.rs:121-159, application archive.rs:51-66).
THEOREM PairsAreComplete == Spec => []PairsComplete
  <1>1. PlanningOK => PairsComplete
    BY DEF PlanningOK, ManifestOK, PairsComplete, IdsOf
  <1> QED
    BY <1>1, PlanningInvariance, PTL

-----------------------------------------------------------------------------
(* The manifest while it is applied *)

\* Once a manifest was made there is no other inventory.
LEMMA ManifestIsFixed ==
    ASSUME PlanningOK, ManifestMade, [Next]_vars
    PROVE  UNCHANGED <<inv, plan>>
  <1>1. inv.pc = "planned"
    BY DEF PlanningOK, ManifestOK
  <1>2. ~InventoryStep
    BY <1>1 DEF InventoryStep, ListPage, FetchRelated, ListingOver, Recheck, AlbumHeaders,
                AlbumPage, VerifyOriginal, Assemble, RequestFails
  <1>3. ServerStep => UNCHANGED <<inv, plan>>
    BY DEF ServerStep, Change, ChangeAlbum
  <1>4. PowerLoss => UNCHANGED <<inv, plan>>
    BY DEF PowerLoss
  <1>5. UNCHANGED vars => UNCHANGED <<inv, plan>>
    BY DEF vars
  <1>6. plan # None /\ plan.mode = "archive"
    BY DEF ManifestMade
  <1> QED
    BY <1>2, <1>3, <1>4, <1>5, <1>6, RunsReadOnly DEF Next, Planning

\* What is read from the same manifest is the same.
LEMMA SameManifest ==
    ASSUME plan' = plan
    PROVE  /\ ManifestMade' <=> ManifestMade
           /\ Manifest' = Manifest
           /\ \A f, a : Matches(f, a)' <=> Matches(f, a)
           /\ \A a : Expected(a)' = Expected(a)
  BY DEF ManifestMade, Manifest, Matches, Expected

\* The asset a run works on is one of the manifest.
LEMMA CurrentFacts ==
    ASSUME PlanningOK, ApplyOK, NEW r \in Runners, run[r].pc \in Working, run[r].todo # {}
    PROVE  /\ Current(r) \in run[r].todo /\ Current(r) \in Assets
           /\ ManifestMade /\ run[r].todo \subseteq IdsOf(Manifest)
  <1>1. ManifestMade /\ run[r].todo \subseteq IdsOf(Manifest)
    BY DEF ApplyOK, RunsOK, RunOK
  <1>2. Manifest \subseteq Entry
    BY <1>1 DEF PlanningOK, ManifestOK, ManifestMade, Manifest
  <1>3. run[r].todo \subseteq Assets
    BY <1>1, <1>2 DEF IdsOf, Entry
  <1>4. run[r].todo \in SUBSET Nat
    BY <1>3, InventoryAssumption
  <1>5. Current(r) \in run[r].todo
    BY <1>4, MinFacts DEF Current
  <1> QED
    BY <1>1, <1>3, <1>5

\* A run that stopped needs nothing.
LEMMA StoppedRun ==
    ASSUME NEW r \in Runners, DOMAIN run'[r] = RunFields,
           run'[r].pc \in {"idle", "failed", "ok"}
    PROVE  RunOK(r)'
  BY DEF RunOK, Working

\* With one process the invariant is about its run and the directory.
LEMMA RunKeeps ==
    ASSUME OneRunner, NEW r \in Runners, ApplyOK, RunOK(r)', DirectoryOK',
           NEW new, run' = [run EXCEPT ![r] = new]
    PROVE  ApplyOK'
  <1>1. run = [s \in Runners |-> run[s]]
    BY DEF ApplyOK, RunsOK
  <1>2. run' = [s \in Runners |-> run'[s]]
    BY <1>1
  <1>3. \A s \in Runners : s = r
    BY DEF OneRunner
  <1>4. \A s \in Runners : RunOK(s)'
    BY <1>3, Zenon
  <1> QED
    BY <1>2, <1>4 DEF ApplyOK, RunsOK

\* Steps of the inventory and of the server leave the directory alone, and a
\* run works only once the manifest is fixed.
LEMMA PlanningLeavesRuns ==
    ASSUME PlanningOK, ApplyOK, [Next]_vars, UNCHANGED <<final, part, run>>
    PROVE  ApplyOK'
  <1>1. CASE ManifestMade
    <2>1. UNCHANGED <<inv, plan>>
      BY <1>1, ManifestIsFixed
    <2>2. DirectoryOK'
      BY <2>1, <1>1 DEF ApplyOK, DirectoryOK, Matches, Expected, Manifest, ManifestMade
    <2>3. RunsOK'
      BY <2>1, <1>1 DEF ApplyOK, RunsOK, RunOK, Passed, Matches, Expected, Manifest,
                        ManifestMade, Current, IdsOf, File
    <2> QED
      BY <2>2, <2>3 DEF ApplyOK
  <1>2. CASE ~ManifestMade
    <2>1. \A r \in Runners : DOMAIN run[r] = RunFields /\ run[r].pc \in {"idle", "failed", "ok"}
      BY <1>2 DEF ApplyOK, RunsOK, RunOK
    <2>2. \A r \in Runners : RunOK(r)'
      BY <2>1, StoppedRun
    <2>3. \A a \in Assets : final[a] # None => final[a].by \notin Runners
      BY <1>2 DEF ApplyOK, DirectoryOK
    <2>4. DirectoryOK'
      BY <2>3 DEF ApplyOK, DirectoryOK
    <2> QED
      BY <2>2, <2>4 DEF ApplyOK, RunsOK
  <1> QED
    BY <1>1, <1>2

-----------------------------------------------------------------------------
(* Every step of a run keeps the invariant *)

\* A directory whose files under final names stay is kept.
LEMMA SameDirectory ==
    ASSUME ApplyOK, plan' = plan, final' = final, part' = [a \in Assets |-> part'[a]]
    PROVE  DirectoryOK'
  BY SameManifest DEF ApplyOK, DirectoryOK, Matches

\* remove_created_part, and the failure of the run.
LEMMA AbortKeeps ==
    ASSUME OneRunner, ApplyOK, NEW r \in Runners, plan' = plan, final' = final,
           NEW a, part' = [part EXCEPT ![a] = None],
           run' = [run EXCEPT ![r].pc = "failed"]
    PROVE  ApplyOK'
  <1>1. DOMAIN run[r] = RunFields /\ run = [s \in Runners |-> run[s]]
    BY DEF ApplyOK, RunsOK, RunOK
  <1>2. DOMAIN run'[r] = RunFields /\ run'[r].pc = "failed"
    BY <1>1 DEF RunFields
  <1>3. RunOK(r)'
    BY <1>2, StoppedRun
  <1>4. part' = [b \in Assets |-> part'[b]]
    BY DEF ApplyOK, DirectoryOK
  <1>5. DirectoryOK'
    BY <1>4, SameDirectory
  <1> QED
    BY <1>3, <1>5, RunKeeps

\* apply_archive starts with every asset of the manifest to do.
LEMMA BeginKeeps ==
    ASSUME OneRunner, PlanningOK, ApplyOK, NEW r \in Runners, Begin(r)
    PROVE  ApplyOK'
  <1> DEFINE new == [NoRun EXCEPT !.pc = "next", !.todo = {x.id : x \in Manifest}]
  <1>1. /\ run = [s \in Runners |-> run[s]] /\ part = [b \in Assets |-> part[b]]
        /\ UNCHANGED <<plan, inv, final, part>> /\ run' = [run EXCEPT ![r] = new]
    BY DEF ApplyOK, RunsOK, DirectoryOK, Begin, Runs, inventoryVars
  <1>2. ManifestMade
    BY DEF PlanningOK, ManifestOK, Begin
  <1>3. ManifestMade' /\ Manifest' = Manifest
    BY <1>1, <1>2, SameManifest
  <1>4. run'[r] = new
    BY <1>1
  <1>5. /\ DOMAIN run'[r] = RunFields /\ run'[r].pc = "next"
        /\ run'[r].todo = IdsOf(Manifest)
    BY <1>4 DEF NoRun, RunFields, IdsOf
  <1>6. Passed(r)'
    BY <1>3, <1>5 DEF Passed, IdsOf
  <1>7. RunOK(r)'
    BY <1>3, <1>5, <1>6 DEF RunOK, Working, IdsOf
  <1>8. DirectoryOK'
    BY <1>1, SameDirectory
  <1> HIDE DEF new
  <1> QED
    BY <1>1, <1>7, <1>8, RunKeeps

\* The head of the loop: an asset is passed only when its file was verified.
LEMMA NextAssetKeeps ==
    ASSUME OneRunner, PlanningOK, ApplyOK, NEW r \in Runners, NextAsset(r)
    PROVE  ApplyOK'
  <1> DEFINE a == Current(r)
  <1>1. /\ run = [s \in Runners |-> run[s]] /\ part = [b \in Assets |-> part[b]]
        /\ DOMAIN run[r] = RunFields /\ run[r].pc = "next" /\ run[r].todo # {}
        /\ Passed(r) /\ plan' = plan
    BY DEF ApplyOK, RunsOK, RunOK, DirectoryOK, NextAsset, Runs, inventoryVars, Working
  <1>2. /\ a \in run[r].todo /\ a \in Assets
        /\ ManifestMade /\ run[r].todo \subseteq IdsOf(Manifest)
    BY <1>1, CurrentFacts DEF Working
  <1>3. ManifestMade' /\ Manifest' = Manifest /\ \A f, b : Matches(f, b)' <=> Matches(f, b)
    BY <1>1, <1>2, SameManifest
  <1>4. CASE /\ final[a] # None /\ Matches(final[a], a) /\ UNCHANGED <<final, part>>
             /\ run' = [run EXCEPT ![r].todo = Rest(r), ![r].already = @ + 1]
    <2>1. /\ DOMAIN run'[r] = RunFields /\ run'[r].pc = "next"
          /\ run'[r].todo = run[r].todo \ {a}
      BY <1>1, <1>4 DEF RunFields, Rest
    <2>2. Passed(r)'
      BY <1>1, <1>3, <1>4, <2>1 DEF Passed, Matches
    <2>3. RunOK(r)'
      BY <1>2, <1>3, <2>1, <2>2 DEF RunOK, Working, IdsOf
    <2>4. DirectoryOK'
      BY <1>1, <1>4, SameDirectory
    <2>5. \E new : run' = [run EXCEPT ![r] = new]
      BY <1>4
    <2> QED
      BY <2>3, <2>4, <2>5, RunKeeps
  <1>5. CASE UNCHANGED <<final, part>> /\ run' = [run EXCEPT ![r].pc = "failed"]
    <2>1. DOMAIN run'[r] = RunFields /\ run'[r].pc = "failed"
      BY <1>1, <1>5 DEF RunFields
    <2>2. RunOK(r)'
      BY <2>1, StoppedRun
    <2>3. DirectoryOK'
      BY <1>1, <1>5, SameDirectory
    <2>4. \E new : run' = [run EXCEPT ![r] = new]
      BY <1>5
    <2> QED
      BY <2>2, <2>3, <2>4, RunKeeps
  <1>6. CASE /\ part' = [part EXCEPT ![a] = None] /\ final' = final
             /\ run' = [run EXCEPT ![r].pc = "open"]
    <2>1. /\ DOMAIN run'[r] = RunFields /\ run'[r].pc = "open"
          /\ run'[r].todo = run[r].todo
      BY <1>1, <1>6 DEF RunFields
    <2>2. Passed(r)'
      BY <1>1, <1>3, <1>6, <2>1 DEF Passed, Matches
    <2>3. RunOK(r)'
      BY <1>1, <1>2, <1>3, <2>1, <2>2 DEF RunOK, Working, IdsOf
    <2>4. DirectoryOK'
      BY <1>1, <1>6, SameDirectory
    <2>5. \E new : run' = [run EXCEPT ![r] = new]
      BY <1>6
    <2> QED
      BY <2>3, <2>4, <2>5, RunKeeps
  <1> QED
    BY <1>4, <1>5, <1>6 DEF NextAsset, Runs

\* What every step between the head of the loop and the rename starts from.
LEMMA Downloading ==
    ASSUME PlanningOK, ApplyOK, NEW r \in Runners, run[r].pc \in {"open", "body", "rename"}
    PROVE  /\ run = [s \in Runners |-> run[s]] /\ DOMAIN run[r] = RunFields
           /\ part = [b \in Assets |-> part[b]] /\ final = [b \in Assets |-> final[b]]
           /\ run[r].todo # {} /\ Passed(r) /\ ManifestMade
           /\ Current(r) \in run[r].todo /\ Current(r) \in Assets
           /\ run[r].todo \subseteq IdsOf(Manifest)
  <1>1. /\ run = [s \in Runners |-> run[s]] /\ DOMAIN run[r] = RunFields
        /\ part = [b \in Assets |-> part[b]] /\ final = [b \in Assets |-> final[b]]
        /\ run[r].todo # {} /\ Passed(r)
    BY DEF ApplyOK, RunsOK, RunOK, DirectoryOK, Working
  <1> QED
    BY <1>1, CurrentFacts DEF Working

\* The part file of a run that streams is its own.
LEMMA FileIsMine ==
    ASSUME NEW r \in Runners, NEW facts \in Facts, NEW chunks \in 0..Chunks,
           NEW synced \in BOOLEAN, NEW file, file = File(r, facts, chunks, synced)
    PROVE  file # None /\ Mine(r, file)
  <1>1. file \in [by : Runners, facts : Facts, chunks : 0..Chunks, synced : BOOLEAN]
    BY DEF File
  <1> QED
    BY <1>1, ArchiveAssumption DEF Mine, File

\* A file that grew by chunks is the same file otherwise.
LEMMA FileGrows ==
    ASSUME NEW r, NEW facts, NEW chunks, NEW synced, NEW c, NEW file, NEW new,
           file = File(r, facts, chunks, synced), new = [file EXCEPT !.chunks = c]
    PROVE  new = File(r, facts, c, synced)
  BY DEF File

\* The same for a file that was synced.
LEMMA FileIsSynced ==
    ASSUME NEW r, NEW facts, NEW chunks, NEW synced, NEW s, NEW file, NEW new,
           file = File(r, facts, chunks, synced), new = [file EXCEPT !.synced = s]
    PROVE  new = File(r, facts, chunks, s)
  BY DEF File

\* A new part file holds none of the body.
LEMMA OpenKeeps ==
    ASSUME OneRunner, PlanningOK, ApplyOK, NEW r \in Runners, Open(r)
    PROVE  ApplyOK'
  <1> DEFINE a == Current(r)
             facts == server[a].facts
             new == [run[r] EXCEPT !.pc = "body", !.body = facts]
  <1>1. /\ run[r].pc = "open" /\ server[a] # None /\ UNCHANGED <<plan, final>>
        /\ part' = [part EXCEPT ![a] = File(r, facts, 0, FALSE)]
        /\ run' = [run EXCEPT ![r].pc = "body", ![r].body = facts]
    BY DEF Open, Runs, inventoryVars
  <1>2. /\ run = [s \in Runners |-> run[s]] /\ DOMAIN run[r] = RunFields
        /\ part = [b \in Assets |-> part[b]]
        /\ run[r].todo # {} /\ Passed(r) /\ ManifestMade
        /\ a \in run[r].todo /\ a \in Assets /\ run[r].todo \subseteq IdsOf(Manifest)
    BY <1>1, Downloading, Zenon
  <1>3. ManifestMade' /\ Manifest' = Manifest /\ \A f, b : Matches(f, b)' <=> Matches(f, b)
    BY <1>1, <1>2, SameManifest
  <1>4. facts \in Facts
    BY <1>1, <1>2, FactIsEntry DEF PlanningOK, Fact, Entry
  <1> HIDE DEF facts
  <1>5. /\ DOMAIN run'[r] = RunFields /\ run'[r].pc = "body" /\ run'[r].body = facts
        /\ run'[r].todo = run[r].todo
    BY <1>1, <1>2 DEF RunFields
  <1>6. Current(r)' = a
    BY <1>5 DEF Current
  <1> HIDE DEF a
  <1>7. part'[a] = File(r, facts, 0, FALSE) /\ part' = [b \in Assets |-> part'[b]]
    BY <1>1, <1>2
  <1>8. part'[a].chunks = 0 /\ 0 \in 0..Chunks
    BY <1>7, ArchiveAssumption DEF File
  <1>9. Passed(r)'
    BY <1>1, <1>2, <1>3, <1>5 DEF Passed, Matches
  <1>10. RunOK(r)'
    BY <1>2, <1>3, <1>4, <1>5, <1>6, <1>7, <1>8, <1>9 DEF RunOK, Working, IdsOf
  <1>11. DirectoryOK'
    BY <1>1, <1>7, SameDirectory
  <1>12. \E n : run' = [run EXCEPT ![r] = n]
    BY <1>1
  <1> QED
    BY <1>10, <1>11, <1>12, RunKeeps

\* A chunk more, and not more than the body has.
LEMMA ChunkKeeps ==
    ASSUME OneRunner, PlanningOK, ApplyOK, NEW r \in Runners, Chunk(r)
    PROVE  ApplyOK'
  <1> DEFINE a == Current(r)
             body == run[r].body
             chunks == part[a].chunks
  <1>1. /\ run[r].pc = "body" /\ part[a].chunks < Chunks /\ UNCHANGED <<plan, final, run>>
        /\ part' = [part EXCEPT ![a].chunks = @ + 1]
    BY DEF Chunk, Runs, inventoryVars
  <1>2. /\ run = [s \in Runners |-> run[s]] /\ DOMAIN run[r] = RunFields
        /\ part = [b \in Assets |-> part[b]]
        /\ run[r].todo # {} /\ Passed(r) /\ ManifestMade
        /\ a \in run[r].todo /\ a \in Assets /\ run[r].todo \subseteq IdsOf(Manifest)
    BY <1>1, Downloading, Zenon
  <1>3. body \in Facts /\ chunks \in 0..Chunks /\ part[a] = File(r, body, chunks, FALSE)
    BY <1>1 DEF ApplyOK, RunsOK, RunOK
  <1>4. ManifestMade' /\ Manifest' = Manifest /\ \A f, b : Matches(f, b)' <=> Matches(f, b)
    BY <1>1, <1>2, SameManifest
  <1>5. chunks + 1 \in 0..Chunks
    BY <1>1, <1>3, ArchiveAssumption
  <1>6. Current(r)' = a
    BY <1>1 DEF Current
  <1> HIDE DEF a
  <1>7. part'[a] = [part[a] EXCEPT !.chunks = chunks + 1] /\ part' = [b \in Assets |-> part'[b]]
    BY <1>1, <1>2
  <1> HIDE DEF body, chunks
  <1>8. part'[a] = File(r, body, chunks + 1, FALSE) /\ part'[a].chunks = chunks + 1
    <2>1. PICK file, new, c, f, s : /\ file = part[a] /\ new = part'[a] /\ c = chunks + 1
                                    /\ f = body /\ s = FALSE
      OBVIOUS
    <2>2. file = File(r, f, chunks, s) /\ new = [file EXCEPT !.chunks = c]
      BY <1>3, <1>7, <2>1
    <2>3. new = File(r, f, c, s)
      BY <2>2, FileGrows
    <2>4. new.chunks = c
      BY <2>3 DEF File
    <2> QED
      BY <2>1, <2>3, <2>4
  <1>9. Passed(r)'
    BY <1>1, <1>2, <1>4 DEF Passed, Matches
  <1>10. RunOK(r)'
    BY <1>1, <1>2, <1>3, <1>4, <1>5, <1>6, <1>8, <1>9 DEF RunOK, Working, IdsOf, body
  <1>11. DirectoryOK'
    BY <1>1, <1>7, SameDirectory
  <1>12. \E n : run' = [run EXCEPT ![r] = n]
    <2>1. run' = [run EXCEPT ![r] = run[r]]
      BY <1>1, <1>2
    <2> QED
      BY <2>1
  <1> QED
    BY <1>10, <1>11, <1>12, RunKeeps

\* What passes the checks is the whole body of the manifest, synced.
LEMMA VerifyKeeps ==
    ASSUME OneRunner, PlanningOK, ApplyOK, NEW r \in Runners, Verify(r)
    PROVE  ApplyOK'
  <1> DEFINE a == Current(r)
             body == run[r].body
             chunks == part[a].chunks
  <1>1. run[r].pc = "body" /\ plan' = plan
    BY DEF Verify, Runs, inventoryVars, Abort
  <1>2. CASE Abort(r)
    BY <1>1, <1>2, AbortKeeps DEF Abort, Runs
  <1>3. CASE /\ body = Expected(a) /\ UNCHANGED final
             /\ part' = IF Mine(r, part[a]) THEN [part EXCEPT ![a].synced = TRUE] ELSE part
             /\ run' = [run EXCEPT ![r].pc = "rename"]
    <2>1. /\ run = [s \in Runners |-> run[s]] /\ DOMAIN run[r] = RunFields
          /\ part = [b \in Assets |-> part[b]]
          /\ run[r].todo # {} /\ Passed(r) /\ ManifestMade
          /\ a \in run[r].todo /\ a \in Assets /\ run[r].todo \subseteq IdsOf(Manifest)
      BY <1>1, Downloading, Zenon
    <2>2. body \in Facts /\ chunks \in 0..Chunks /\ part[a] = File(r, body, chunks, FALSE)
      BY <1>1 DEF ApplyOK, RunsOK, RunOK
    <2>3. Mine(r, part[a])
      BY <2>2, FileIsMine
    <2>4. chunks = Chunks
      BY <2>3 DEF Verify
    <2>5. /\ ManifestMade' /\ Manifest' = Manifest
          /\ \A f, b : Matches(f, b)' <=> Matches(f, b)
          /\ \A b : Expected(b)' = Expected(b)
      BY <1>1, <2>1, SameManifest
    <2>6. /\ DOMAIN run'[r] = RunFields /\ run'[r].pc = "rename" /\ run'[r].body = body
          /\ run'[r].todo = run[r].todo
      BY <1>3, <2>1 DEF RunFields
    <2>7. Current(r)' = a
      BY <2>6 DEF Current
    <2> HIDE DEF a
    <2>8. part'[a] = [part[a] EXCEPT !.synced = TRUE] /\ part' = [b \in Assets |-> part'[b]]
      BY <1>3, <2>1, <2>3
    <2> HIDE DEF body, chunks
    <2>9. part'[a] = File(r, body, Chunks, TRUE)
      <3>1. PICK file, new, f, s, t : /\ file = part[a] /\ new = part'[a]
                                      /\ f = body /\ s = FALSE /\ t = TRUE
        OBVIOUS
      <3>2. file = File(r, f, Chunks, s) /\ new = [file EXCEPT !.synced = t]
        BY <2>2, <2>4, <2>8, <3>1
      <3>3. new = File(r, f, Chunks, t)
        BY <3>2, FileIsSynced
      <3> QED
        BY <3>1, <3>3
    <2>10. Passed(r)'
      BY <1>3, <2>1, <2>5, <2>6 DEF Passed, Matches
    <2>11. Expected(Current(r))' = Expected(a)
      BY <1>1, <2>7 DEF Expected, Manifest
    <2>12. RunOK(r)'
      BY <1>3, <2>1, <2>2, <2>5, <2>6, <2>7, <2>9, <2>10, <2>11 DEF RunOK, Working, IdsOf
    <2>13. DirectoryOK'
      BY <1>1, <1>3, <2>8, SameDirectory
    <2>14. \E n : run' = [run EXCEPT ![r] = n]
      BY <1>3
    <2> QED
      BY <2>12, <2>13, <2>14, RunKeeps
  <1> QED
    BY <1>2, <1>3 DEF Verify, Runs

\* The rename gives the final name to a verified and synced file, and so passes
\* the asset.
LEMMA RenameKeeps ==
    ASSUME OneRunner, PlanningOK, ApplyOK, NEW r \in Runners, Rename(r)
    PROVE  ApplyOK'
  <1> DEFINE a == Current(r)
             body == run[r].body
  <1>1. run[r].pc = "rename" /\ plan' = plan
    BY DEF Rename, Runs, inventoryVars, Abort
  <1>2. CASE Abort(r)
    BY <1>1, <1>2, AbortKeeps DEF Abort, Runs
  <1>3. CASE /\ final' = [final EXCEPT ![a] = part[a]]
             /\ part' = [part EXCEPT ![a] = None]
             /\ run' = [run EXCEPT ![r].pc = "next", ![r].todo = Rest(r),
                                   ![r].downloaded = @ + 1]
    <2>1. /\ run = [s \in Runners |-> run[s]] /\ DOMAIN run[r] = RunFields
          /\ part = [b \in Assets |-> part[b]] /\ final = [b \in Assets |-> final[b]]
          /\ Passed(r) /\ ManifestMade
          /\ a \in run[r].todo /\ a \in Assets /\ run[r].todo \subseteq IdsOf(Manifest)
      BY <1>1, Downloading, Zenon
    <2>2. body \in Facts /\ body = Expected(a) /\ part[a] = File(r, body, Chunks, TRUE)
      BY <1>1 DEF ApplyOK, RunsOK, RunOK
    <2>3. /\ ManifestMade' /\ Manifest' = Manifest
          /\ \A f, b : Matches(f, b)' <=> Matches(f, b)
          /\ \A b : Expected(b)' = Expected(b)
      BY <1>1, <2>1, SameManifest
    <2>4. /\ DOMAIN run'[r] = RunFields /\ run'[r].pc = "next"
          /\ run'[r].todo = run[r].todo \ {a}
      BY <1>3, <2>1 DEF RunFields, Rest
    <2> HIDE DEF a
    <2>5. /\ final'[a] = part[a] /\ \A b \in Assets : b # a => final'[b] = final[b]
          /\ final' = [b \in Assets |-> final'[b]] /\ part' = [b \in Assets |-> part'[b]]
      BY <1>3, <2>1
    <2>6. part[a] # None
      <3>1. Chunks \in 0..Chunks
        BY ArchiveAssumption
      <3> QED
        BY <2>2, <3>1, FileIsMine
    <2> HIDE DEF body
    <2>7. part[a].synced /\ Matches(part[a], a)
      BY <2>2 DEF File, Matches
    <2>8. \A b \in Assets : Expected(b)' = Expected(b)
      BY <2>3
    <2>9. DirectoryOK'
      <3> SUFFICES ASSUME NEW b \in Assets, final'[b] # None
                   PROVE  /\ final'[b].synced
                          /\ final'[b].by \in Runners => Matches(final'[b], b)
        BY <2>3, <2>5 DEF DirectoryOK, Matches
      <3>1. CASE b = a
        BY <2>3, <2>5, <2>7, <3>1 DEF Matches
      <3>2. CASE b # a
        BY <2>3, <2>5, <3>2 DEF ApplyOK, DirectoryOK, Matches
      <3> QED
        BY <3>1, <3>2
    <2>10. \A x \in Manifest : x.id \in Assets
      BY <2>1 DEF PlanningOK, ManifestOK, ManifestMade, Manifest, Entry
    <2>11. Passed(r)'
      <3> SUFFICES ASSUME NEW x \in Manifest, x.id \notin run'[r].todo
                   PROVE  final'[x.id] # None /\ Matches(final'[x.id], x.id)
        BY <2>3 DEF Passed, Matches
      <3>1. CASE x.id = a
        BY <2>5, <2>6, <2>7, <3>1
      <3>2. CASE x.id # a
        BY <2>1, <2>4, <2>5, <2>10, <3>2 DEF Passed
      <3> QED
        BY <3>1, <3>2
    <2>12. RunOK(r)'
      BY <2>1, <2>3, <2>4, <2>11 DEF RunOK, Working, IdsOf
    <2>13. \E n : run' = [run EXCEPT ![r] = n]
      BY <1>3
    <2> QED
      BY <2>9, <2>12, <2>13, RunKeeps
  <1> QED
    BY <1>2, <1>3 DEF Rename, Runs

\* The report, and the death of the process, leave the directory as it is.
LEMMA EndKeeps ==
    ASSUME OneRunner, PlanningOK, ApplyOK, NEW r \in Runners, Report(r) \/ Crash(r)
    PROVE  ApplyOK'
  <1>1. /\ run = [s \in Runners |-> run[s]] /\ DOMAIN run[r] = RunFields
        /\ part = [b \in Assets |-> part[b]]
    BY DEF ApplyOK, RunsOK, RunOK, DirectoryOK
  <1>2. UNCHANGED <<plan, final, part>>
    BY DEF Report, Crash, Runs, inventoryVars
  <1>3. DOMAIN run'[r] = RunFields /\ run'[r].pc \in {"idle", "ok"}
    BY <1>1 DEF Report, Crash, Runs, NoRun, RunFields
  <1>4. RunOK(r)'
    BY <1>3, StoppedRun
  <1>5. DirectoryOK'
    BY <1>1, <1>2, SameDirectory
  <1>6. \E n : run' = [run EXCEPT ![r] = n]
    BY DEF Report, Crash, Runs
  <1> QED
    BY <1>4, <1>5, <1>6, RunKeeps

\* Power loss: what has a final name was synced first, so it is whole or gone.
LEMMA PowerLossKeeps ==
    ASSUME OneRunner, PlanningOK, ApplyOK, PowerLoss
    PROVE  ApplyOK'
  <1>1. run' = [r \in Runners |-> NoRun] /\ plan' = plan
    BY DEF PowerLoss
  <1>2. run' = [r \in Runners |-> run'[r]]
    BY <1>1
  <1>3. \A r \in Runners : DOMAIN run'[r] = RunFields /\ run'[r].pc = "idle"
    BY <1>1 DEF NoRun, RunFields
  <1>4. \A r \in Runners : RunOK(r)'
    BY <1>3, StoppedRun
  <1>5. PICK undone \in SUBSET {a \in Assets : final[a] # None /\ final[a].by \in Runners} :
          /\ final' = [a \in Assets |-> IF a \in undone THEN None ELSE Lost(final[a])]
          /\ part' = [a \in Assets |-> IF a \in undone THEN Lost(final[a]) ELSE Lost(part[a])]
    BY DEF PowerLoss
  <1>6. ASSUME NEW a \in Assets
        PROVE  final'[a] # None => final'[a] = final[a]
    <2>1. final[a] # None => Lost(final[a]) = final[a]
      BY DEF ApplyOK, DirectoryOK, Lost
    <2>2. final[a] = None => Lost(final[a]) = None
      BY DEF Lost
    <2> QED
      BY <1>5, <2>1, <2>2
  <1>7. ManifestMade' = ManifestMade /\ \A f, a : Matches(f, a)' <=> Matches(f, a)
    BY <1>1, SameManifest DEF ManifestMade
  <1>8. final' = [a \in Assets |-> final'[a]] /\ part' = [a \in Assets |-> part'[a]]
    BY <1>5
  <1>9. DirectoryOK'
    BY <1>6, <1>7, <1>8, SameManifest, <1>1 DEF ApplyOK, DirectoryOK, Matches
  <1> QED
    BY <1>2, <1>4, <1>9 DEF ApplyOK, RunsOK

\* Initially the directory holds at most a file of somebody else.
LEMMA ApplyInit ==
    ASSUME Init
    PROVE  ApplyOK
  <1>1. RunsOK
    BY DEF Init, NoRun, RunsOK, RunOK, RunFields, Working
  <1>2. \A a \in Assets : final[a] \in {None, File(Foreign, Foreign, Chunks, TRUE)}
    BY DEF Init
  <1>3. DirectoryOK
    <2>1. part = [a \in Assets |-> part[a]] /\ final = [a \in Assets |-> final[a]]
      BY DEF Init
    <2>2. \A a \in Assets : final[a] # None => final[a].synced /\ final[a].by = Foreign
      BY <1>2 DEF File
    <2> QED
      BY <2>1, <2>2, ArchiveAssumption DEF DirectoryOK
  <1> QED
    BY <1>1, <1>3 DEF ApplyOK

\* Every step keeps the invariant of the runs and the directory.
LEMMA ApplyNext ==
    ASSUME OneRunner, PlanningOK, ApplyOK, [Next]_vars
    PROVE  ApplyOK'
  <1>1. CASE UNCHANGED <<final, part, run>>
    BY <1>1, PlanningLeavesRuns
  <1>2. CASE PowerLoss
    BY <1>2, PowerLossKeeps
  <1>3. ASSUME NEW r \in Runners, Begin(r) \/ RunStep(r) \/ DownloadFails(r) \/ Crash(r)
        PROVE  ApplyOK'
    <2>1. CASE OpenFails(r)
      BY <2>1, AbortKeeps DEF OpenFails, Abort, Runs, inventoryVars
    <2>2. CASE DownloadFails(r)
      BY <2>2, AbortKeeps DEF DownloadFails
    <2> QED
      BY <1>3, <2>1, <2>2, BeginKeeps, NextAssetKeeps, OpenKeeps, ChunkKeeps, VerifyKeeps,
         RenameKeeps, EndKeeps DEF RunStep
  <1> QED
    BY <1>1, <1>2, <1>3, Zenon DEF Next, Planning, vars

\* For one process at a time the invariant of the runs and the directory
\* holds, whatever fails, crashes or is lost with the power.
THEOREM ApplyInvariance == OneRunner => (Spec => []ApplyOK)
  <1> SUFFICES ASSUME OneRunner PROVE Spec => []ApplyOK
    OBVIOUS
  <1>1. Init => ApplyOK
    BY ApplyInit
  <1>2. PlanningOK /\ ApplyOK /\ [Next]_vars => ApplyOK'
    BY ApplyNext
  <1> QED
    BY <1>1, <1>2, PlanningInvariance, PTL DEF Spec

\* A file that a run put under its final name has exactly the bytes of the
\* manifest (archive_apply.rs:58-66, 112-118): it was complete and synced
\* before the rename, and the manifest is the same in every rerun.
THEOREM FinalsAreComplete == OneRunner => (Spec => []FinalIsComplete)
  <1>1. ApplyOK => FinalIsComplete
    BY DEF ApplyOK, DirectoryOK, FinalIsComplete
  <1> QED
    BY <1>1, ApplyInvariance, PTL

\* When a run reports, every asset of the manifest is there and verified, also
\* those an earlier run or somebody else put there (archive_apply.rs:50-73).
THEOREM ReportsAreTrue == OneRunner => (Spec => ReportIsTrue)
  <1> DEFINE Reported == \A r \in Runners :
        (run[r].pc # "ok" /\ run'[r].pc = "ok")
            => \A x \in Manifest : final'[x.id] # None /\ Matches(final'[x.id], x.id)
  <1>1. ASSUME ApplyOK, [Next]_vars
        PROVE  [Reported]_vars
    <2> SUFFICES ASSUME NEW r \in Runners, run[r].pc # "ok", run'[r].pc = "ok"
                 PROVE  \A x \in Manifest : final'[x.id] # None /\ Matches(final'[x.id], x.id)
      OBVIOUS
    <2>1. \A s \in Runners : DOMAIN run[s] = RunFields
      BY <1>1 DEF ApplyOK, RunsOK, RunOK
    <2>2. run = [s \in Runners |-> run[s]]
      BY <1>1 DEF ApplyOK, RunsOK
    <2>3. ~UNCHANGED run
      OBVIOUS
    <2>4. ~PowerLoss
      BY DEF PowerLoss, NoRun
    <2>5. PICK s \in Runners : Begin(s) \/ RunStep(s) \/ DownloadFails(s) \/ Crash(s)
      BY <1>1, <2>3, <2>4, Zenon DEF Next, Planning, vars
    <2>6. s = r
      <3>1. \E n : run' = [run EXCEPT ![s] = n]
        BY <2>2, <2>5 DEF Begin, RunStep, DownloadFails, Crash, NextAsset, OpenFails, Open, Chunk,
                     Verify, Rename, Report, Abort, Runs
      <3> QED
        BY <2>2, <3>1
    <2>7. Report(r)
      <3>1. DOMAIN run[r] = RunFields
        BY <2>1
      <3>2. ~Begin(r) /\ ~Crash(r)
        <4>1. Begin(r) => run'[r].pc = "next"
          <5> DEFINE ids == {x.id : x \in Manifest}
          <5> HIDE DEF ids
          <5>1. Begin(r) => run' = [run EXCEPT ![r] = [NoRun EXCEPT !.pc = "next", !.todo = ids]]
            BY DEF Begin, Runs, ids
          <5> QED
            BY <2>2, <5>1 DEF NoRun
        <4>2. Crash(r) => run'[r].pc = "idle"
          BY <2>2 DEF Crash, NoRun
        <4> QED
          BY <4>1, <4>2
      <3>3. ~Abort(r) /\ ~DownloadFails(r)
        BY <2>2, <3>1 DEF Abort, DownloadFails, Runs, RunFields
      <3>4. ~NextAsset(r)
        BY <2>2, <3>1 DEF NextAsset, Runs, RunFields
      <3>5. ~OpenFails(r) /\ ~Open(r) /\ ~Chunk(r)
        BY <2>2, <3>1, <3>3 DEF OpenFails, Open, Chunk, Runs, RunFields
      <3>6. ~Verify(r) /\ ~Rename(r)
        BY <2>2, <3>1, <3>3 DEF Verify, Rename, Runs, RunFields
      <3> QED
        BY <2>5, <2>6, <3>2, <3>3, <3>4, <3>5, <3>6 DEF RunStep
    <2>8. run[r].pc = "next" /\ run[r].todo = {} /\ final' = final
      BY <2>7 DEF Report
    <2>9. Passed(r)
      BY <1>1, <2>8 DEF ApplyOK, RunsOK, RunOK, Working
    <2> QED
      BY <2>8, <2>9 DEF Passed
  <1> HIDE DEF Reported
  <1>2. ApplyOK /\ [Next]_vars => [Reported]_vars
    BY <1>1
  <1>3. OneRunner => (Spec => [][Reported]_vars)
    BY <1>2, ApplyInvariance, PTL DEF Spec
  <1> QED
    BY <1>3 DEF ReportIsTrue, Reported

-----------------------------------------------------------------------------
(* A library that holds still, as a value: sv is what the server holds, mb *)
(* the members of the albums.                                              *)

Visibilities == {"timeline", "archive", "hidden"}
World(sv, mb) == /\ \A a \in Assets : sv[a] \in Versions[a]
                 /\ mb \in [Albums -> SUBSET Assets]

SelectedIn(sv, v) == {a \in Assets : sv[a] # None /\ sv[a].vis = v}
LinksIn(sv, as) == {sv[a].live : a \in as} \ {None}
ClosedIn(sv, v) == SelectedIn(sv, v) \cup LinksIn(sv, SelectedIn(sv, v))
WantedIn(sv, vs) == UNION {ClosedIn(sv, v) : v \in vs}
FactIn(sv, a) == [id |-> a, facts |-> sv[a].facts]
MigrationFactIn(sv, a) == [id |-> a, facts |-> sv[a].facts, meta |-> sv[a].meta,
                           live |-> sv[a].live]
Inside(sv, mb, b) == mb[b] \cap SelectedIn(sv, "timeline")
AlbumsIn(sv, mb, bs) ==
    {[id |-> b, members |-> Inside(sv, mb, b)] : b \in {c \in bs : Inside(sv, mb, c) # {}}}

ReferenceIn(sv, mb, mode, vs) ==
    IF mode = "archive"
    THEN [mode |-> "archive", assets |-> {FactIn(sv, a) : a \in WantedIn(sv, vs)}]
    ELSE MigrationPlan({MigrationFactIn(sv, a) : a \in WantedIn(sv, vs)},
                       AlbumsIn(sv, mb, Albums))

\* An inventory of the visibilities vs lists that many assets.
Weight(sv, vs) == Cardinality({p \in vs \X Assets : p[2] \in ClosedIn(sv, p[1])})

RefusableIn(sv, mb, mode, vs, p) ==
    \/ \E a \in WantedIn(sv, vs) : sv[a] = None
    \/ Weight(sv, vs) >= MaxAssets
    \/ /\ mode # "archive"
       /\ \/ ~RolesValid({MigrationFactIn(sv, a) : a \in WantedIn(sv, vs)})
          \/ \E b, c \in Albums : b # c /\ AlbumName[b] = AlbumName[c]
          \/ Cardinality(Albums) > MaxAlbums
          \/ Memberships({[id |-> b, members |-> mb[b]] : b \in Albums}) > MaxMemberships
          \/ mode = "verify" /\ p # ReferenceIn(sv, mb, mode, vs)

-----------------------------------------------------------------------------
(* The inventory i of a library that holds still, beside the plan p *)

\* Entries say what the server holds; no asset comes twice.
Exact(sv, entries) ==
    \A x \in ToSet(entries) : /\ x.id \in Assets /\ sv[x.id] # None
                              /\ x = FactIn(sv, x.id)
Distinct(entries) == \A j, k \in DOMAIN entries : entries[j].id = entries[k].id => j = k

\* Visibilities are listed one after the other.
VisOK(i) ==
    /\ i.vis \in Seq(Visibilities) /\ i.vis # <<>> /\ IsInjective(i.vis)
    /\ ToSet(i.vis) \subseteq ToSet(i.selection)
    /\ ToSet(i.selection) \subseteq Visibilities
    /\ i.mode # "archive" => i.selection = <<"timeline">> /\ i.vis = <<"timeline">>

Done(i) == ToSet(i.selection) \ ToSet(i.vis)

CollectedOK(sv, i) ==
    /\ Ids(i.collected) = WantedIn(sv, Done(i))
    /\ Exact(sv, i.collected)
    /\ Len(i.collected) <= Weight(sv, Done(i))

\* Pages of a result: the first n of all were shown.
Shown(all, n) == {all[k] : k \in 1..n}
Entries(sv, items) == [k \in DOMAIN items |-> FactIn(sv, items[k])]
FirstEntries(sv, all, n) == [k \in 1..n |-> FactIn(sv, all[k])]
PageOK(sv, i) ==
    \E n \in Nat :
      LET all == Ranked(SelectedIn(sv, Head(i.vis))) IN
      /\ n = (i.page - 1) * PageSize /\ n <= Len(all)
      /\ i.listed = FirstEntries(sv, all, n)
      /\ i.related = LinksIn(sv, Shown(all, n))

RelatedOK(sv, i) ==
    LET v == Head(i.vis) IN
    /\ SelectedIn(sv, v) \subseteq Ids(i.listed) /\ Ids(i.listed) \subseteq ClosedIn(sv, v)
    /\ i.related = LinksIn(sv, SelectedIn(sv, v))
    /\ Exact(sv, i.listed) /\ Distinct(i.listed)
    /\ i.page = 1

\* A migration: what was listed, and how much of it was looked up again.
MigrationOK(sv, i) ==
    /\ i.mode # "archive" /\ i.selection = <<"timeline">>
    /\ Ids(i.listed) = ClosedIn(sv, "timeline")
    /\ Exact(sv, i.listed) /\ Distinct(i.listed)

LookedUp(sv, entries, n) == [k \in 1..n |-> MigrationFactIn(sv, entries[k].id)]
RecheckOK(sv, i) ==
    /\ i.at \in 1..(Len(i.listed) + 1)
    /\ i.assets = LookedUp(sv, i.listed, i.at - 1)
    /\ i.albums = {}

\* The albums that are not in the queue are read; of the first one in it some
\* pages may be.
AlbumPageOK(sv, mb, i, b) ==
    \E n \in Nat :
      LET all == Ranked(SelectedIn(sv, "timeline") \cap mb[b]) IN
      /\ n = (i.page - 1) * PageSize /\ n <= Len(all)
      /\ i.related = Shown(all, n)

AlbumsOK(sv, mb, i) ==
    /\ i.assets = LookedUp(sv, i.listed, Len(i.listed))
    /\ i.queue \in Seq(Albums) /\ IsInjective(i.queue)
    /\ i.albums = AlbumsIn(sv, mb, Albums \ ToSet(i.queue))
    /\ i.queue # <<>> => AlbumPageOK(sv, mb, i, Head(i.queue))
    /\ i.at \in Nat \ {0}

QuietAt(sv, mb, i, p) ==
    /\ i.pc \in {"page", "related"} => VisOK(i) /\ CollectedOK(sv, i)
    /\ i.pc = "page" => PageOK(sv, i)
    /\ i.pc = "related" => RelatedOK(sv, i)
    /\ i.pc \in {"page", "related"} => i.assets = <<>> /\ i.albums = {}
    /\ i.pc \in {"recheck", "albums"} => MigrationOK(sv, i)
    /\ i.pc = "recheck" => RecheckOK(sv, i)
    /\ i.pc = "albums" => AlbumsOK(sv, mb, i)
    /\ i.pc = "planned" => p = ReferenceIn(sv, mb, i.mode, ToSet(i.selection))
    /\ i.pc = "failed" => RefusableIn(sv, mb, i.mode, ToSet(i.selection), p)

MembersOK == members \in [Albums -> SUBSET Assets]
QuietOK == touched = {} => QuietAt(server, members, inv, plan)

-----------------------------------------------------------------------------
(* Sequences, pages and counts *)

\* What is left of a sequence without repetitions after its head.
LEMMA TailFacts ==
    ASSUME NEW S, NEW s \in Seq(S), s # <<>>, IsInjective(s)
    PROVE  /\ Head(s) \in S /\ Head(s) \in ToSet(s)
           /\ Tail(s) \in Seq(S) /\ Len(Tail(s)) = Len(s) - 1 /\ Len(s) \in Nat \ {0}
           /\ IsInjective(Tail(s)) /\ ToSet(Tail(s)) = ToSet(s) \ {Head(s)}
  <1> DEFINE t == Tail(s)
             n == Len(s)
  <1>1. /\ Head(s) \in S /\ t \in Seq(S) /\ Len(t) = n - 1
        /\ \A i \in 1..Len(t) : t[i] = s[i + 1]
    BY HeadTailProperties
  <1>2. n \in Nat \ {0} /\ DOMAIN s = 1..n /\ DOMAIN t = 1..(n - 1)
    BY <1>1, LenProperties, EmptySeq
  <1>3. Head(s) = s[1]
    OBVIOUS
  <1> HIDE DEF n, t
  <1>4. \A i \in 1..(n - 1) : t[i] = s[i + 1] /\ i + 1 \in 1..n /\ i + 1 # 1
    BY <1>1, <1>2
  <1>5. \A j, k \in 1..n : s[j] = s[k] => j = k
    BY <1>2 DEF IsInjective
  <1>6. 1 \in 1..n /\ \A k \in 1..n : k # 1 => k - 1 \in 1..(n - 1) /\ (k - 1) + 1 = k
    BY <1>2
  <1>7. IsInjective(t)
    <2> SUFFICES ASSUME NEW j \in 1..(n - 1), NEW k \in 1..(n - 1), t[j] = t[k]
                 PROVE  j = k
      BY <1>2 DEF IsInjective
    <2>1. j + 1 = k + 1
      BY <1>4, <1>5
    <2> QED
      BY <1>2, <2>1
  <1>8. ToSet(t) = ToSet(s) \ {Head(s)}
    <2>1. ASSUME NEW x \in ToSet(t) PROVE x \in ToSet(s) \ {Head(s)}
      <3>1. PICK i \in 1..(n - 1) : x = t[i]
        BY <1>2, <2>1 DEF ToSet
      <3>2. x = s[i + 1] /\ i + 1 \in 1..n /\ i + 1 # 1
        BY <1>4, <3>1
      <3>3. x # s[1]
        BY <1>5, <1>6, <3>2
      <3> QED
        BY <1>2, <1>3, <3>2, <3>3 DEF ToSet
    <2>2. ASSUME NEW x \in ToSet(s), x # Head(s) PROVE x \in ToSet(t)
      <3>1. PICK k \in 1..n : x = s[k]
        BY <1>2, <2>2 DEF ToSet
      <3>2. k - 1 \in 1..(n - 1) /\ (k - 1) + 1 = k
        BY <1>3, <1>6, <2>2, <3>1
      <3>3. t[k - 1] = x
        BY <1>4, <3>1, <3>2
      <3> QED
        BY <1>2, <3>2, <3>3 DEF ToSet
    <2> QED
      BY <2>1, <2>2
  <1>9. Head(s) \in ToSet(s)
    BY <1>2, <1>3, <1>6 DEF ToSet
  <1> QED
    BY <1>1, <1>2, <1>7, <1>8, <1>9 DEF n, t

\* A sequence over a subset.
LEMMA SeqOfSubset ==
    ASSUME NEW S, NEW T, S \subseteq T, NEW s \in Seq(S)
    PROVE  s \in Seq(T)
  <1>1. Len(s) \in Nat /\ s \in [1..Len(s) -> S]
    BY LenProperties
  <1>2. s \in [1..Len(s) -> T]
    BY <1>1
  <1> QED
    BY <1>1, <1>2, FunctionIsSeq, Zenon

\* Functions that agree everywhere.
LEMMA SameFunction ==
    ASSUME NEW S, NEW T, NEW f \in [T -> S], NEW g \in [T -> S], \A k \in T : f[k] = g[k]
    PROVE  f = g
  OBVIOUS

\* SetToSeq lists each element once.
LEMMA SetToSeqFacts ==
    ASSUME NEW S, IsFiniteSet(S)
    PROVE  SetToSeq(S) \in Seq(S) /\ IsInjective(SetToSeq(S)) /\ ToSet(SetToSeq(S)) = S
  <1> DEFINE n == Cardinality(S)
             s == SetToSeq(S)
  <1>1. n \in Nat /\ ExistsBijection(1..n, S)
    BY FS_CardinalityType
  <1> HIDE DEF n
  <1>2. PICK f \in Bijection(1..n, S) : TRUE
    BY <1>1 DEF ExistsBijection
  <1>3. f \in [1..n -> S] /\ IsInjective(f)
    BY <1>2 DEF Bijection, Injection, IsInjective
  <1>4. s \in [1..n -> S] /\ IsInjective(s)
    <2>1. s = CHOOSE g \in [1..n -> S] : IsInjective(g)
      BY DEF SetToSeq, n
    <2> HIDE DEF s
    <2> QED
      BY <1>3, <2>1, Zenon
  <1> HIDE DEF s
  <1>5. s \in Injection(1..n, S)
    BY <1>4 DEF Injection, IsInjective
  <1>6. Cardinality(1..n) = n
    <2>1. Cardinality(1..n) = (IF 1 > n THEN 0 ELSE n - 1 + 1)
      BY <1>1, FS_Interval
    <2> QED
      BY <1>1, <2>1
  <1>7. s \in Surjection(1..n, S)
    BY <1>5, <1>6, FS_Injection DEF n
  <1>8. \A x \in S : \E k \in 1..n : s[k] = x
    BY <1>7 DEF Surjection
  <1>9. ToSet(s) = S
    BY <1>4, <1>8 DEF ToSet
  <1>10. s \in Seq(S)
    BY <1>1, <1>4, FunctionIsSeq, Zenon
  <1> QED
    BY <1>4, <1>9, <1>10 DEF s

\* A listing without repetitions has as many entries as identifiers.
LEMMA CountEntries ==
    ASSUME NEW S, NEW s \in Seq(S), Distinct(s)
    PROVE  IsFiniteSet(Ids(s)) /\ Cardinality(Ids(s)) = Len(s) /\ Len(s) \in Nat
  <1> DEFINE n == Len(s)
             f == [k \in 1..n |-> s[k].id]
  <1>1. n \in Nat /\ DOMAIN s = 1..n
    BY LenProperties
  <1> HIDE DEF n
  <1>2. IsFiniteSet(1..n) /\ Cardinality(1..n) = n
    <2>1. IsFiniteSet(1..n) /\ Cardinality(1..n) = (IF 1 > n THEN 0 ELSE n - 1 + 1)
      BY <1>1, FS_Interval
    <2> QED
      BY <1>1, <2>1
  <1>3. f \in [1..n -> Ids(s)] /\ \A x \in Ids(s) : \E k \in 1..n : f[k] = x
    BY <1>1 DEF Ids
  <1>4. \A j, k \in 1..n : f[j] = f[k] => j = k
    BY <1>1 DEF Distinct
  <1> HIDE DEF f
  <1>5. f \in Surjection(1..n, Ids(s)) /\ f \in Injection(1..n, Ids(s))
    BY <1>3, <1>4 DEF Surjection, Injection, IsInjective
  <1> QED
    BY <1>1, <1>2, <1>5, FS_Surjection DEF n

\* The least of two numbers.
LEMMA MinOfTwo ==
    ASSUME NEW x \in Nat, NEW y \in Nat
    PROVE  Min({x, y}) = IF y > x THEN x ELSE y
  <1>1. Min({x, y}) \in {x, y}
    BY MinFacts
  <1>2. \E z \in {x, y} : \A w \in {x, y} : z <= w
    OBVIOUS
  <1>3. \A w \in {x, y} : Min({x, y}) <= w
    BY <1>2 DEF Min
  <1> DEFINE m == Min({x, y})
  <1> HIDE DEF m
  <1>4. m \in {x, y} /\ m <= x /\ m <= y
    BY <1>1, <1>3 DEF m
  <1>5. m = IF y > x THEN x ELSE y
    BY <1>4
  <1> QED
    BY <1>5 DEF m

\* The items are those of all from n + 1 to m.
Continues(all, items, n, m) ==
    Len(items) = m - n /\ \A k \in 1..(m - n) : items[k] = all[n + k]

\* After page p the first m of all were shown.
UpTo(S, all, p, n, m) ==
    /\ n <= m /\ m <= Len(all)
    /\ HasNext(all, p) => m = ((p + 1) - 1) * PageSize
    /\ ~HasNext(all, p) => m = Len(all)
    /\ PageOf(all, p) \in Seq(S) /\ Continues(all, PageOf(all, p), n, m)

\* A page continues the pages before it, and the last one ends the result.
LEMMA PageGoesOn ==
    ASSUME NEW S, NEW all \in Seq(S), NEW p \in Nat \ {0}, NEW n \in Nat,
           n = (p - 1) * PageSize, n <= Len(all)
    PROVE  \E m \in Nat : UpTo(S, all, p, n, m)
  <1> DEFINE q == p * PageSize
             len == Len(all)
             m == IF len > q THEN q ELSE len
             items == PageOf(all, p)
  <1>1. /\ q \in Nat /\ q = n + PageSize /\ q = ((p + 1) - 1) * PageSize
        /\ PageSize \in Nat \ {0}
    BY InventoryAssumption
  <1>2. len \in Nat
    OBVIOUS
  <1> HIDE DEF q, len
  <1>3. m \in Nat /\ n <= m /\ m <= len /\ n + 1 \in Int /\ m \in Int
    BY <1>1, <1>2 DEF len
  <1>4. HasNext(all, p) <=> len > q
    BY DEF HasNext, len, q
  <1>5. items = SubSeq(all, n + 1, m)
    BY <1>1, <1>2, MinOfTwo DEF PageOf, q, len
  <1>6. \A i \in (n + 1)..m : all[i] \in S
    BY <1>2, <1>3 DEF len
  <1> HIDE DEF m
  <1>7. /\ SubSeq(all, n + 1, m) \in Seq(S)
        /\ Len(SubSeq(all, n + 1, m)) = (IF n + 1 <= m THEN m - (n + 1) + 1 ELSE 0)
        /\ \A i \in 1..(m - (n + 1) + 1) : SubSeq(all, n + 1, m)[i] = all[(n + 1) + i - 1]
    BY <1>3, <1>6, SubSeqProperties
  <1> HIDE DEF items
  <1>8. Len(items) = m - n
    BY <1>3, <1>5, <1>7
  <1>9. \A k \in 1..(m - n) : items[k] = all[n + k]
    <2> SUFFICES ASSUME NEW k \in 1..(m - n) PROVE items[k] = all[n + k]
      OBVIOUS
    <2>1. k \in 1..(m - (n + 1) + 1) /\ (n + 1) + k - 1 = n + k
      BY <1>3
    <2> QED
      BY <1>5, <1>7, <2>1
  <1>10. items \in Seq(S)
    BY <1>5, <1>7
  <1>11. (len > q => m = q) /\ (~(len > q) => m = len)
    BY DEF m
  <1> QED
    BY <1>1, <1>3, <1>4, <1>8, <1>9, <1>10, <1>11 DEF UpTo, Continues, items, len

\* What a search and its links name are assets.
LEMMA WorldFacts ==
    ASSUME NEW sv, NEW mb, World(sv, mb), NEW v
    PROVE  /\ SelectedIn(sv, v) \in SUBSET Assets /\ ClosedIn(sv, v) \in SUBSET Assets
           /\ IsFiniteSet(SelectedIn(sv, v)) /\ IsFiniteSet(ClosedIn(sv, v))
           /\ Cardinality(SelectedIn(sv, v)) \in Nat /\ Cardinality(ClosedIn(sv, v)) \in Nat
           /\ Cardinality(SelectedIn(sv, v)) <= Cardinality(ClosedIn(sv, v))
  <1>1. SelectedIn(sv, v) \in SUBSET Assets /\ \A a \in SelectedIn(sv, v) : sv[a] # None
    BY DEF SelectedIn
  <1>2. \A a \in SelectedIn(sv, v) : sv[a].live \in Assets \cup {None}
    <2> SUFFICES ASSUME NEW a \in SelectedIn(sv, v) PROVE sv[a].live \in Assets \cup {None}
      OBVIOUS
    <2>1. a \in Assets /\ sv[a] \in Versions[a] \ {None}
      BY <1>1 DEF World
    <2> QED
      BY <2>1, LibraryAssumption, Zenon
  <1>3. ClosedIn(sv, v) \in SUBSET Assets
    BY <1>1, <1>2 DEF ClosedIn, LinksIn
  <1>4. SelectedIn(sv, v) \in SUBSET ClosedIn(sv, v)
    BY DEF ClosedIn
  <1>5. IsFiniteSet(SelectedIn(sv, v)) /\ IsFiniteSet(ClosedIn(sv, v))
    BY <1>1, <1>3, InventoryAssumption, FS_Subset
  <1> QED
    BY <1>1, <1>3, <1>4, <1>5, FS_Subset, FS_CardinalityType

\* There are three visibilities.
LEMMA FewVisibilities == IsFiniteSet(Visibilities)
  <1>1. IsFiniteSet({"timeline"})
    BY FS_Singleton
  <1>2. IsFiniteSet({"timeline"} \cup {"archive"})
    BY <1>1, FS_AddElement
  <1>3. IsFiniteSet(({"timeline"} \cup {"archive"}) \cup {"hidden"})
    BY <1>2, FS_AddElement
  <1>4. Visibilities = ({"timeline"} \cup {"archive"}) \cup {"hidden"}
    BY DEF Visibilities
  <1> QED
    BY <1>3, <1>4

\* Each visibility adds what it lists.
LEMMA WeightAdds ==
    ASSUME NEW sv, NEW mb, World(sv, mb), NEW vs \in SUBSET Visibilities,
           NEW v \in Visibilities \ vs
    PROVE  /\ Weight(sv, vs) \in Nat
           /\ Weight(sv, vs \cup {v}) = Weight(sv, vs) + Cardinality(ClosedIn(sv, v))
  <1> DEFINE P(ws) == {p \in ws \X Assets : p[2] \in ClosedIn(sv, p[1])}
             A == P(vs)
             B == P({v})
             C == ClosedIn(sv, v)
             f == [a \in C |-> <<v, a>>]
  <1>1. C \in SUBSET Assets /\ IsFiniteSet(C)
    BY WorldFacts
  <1>2. IsFiniteSet(Visibilities)
    BY FewVisibilities
  <1>3. ASSUME NEW ws \in SUBSET Visibilities PROVE IsFiniteSet(P(ws))
    <2>1. IsFiniteSet(ws) /\ IsFiniteSet(Assets)
      BY <1>2, FS_Subset, InventoryAssumption
    <2>2. IsFiniteSet(ws \X Assets)
      BY <2>1, FS_Product
    <2>3. P(ws) \in SUBSET (ws \X Assets)
      OBVIOUS
    <2> QED
      BY <2>2, <2>3, FS_Subset
  <1>4. P(vs \cup {v}) = A \cup B /\ A \cap B = {}
    OBVIOUS
  <1>5. f \in [C -> B] /\ \A b \in B : \E a \in C : f[a] = b
    <2>1. \A a \in C : <<v, a>> \in B
      BY <1>1
    <2>2. ASSUME NEW b \in B PROVE \E a \in C : f[a] = b
      <3>1. b = <<v, b[2]>> /\ b[2] \in C
        OBVIOUS
      <3> QED
        BY <3>1
    <2> QED
      BY <2>1, <2>2
  <1>6. \A a, b \in C : f[a] = f[b] => a = b
    OBVIOUS
  <1>7. IsFiniteSet(A) /\ IsFiniteSet(B)
    BY <1>3
  <1>8. Weight(sv, vs) = Cardinality(A) /\ Weight(sv, vs \cup {v}) = Cardinality(P(vs \cup {v}))
    BY DEF Weight
  <1> HIDE DEF A, B, C, P, f
  <1>9. f \in Surjection(C, B) /\ f \in Injection(C, B)
    BY <1>5, <1>6 DEF Surjection, Injection, IsInjective
  <1>10. Cardinality(B) = Cardinality(C)
    BY <1>1, <1>9, FS_Surjection
  <1>11. Cardinality(A \cup B) = Cardinality(A) + Cardinality(B)
    <2>1. Cardinality(A \cup B) = Cardinality(A) + Cardinality(B) - Cardinality(A \cap B)
      BY <1>7, FS_Union
    <2>2. Cardinality(A \cap B) = 0
      BY <1>4, FS_EmptySet
    <2>3. Cardinality(A) \in Nat /\ Cardinality(B) \in Nat
      BY <1>7, FS_CardinalityType
    <2> QED
      BY <2>1, <2>2, <2>3
  <1>12. Cardinality(A) \in Nat
    BY <1>7, FS_CardinalityType
  <1> QED
    BY <1>4, <1>8, <1>10, <1>11, <1>12 DEF C

\* More visibilities list no less.
LEMMA WeightGrows ==
    ASSUME NEW sv, NEW mb, World(sv, mb), NEW vs \in SUBSET Visibilities,
           NEW ws \in SUBSET vs
    PROVE  Weight(sv, ws) <= Weight(sv, vs) /\ Weight(sv, vs) \in Nat /\ Weight(sv, ws) \in Nat
  <1> DEFINE P(us) == {p \in us \X Assets : p[2] \in ClosedIn(sv, p[1])}
  <1>1. IsFiniteSet(Visibilities)
    BY FewVisibilities
  <1>2. IsFiniteSet(vs) /\ IsFiniteSet(Assets)
    BY <1>1, FS_Subset, InventoryAssumption
  <1>3. IsFiniteSet(vs \X Assets)
    BY <1>2, FS_Product
  <1>4. P(vs) \in SUBSET (vs \X Assets) /\ P(ws) \in SUBSET P(vs)
    OBVIOUS
  <1>5. Weight(sv, vs) = Cardinality(P(vs)) /\ Weight(sv, ws) = Cardinality(P(ws))
    BY DEF Weight
  <1> HIDE DEF P
  <1>6. IsFiniteSet(P(vs)) /\ IsFiniteSet(P(ws)) /\ Cardinality(P(ws)) <= Cardinality(P(vs))
    BY <1>3, <1>4, FS_Subset
  <1> QED
    BY <1>5, <1>6, FS_CardinalityType

\* The members of an album are no more than those of all.
LEMMA MembershipsGrow ==
    ASSUME NEW S, NEW T,
           \A x \in S : x.id \in Albums =>
                \E y \in T : x.id = y.id /\ x.members \subseteq y.members
    PROVE  Memberships(S) <= Memberships(T) /\ Memberships(S) \in Nat /\ Memberships(T) \in Nat
  <1> DEFINE P(xs) == {p \in Albums \X Assets : \E x \in xs : p[1] = x.id /\ p[2] \in x.members}
  <1>1. IsFiniteSet(Albums \X Assets)
    BY InventoryAssumption, LibraryAssumption, FS_Product
  <1>2. P(T) \in SUBSET (Albums \X Assets)
    OBVIOUS
  <1>3. P(S) \in SUBSET P(T)
    <2> SUFFICES ASSUME NEW p \in P(S) PROVE p \in P(T)
      OBVIOUS
    <2>1. PICK x \in S : p[1] = x.id /\ p[2] \in x.members
      OBVIOUS
    <2>2. p \in Albums \X Assets /\ p[1] \in Albums
      OBVIOUS
    <2> QED
      BY <2>1, <2>2
  <1>4. Memberships(S) = Cardinality(P(S)) /\ Memberships(T) = Cardinality(P(T))
    BY DEF Memberships
  <1> HIDE DEF P
  <1>5. IsFiniteSet(P(T)) /\ IsFiniteSet(P(S)) /\ Cardinality(P(S)) <= Cardinality(P(T))
    BY <1>1, <1>2, <1>3, FS_Subset
  <1> QED
    BY <1>4, <1>5, FS_CardinalityType

\* One album alone has no more than the limit unless all have.
LEMMA OneAlbum ==
    ASSUME NEW mb \in [Albums -> SUBSET Assets], NEW b \in Albums
    PROVE  /\ Cardinality(mb[b]) <= Memberships({[id |-> c, members |-> mb[c]] : c \in Albums})
           /\ Cardinality(mb[b]) \in Nat
           /\ Memberships({[id |-> c, members |-> mb[c]] : c \in Albums}) \in Nat
  <1> DEFINE T == {[id |-> c, members |-> mb[c]] : c \in Albums}
             P == {p \in Albums \X Assets : \E x \in T : p[1] = x.id /\ p[2] \in x.members}
             M == mb[b]
             f == [a \in M |-> <<b, a>>]
  <1>1. IsFiniteSet(Albums \X Assets)
    BY InventoryAssumption, LibraryAssumption, FS_Product
  <1>2. P \in SUBSET (Albums \X Assets)
    OBVIOUS
  <1>3. M \in SUBSET Assets
    OBVIOUS
  <1>4. \A a \in M : <<b, a>> \in P
    <2> SUFFICES ASSUME NEW a \in M PROVE <<b, a>> \in P
      OBVIOUS
    <2>1. [id |-> b, members |-> mb[b]] \in T
      OBVIOUS
    <2>2. <<b, a>> \in Albums \X Assets
      BY <1>3
    <2> QED
      BY <2>1, <2>2
  <1>5. Memberships(T) = Cardinality(P)
    BY DEF Memberships
  <1> HIDE DEF P, T, M
  <1>6. f \in [M -> P] /\ \A x, y \in M : f[x] = f[y] => x = y
    BY <1>4
  <1> HIDE DEF f
  <1>7. f \in Injection(M, P)
    BY <1>6 DEF Injection, IsInjective
  <1>8. IsFiniteSet(P)
    BY <1>1, <1>2, FS_Subset
  <1> QED
    BY <1>5, <1>7, <1>8, FS_Injection, FS_CardinalityType DEF M, T

-----------------------------------------------------------------------------
(* The steps of an inventory of a library that holds still *)

\* The types of the inventory.
Typed(i) == /\ DOMAIN i = InvFields /\ i.page \in Nat \ {0}
            /\ i.listed \in Seq(Entry) /\ i.collected \in Seq(Entry)

\* What is collected and what the visibility at hand lists is within the
\* weight of the selection.
LEMMA Room ==
    ASSUME NEW sv, NEW mb, World(sv, mb), NEW i, Typed(i), VisOK(i), CollectedOK(sv, i)
    PROVE  /\ Len(i.collected) + Cardinality(ClosedIn(sv, Head(i.vis)))
                <= Weight(sv, ToSet(i.selection))
           /\ Len(i.collected) \in Nat /\ Weight(sv, ToSet(i.selection)) \in Nat
           /\ Head(i.vis) \in ToSet(i.selection)
           /\ Head(i.vis) \notin Done(i)
           /\ Len(i.vis) \in Nat \ {0}
           /\ Len(i.collected) + Cardinality(ClosedIn(sv, Head(i.vis)))
                <= Weight(sv, Done(i) \cup {Head(i.vis)})
  <1> DEFINE v == Head(i.vis)
             sel == ToSet(i.selection)
             done == Done(i)
  <1>1. v \in Visibilities /\ v \in ToSet(i.vis) /\ Len(i.vis) \in Nat \ {0}
    BY TailFacts DEF VisOK
  <1>2. sel \in SUBSET Visibilities /\ v \in sel /\ done \in SUBSET sel /\ v \notin done
    BY <1>1 DEF VisOK, Done
  <1>3. Len(i.collected) \in Nat /\ Len(i.collected) <= Weight(sv, done)
    BY DEF Typed, CollectedOK
  <1> HIDE DEF v, sel, done
  <1>4. Weight(sv, done) \in Nat
        /\ Weight(sv, done \cup {v}) = Weight(sv, done) + Cardinality(ClosedIn(sv, v))
    BY <1>1, <1>2, WeightAdds
  <1>5. Weight(sv, done \cup {v}) <= Weight(sv, sel) /\ Weight(sv, sel) \in Nat
        /\ Weight(sv, done \cup {v}) \in Nat
    BY <1>2, WeightGrows
  <1>6. Cardinality(ClosedIn(sv, v)) \in Nat
    BY WorldFacts
  <1>7. Len(i.collected) + Cardinality(ClosedIn(sv, v)) <= Weight(sv, done \cup {v})
    BY <1>3, <1>4, <1>5, <1>6
  <1>8. Len(i.collected) + Cardinality(ClosedIn(sv, v)) <= Weight(sv, sel)
    BY <1>3, <1>5, <1>6, <1>7
  <1> QED
    BY <1>1, <1>2, <1>3, <1>5, <1>7, <1>8 DEF v, sel, done

\* A refusal for a reason.
LEMMA QuietFails ==
    ASSUME NEW sv, NEW mb, NEW i, NEW j, NEW p, j.pc = "failed", j.mode = i.mode,
           j.selection = i.selection, RefusableIn(sv, mb, i.mode, ToSet(i.selection), p)
    PROVE  QuietAt(sv, mb, j, p)
  BY DEF QuietAt

\* A page that is over the limit is refused for a reason.
LEMMA PageRefused ==
    ASSUME NEW sv, NEW mb, World(sv, mb), NEW i, Typed(i), VisOK(i), CollectedOK(sv, i),
           PageOK(sv, i), NEW all, all = Ranked(SelectedIn(sv, Head(i.vis))),
           \/ Len(all) > MaxAssets - Len(i.collected)
           \/ Len(i.listed) + Len(PageOf(all, i.page)) > MaxAssets - Len(i.collected)
    PROVE  Weight(sv, ToSet(i.selection)) >= MaxAssets
  <1> DEFINE v == Head(i.vis)
             c == Len(i.collected)
             w == Weight(sv, ToSet(i.selection))
             x == Cardinality(ClosedIn(sv, v))
             len == Len(all)
  <1>1. c + x <= w /\ c \in Nat /\ w \in Nat
    BY Room
  <1>2. x \in Nat /\ SelectedIn(sv, v) \in SUBSET Assets /\ Cardinality(SelectedIn(sv, v)) <= x
    BY WorldFacts
  <1>3. all \in Seq(SelectedIn(sv, v)) /\ len = Cardinality(SelectedIn(sv, v)) /\ len \in Nat
    BY <1>2, RankedFacts
  <1>4. PICK n \in Nat : /\ n = (i.page - 1) * PageSize /\ n <= len
                         /\ i.listed = FirstEntries(sv, all, n)
    BY DEF PageOK
  <1>5. Len(i.listed) = n
    <2>1. DOMAIN i.listed = 1..n
      BY <1>4 DEF FirstEntries
    <2> QED
      BY <2>1, LengthIs DEF Typed
  <1>6. PICK m \in Nat : n <= m /\ m <= len /\ Len(PageOf(all, i.page)) = m - n
    <2> DEFINE pg == i.page
               S == SelectedIn(sv, v)
    <2>1. pg \in Nat \ {0} /\ n <= Len(all) /\ n = (pg - 1) * PageSize /\ all \in Seq(S)
      BY <1>3, <1>4 DEF Typed
    <2> HIDE DEF pg, S
    <2>2. PICK m \in Nat : UpTo(S, all, pg, n, m)
      BY <2>1, PageGoesOn
    <2> QED
      BY <2>2 DEF pg, UpTo, Continues
  <1>7. Len(i.listed) + Len(PageOf(all, i.page)) <= len
    BY <1>3, <1>5, <1>6
  <1>8. Len(i.listed) + Len(PageOf(all, i.page)) \in Nat /\ MaxAssets \in Nat
    BY <1>5, <1>6, InventoryAssumption
  <1> DEFINE s == Len(i.listed) + Len(PageOf(all, i.page))
  <1>9. s \in Nat /\ s <= len /\ (len > MaxAssets - c \/ s > MaxAssets - c)
    BY <1>7, <1>8
  <1> HIDE DEF s, c, w, x, len, v
  <1>10. w >= MaxAssets
    BY <1>1, <1>2, <1>3, <1>8, <1>9
  <1> QED
    BY <1>10 DEF w

\* What the pages show together.
Joined(sv, all, items, n, m) ==
    /\ FirstEntries(sv, all, n) \o Entries(sv, items) = FirstEntries(sv, all, m)
    /\ Shown(all, m) = Shown(all, n) \cup ToSet(items)

\* The entries of the pages up to one are those of the first assets of the
\* result.
LEMMA PagesJoin ==
    ASSUME NEW sv, NEW all \in Seq(Assets), NEW n \in Nat, NEW m \in Nat, n <= m, m <= Len(all),
           NEW items \in Seq(Assets), Continues(all, items, n, m)
    PROVE  Joined(sv, all, items, n, m)
  <1> DEFINE S == {FactIn(sv, a) : a \in Assets}
             d == m - n
             F(a) == FactIn(sv, a)
             s == [k \in 1..n |-> F(all[k])]
             t == [k \in 1..d |-> F(items[k])]
             u == [k \in 1..m |-> F(all[k])]
  <1>0. Len(items) = d /\ \A k \in 1..d : items[k] = all[n + k]
    BY DEF Continues
  <1>1. d \in Nat /\ d + n = m /\ DOMAIN items = 1..d
    BY <1>0, LenProperties
  <1>2. \A k \in 1..m : all[k] \in Assets
    <2>1. Len(all) \in Nat /\ \A k \in 1..Len(all) : all[k] \in Assets
      BY LenProperties
    <2> QED
      BY <2>1
  <1>3. \A k \in 1..d : items[k] \in Assets /\ items[k] = all[n + k] /\ n + k \in 1..m
    BY <1>0, <1>1, LenProperties
  <1> HIDE DEF d
  <1>4. \A a \in Assets : F(a) \in S
    OBVIOUS
  <1> HIDE DEF S, F
  <1>5. s \in [1..n -> S] /\ t \in [1..d -> S] /\ u \in [1..m -> S]
    BY <1>1, <1>2, <1>3, <1>4
  <1>6. \A k \in 1..m : u[k] = (IF k <= n THEN s[k] ELSE t[k - n])
    <2> SUFFICES ASSUME NEW k \in 1..m PROVE u[k] = (IF k <= n THEN s[k] ELSE t[k - n])
      OBVIOUS
    <2>1. CASE k <= n
      BY <2>1
    <2>2. CASE ~(k <= n)
      <3>1. k - n \in 1..d /\ n + (k - n) = k
        BY <1>1, <2>2
      <3>2. items[k - n] = all[k]
        BY <1>3, <3>1
      <3> QED
        BY <2>2, <3>1, <3>2
    <2> QED
      BY <2>1, <2>2
  <1>7. s \in Seq(S) /\ t \in Seq(S) /\ u \in Seq(S)
    BY <1>1, <1>5, FunctionIsSeq, Zenon
  <1>8. Len(s) = n /\ Len(t) = d
    BY <1>1, <1>7, LengthIs
  <1> HIDE DEF s, t, u
  <1>9. /\ s \o t \in Seq(S) /\ Len(s \o t) = Len(s) + Len(t)
        /\ \A k \in 1..Len(s) + Len(t) :
              (s \o t)[k] = IF k <= Len(s) THEN s[k] ELSE t[k - Len(s)]
    BY <1>7, ConcatProperties
  <1>10. n + d = m
    BY <1>1
  <1>11. \A k \in 1..m : (s \o t)[k] = u[k]
    BY <1>6, <1>8, <1>9, <1>10
  <1>12. s \o t \in [1..m -> S]
    BY <1>8, <1>9, <1>10, LenProperties
  <1>13. s \o t = u
    BY <1>5, <1>11, <1>12
  <1>14. Shown(all, m) = Shown(all, n) \cup ToSet(items)
    <2>1. ASSUME NEW k \in 1..m PROVE all[k] \in Shown(all, n) \cup ToSet(items)
      <3>1. CASE k <= n
        BY <3>1 DEF Shown
      <3>2. CASE ~(k <= n)
        <4>1. k - n \in 1..d /\ n + (k - n) = k
          BY <1>1, <3>2
        <4>2. items[k - n] = all[k]
          BY <1>3, <4>1
        <4> QED
          BY <1>1, <4>1, <4>2 DEF ToSet
      <3> QED
        BY <3>1, <3>2
    <2>2. \A k \in 1..n : k \in 1..m
      OBVIOUS
    <2>3. \A k \in 1..d : items[k] \in Shown(all, m)
      BY <1>3 DEF Shown
    <2> QED
      BY <1>1, <2>1, <2>2, <2>3 DEF Shown, ToSet
  <1> QED
    BY <1>1, <1>13, <1>14 DEF s, t, u, F, FirstEntries, Entries, Joined

\* One more page of a result.
LEMMA PageStep ==
    ASSUME NEW sv, NEW res \in SUBSET Assets, NEW pg, NEW n \in Nat, NEW all \in Seq(res),
           NEW m \in Nat, UpTo(res, all, pg, n, m)
    PROVE  Joined(sv, all, PageOf(all, pg), n, m)
  <1> DEFINE items == PageOf(all, pg)
  <1>1. n <= m /\ m <= Len(all) /\ items \in Seq(res) /\ Continues(all, items, n, m)
    BY DEF UpTo
  <1> HIDE DEF items
  <1>2. all \in Seq(Assets) /\ items \in Seq(Assets)
    BY <1>1, SeqOfSubset
  <1>3. Joined(sv, all, items, n, m)
    BY <1>1, <1>2, PagesJoin
  <1> QED
    BY <1>3 DEF items

\* All pages of a result list its assets, each once.
LEMMA WholeResult ==
    ASSUME NEW sv, NEW res \in SUBSET Assets, \A a \in res : sv[a] # None,
           NEW all, all = Ranked(res), NEW listed, listed = FirstEntries(sv, all, Len(all))
    PROVE  /\ Ids(listed) = res /\ Distinct(listed) /\ Exact(sv, listed)
           /\ Shown(all, Len(all)) = res
  <1> DEFINE len == Len(all)
  <1>1. /\ all \in Seq(res) /\ len \in Nat
        /\ \A x, y \in 1..len : all[x] = all[y] => x = y
        /\ \A a \in res : \E k \in 1..len : all[k] = a
    BY RankedFacts
  <1>2. \A k \in 1..len : all[k] \in res
    <2>1. all \in [1..len -> res]
      BY <1>1, LenProperties, Zenon
    <2> QED
      BY <2>1, Zenon
  <1> HIDE DEF len
  <1>3. DOMAIN listed = 1..len /\ \A k \in 1..len : listed[k] = FactIn(sv, all[k])
    BY DEF FirstEntries, len
  <1>4. \A k \in 1..len : listed[k].id = all[k]
    <2>1. \A a : FactIn(sv, a).id = a
      BY DEF FactIn
    <2> QED
      BY <1>3, <2>1, Zenon
  <1>5. Ids(listed) = res
    <2>1. ASSUME NEW x \in Ids(listed) PROVE x \in res
      BY <1>2, <1>3, <1>4, <2>1 DEF Ids
    <2>2. ASSUME NEW x \in res PROVE x \in Ids(listed)
      <3>1. PICK k \in 1..len : all[k] = x
        BY <1>1
      <3> QED
        BY <1>3, <1>4, <3>1 DEF Ids
    <2> QED
      BY <2>1, <2>2
  <1>6. Distinct(listed)
    BY <1>1, <1>3, <1>4 DEF Distinct
  <1>7. Exact(sv, listed)
    <2> SUFFICES ASSUME NEW x \in ToSet(listed)
                 PROVE  x.id \in Assets /\ sv[x.id] # None /\ x = FactIn(sv, x.id)
      BY DEF Exact
    <2>1. PICK k \in 1..len : x = listed[k]
      BY <1>3 DEF ToSet
    <2>2. x.id = all[k] /\ x = FactIn(sv, all[k]) /\ all[k] \in res
      BY <1>2, <1>3, <1>4, <2>1
    <2> QED
      BY <2>2
  <1>8. Shown(all, len) = res
    <2>1. \A x \in Shown(all, len) : x \in res
      BY <1>2 DEF Shown
    <2>2. \A x \in res : x \in Shown(all, len)
      BY <1>1 DEF Shown
    <2> QED
      BY <2>1, <2>2
  <1> QED
    BY <1>5, <1>6, <1>7, <1>8 DEF len

\* A page that is accepted: the next one is due, or the result is complete.
LEMMA QuietPage ==
    ASSUME NEW sv, NEW mb, World(sv, mb), NEW i, NEW p, NEW j, Typed(i), Typed(j),
           QuietAt(sv, mb, i, p), i.pc = "page",
           NEW pg, pg = i.page, NEW all, all = Ranked(SelectedIn(sv, Head(i.vis))),
           j.listed = i.listed \o Entries(sv, PageOf(all, pg)),
           j.related = i.related \cup LinksIn(sv, ToSet(PageOf(all, pg))),
           j.pc = IF HasNext(all, pg) THEN "page" ELSE "related",
           j.page = IF HasNext(all, pg) THEN pg + 1 ELSE 1,
           j.mode = i.mode, j.vis = i.vis, j.selection = i.selection,
           j.collected = i.collected, j.assets = i.assets, j.albums = i.albums
    PROVE  QuietAt(sv, mb, j, p)
  <1> DEFINE res == SelectedIn(sv, Head(i.vis))
             items == PageOf(all, pg)
  <1>1. VisOK(i) /\ CollectedOK(sv, i) /\ PageOK(sv, i) /\ i.assets = <<>> /\ i.albums = {}
    BY DEF QuietAt
  <1>2. /\ res \in SUBSET Assets /\ all = Ranked(res) /\ pg \in Nat \ {0}
        /\ \A a \in res : sv[a] # None
    BY WorldFacts DEF Typed, SelectedIn
  <1>3. PICK n \in Nat : /\ n = (pg - 1) * PageSize /\ n <= Len(all)
                         /\ i.listed = FirstEntries(sv, all, n)
                         /\ i.related = LinksIn(sv, Shown(all, n))
    BY <1>1 DEF PageOK
  <1>a. /\ j.listed = i.listed \o Entries(sv, items)
        /\ j.related = i.related \cup LinksIn(sv, ToSet(items))
    OBVIOUS
  <1> HIDE DEF res, items
  <1>4. all \in Seq(res)
    BY <1>2, RankedFacts
  <1>5. PICK m \in Nat : UpTo(res, all, pg, n, m)
    BY <1>2, <1>3, <1>4, PageGoesOn
  <1>6. /\ FirstEntries(sv, all, n) \o Entries(sv, items) = FirstEntries(sv, all, m)
        /\ Shown(all, m) = Shown(all, n) \cup ToSet(items)
    <2>1. Joined(sv, all, PageOf(all, pg), n, m)
      BY <1>2, <1>4, <1>5, PageStep
    <2> QED
      BY <2>1, Zenon DEF items, Joined
  <1>6a. j.listed = FirstEntries(sv, all, m)
    BY <1>3, <1>6, <1>a
  <1>7. j.related = LinksIn(sv, Shown(all, m))
    <2>1. \A S, T : LinksIn(sv, S \cup T) = LinksIn(sv, S) \cup LinksIn(sv, T)
      BY DEF LinksIn
    <2> QED
      BY <1>3, <1>6, <1>a, <2>1
  <1>8. VisOK(j) /\ CollectedOK(sv, j)
    BY <1>1 DEF VisOK, CollectedOK, Done
  <1>9. CASE HasNext(all, pg)
    <2>1. j.pc = "page" /\ j.page = pg + 1 /\ m = (j.page - 1) * PageSize /\ m <= Len(all)
      BY <1>5, <1>9 DEF UpTo
    <2>2. PageOK(sv, j)
      <3>1. all = Ranked(SelectedIn(sv, Head(j.vis)))
        BY <1>2 DEF res
      <3> QED
        BY <1>6a, <1>7, <2>1, <3>1 DEF PageOK
    <2> QED
      BY <1>1, <1>8, <2>1, <2>2 DEF QuietAt
  <1>10. CASE ~HasNext(all, pg)
    <2>1. j.pc = "related" /\ j.page = 1 /\ m = Len(all)
      BY <1>5, <1>10 DEF UpTo
    <2>2. j.listed = FirstEntries(sv, all, Len(all))
      BY <1>6a, <2>1
    <2>3. /\ Ids(j.listed) = res /\ Distinct(j.listed) /\ Exact(sv, j.listed)
          /\ Shown(all, Len(all)) = res
      BY <1>2, <2>2, WholeResult
    <2>4. RelatedOK(sv, j)
      BY <1>7, <2>1, <2>3 DEF RelatedOK, ClosedIn, res
    <2> QED
      BY <1>1, <1>8, <2>1, <2>4 DEF QuietAt
  <1> QED
    BY <1>9, <1>10

\* A video that is looked up is one of those that the visibility brings with
\* it; only a limit or a video that is not there refuses it.
LEMMA QuietRelated ==
    ASSUME NEW sv, NEW mb, World(sv, mb), NEW i, NEW p, NEW j, Typed(i), Typed(j),
           QuietAt(sv, mb, i, p), i.pc = "related",
           NEW a \in i.related \ Ids(i.listed)
    PROVE  /\ (Len(i.listed) >= MaxAssets - Len(i.collected) \/ sv[a] = None)
                => RefusableIn(sv, mb, i.mode, ToSet(i.selection), p)
           /\ (/\ sv[a] # None /\ j.listed = Append(i.listed, FactIn(sv, a)) /\ j.pc = i.pc
               /\ j.related = i.related /\ j.page = i.page
               /\ j.mode = i.mode /\ j.vis = i.vis /\ j.selection = i.selection
               /\ j.collected = i.collected /\ j.assets = i.assets /\ j.albums = i.albums)
                => QuietAt(sv, mb, j, p)
  <1> DEFINE v == Head(i.vis)
             c == Len(i.collected)
             w == Weight(sv, ToSet(i.selection))
             x == Cardinality(ClosedIn(sv, v))
             n == Len(i.listed)
  <1>1. VisOK(i) /\ CollectedOK(sv, i) /\ RelatedOK(sv, i) /\ i.assets = <<>> /\ i.albums = {}
    BY DEF QuietAt
  <1>2. c + x <= w /\ c \in Nat /\ w \in Nat /\ v \in ToSet(i.selection)
    BY <1>1, Room
  <1>3. /\ SelectedIn(sv, v) \subseteq Ids(i.listed) /\ Ids(i.listed) \subseteq ClosedIn(sv, v)
        /\ i.related = LinksIn(sv, SelectedIn(sv, v))
        /\ Exact(sv, i.listed) /\ Distinct(i.listed) /\ i.page = 1
    BY <1>1 DEF RelatedOK
  <1>4. ClosedIn(sv, v) \in SUBSET Assets /\ IsFiniteSet(ClosedIn(sv, v)) /\ x \in Nat
    BY WorldFacts
  <1>5. a \in ClosedIn(sv, v) /\ a \notin Ids(i.listed) /\ a \in Assets
    BY <1>3, <1>4 DEF ClosedIn
  <1>6. Cardinality(Ids(i.listed)) = n /\ n \in Nat
    BY <1>3, CountEntries DEF Typed
  <1>7. n <= x /\ n # x
    BY <1>3, <1>4, <1>5, <1>6, FS_Subset
  <1>8. ASSUME n >= MaxAssets - c
        PROVE  w >= MaxAssets
    <2> HIDE DEF n, c, w, x
    <2>1. MaxAssets \in Nat
      BY InventoryAssumption
    <2> QED
      BY <1>2, <1>4, <1>6, <1>7, <1>8, <2>1
  <1>9. sv[a] = None => \E b \in WantedIn(sv, ToSet(i.selection)) : sv[b] = None
    BY <1>2, <1>5 DEF WantedIn
  <1>10. (n >= MaxAssets - c \/ sv[a] = None) => RefusableIn(sv, mb, i.mode, ToSet(i.selection), p)
    BY <1>8, <1>9, Zenon DEF RefusableIn
  <1>11. ASSUME sv[a] # None, j.listed = Append(i.listed, FactIn(sv, a)), j.pc = i.pc,
                j.related = i.related, j.page = i.page,
                j.mode = i.mode, j.vis = i.vis, j.selection = i.selection,
                j.collected = i.collected, j.assets = i.assets, j.albums = i.albums
         PROVE  QuietAt(sv, mb, j, p)
    <2> DEFINE e == FactIn(sv, a)
               s == i.listed
    <2>1. e.id = a
      BY DEF FactIn
    <2> HIDE DEF e
    <2>2. /\ n \in Nat /\ DOMAIN s = 1..n /\ DOMAIN j.listed = 1..(n + 1)
          /\ \A k \in 1..n : j.listed[k] = s[k]
          /\ j.listed[n + 1] = e
      BY <1>11, LenProperties DEF Typed, e
    <2> HIDE DEF n, s
    <2>3. \A k \in 1..(n + 1) : k \in 1..n \/ k = n + 1
      BY <2>2
    <2>4. \A k \in 1..n : k \in 1..(n + 1) /\ k # n + 1
      BY <2>2
    <2>4a. n + 1 \in 1..(n + 1)
      BY <2>2
    <2>5. ToSet(j.listed) = ToSet(s) \cup {e}
      BY <2>2, <2>3, <2>4, <2>4a DEF ToSet
    <2>6. Ids(j.listed) = Ids(s) \cup {a}
      BY <2>1, <2>2, <2>3, <2>4, <2>4a DEF Ids
    <2>7. Distinct(j.listed)
      <3>1. \A k \in 1..n : s[k].id \in Ids(s)
        BY <2>2 DEF Ids
      <3>2. a \notin Ids(s) /\ Distinct(s)
        BY <1>3, <1>5 DEF s
      <3> QED
        BY <2>1, <2>2, <2>3, <2>4, <3>1, <3>2 DEF Distinct
    <2>8. Exact(sv, j.listed)
      BY <1>3, <1>5, <1>11, <2>1, <2>5 DEF Exact, e, s
    <2>9. RelatedOK(sv, j)
      BY <1>3, <1>5, <1>11, <2>6, <2>7, <2>8 DEF RelatedOK, s
    <2>10. VisOK(j) /\ CollectedOK(sv, j)
      BY <1>1, <1>11 DEF VisOK, CollectedOK, Done
    <2> QED
      BY <1>1, <1>11, <2>9, <2>10 DEF QuietAt
  <1> QED
    BY <1>10, <1>11

\* What a listing holds is what its identifiers say.
LEMMA ExactEntries ==
    ASSUME NEW sv, NEW s, Exact(sv, s)
    PROVE  ToSet(s) = {FactIn(sv, a) : a \in Ids(s)} /\ ~FactsChanged(s)
  <1>1. \A x \in ToSet(s) : x.id \in Ids(s)
    BY IdsFacts DEF IdsOf
  <1>2. \A a \in Ids(s) : \E x \in ToSet(s) : x.id = a
    BY IdsFacts DEF IdsOf
  <1>3. \A x \in ToSet(s) : x = FactIn(sv, x.id)
    BY DEF Exact
  <1>4. ToSet(s) = {FactIn(sv, a) : a \in Ids(s)}
    <2>1. \A x \in ToSet(s) : x \in {FactIn(sv, a) : a \in Ids(s)}
      BY <1>1, <1>3, Zenon
    <2>2. ASSUME NEW a \in Ids(s) PROVE FactIn(sv, a) \in ToSet(s)
      <3>1. PICK x \in ToSet(s) : x.id = a
        BY <1>2
      <3> QED
        BY <1>3, <3>1
    <2> QED
      BY <2>1, <2>2
  <1>5. \A k \in DOMAIN s : s[k] \in ToSet(s)
    BY DEF ToSet
  <1>6. ~FactsChanged(s)
    <2> SUFFICES ASSUME NEW j \in DOMAIN s, NEW k \in DOMAIN s, s[j].id = s[k].id
                 PROVE  s[j] = s[k]
      BY DEF FactsChanged
    <2>1. s[j] = FactIn(sv, s[j].id) /\ s[k] = FactIn(sv, s[k].id)
      BY <1>3, <1>5
    <2> QED
      BY <2>1
  <1> QED
    BY <1>4, <1>6

\* The end of a visibility, with what was collected before.
LEMMA VisibilityOver ==
    ASSUME NEW sv, NEW mb, World(sv, mb), NEW i, NEW p, Typed(i),
           QuietAt(sv, mb, i, p), i.pc = "related", i.related \ Ids(i.listed) = {},
           NEW v, v = Head(i.vis), NEW c, c = i.collected \o i.listed
    PROVE  /\ Ids(i.listed) = ClosedIn(sv, v)
           /\ c \in Seq(Entry) /\ Len(c) \in Nat /\ Exact(sv, c)
           /\ Ids(c) = WantedIn(sv, Done(i) \cup {v})
           /\ Len(c) <= Weight(sv, Done(i) \cup {v})
           /\ Len(c) <= Weight(sv, ToSet(i.selection))
           /\ Weight(sv, ToSet(i.selection)) \in Nat
  <1>1. VisOK(i) /\ CollectedOK(sv, i) /\ RelatedOK(sv, i)
    BY DEF QuietAt
  <1>2. /\ SelectedIn(sv, v) \subseteq Ids(i.listed) /\ Ids(i.listed) \subseteq ClosedIn(sv, v)
        /\ i.related = LinksIn(sv, SelectedIn(sv, v))
        /\ Exact(sv, i.listed) /\ Distinct(i.listed)
    BY <1>1 DEF RelatedOK
  <1>3. Ids(i.listed) = ClosedIn(sv, v)
    BY <1>2 DEF ClosedIn
  <1>4. Cardinality(Ids(i.listed)) = Len(i.listed) /\ Len(i.listed) \in Nat
    BY <1>2, CountEntries DEF Typed
  <1>5. i.collected \in Seq(Entry) /\ i.listed \in Seq(Entry)
    BY DEF Typed
  <1>6. c \in Seq(Entry) /\ ToSet(c) = ToSet(i.collected) \cup ToSet(i.listed)
    <2>1. /\ i.collected \o i.listed \in Seq(Entry)
          /\ ToSet(i.collected \o i.listed) = ToSet(i.collected) \cup ToSet(i.listed)
      <3> DEFINE A == i.collected
                 B == i.listed
      <3>1. A \in Seq(Entry) /\ B \in Seq(Entry)
        BY <1>5
      <3> HIDE DEF A, B
      <3>2. A \o B \in Seq(Entry) /\ ToSet(A \o B) = ToSet(A) \cup ToSet(B)
        BY <3>1, JoinFacts
      <3> QED
        BY <3>2 DEF A, B
    <2> QED
      BY <2>1, Zenon
  <1>7. Len(c) = Len(i.collected) + Len(i.listed) /\ Len(i.collected) \in Nat
    BY <1>5, ConcatProperties
  <1>8. Exact(sv, c)
    <2>1. Exact(sv, i.collected)
      BY <1>1 DEF CollectedOK
    <2> QED
      BY <1>2, <1>6, <2>1 DEF Exact
  <1>9. Ids(c) = WantedIn(sv, Done(i) \cup {v})
    <2>1. Ids(c) = Ids(i.collected) \cup Ids(i.listed)
      BY <1>6, IdsFacts DEF IdsOf
    <2>2. Ids(i.collected) = WantedIn(sv, Done(i))
      BY <1>1 DEF CollectedOK
    <2>3. \A vs : WantedIn(sv, vs \cup {v}) = WantedIn(sv, vs) \cup ClosedIn(sv, v)
      BY DEF WantedIn
    <2> QED
      BY <1>3, <2>1, <2>2, <2>3
  <1>10. /\ Len(i.collected) + Cardinality(ClosedIn(sv, v)) <= Weight(sv, ToSet(i.selection))
         /\ Weight(sv, ToSet(i.selection)) \in Nat
         /\ Len(i.collected) + Cardinality(ClosedIn(sv, v)) <= Weight(sv, Done(i) \cup {v})
    BY <1>1, Room
  <1>11. /\ Len(c) <= Weight(sv, ToSet(i.selection)) /\ Len(c) \in Nat
         /\ Len(c) <= Weight(sv, Done(i) \cup {v})
    <2> DEFINE x == Len(i.collected)
               y == Len(i.listed)
               z == Len(c)
               k == Cardinality(ClosedIn(sv, v))
               w == Weight(sv, ToSet(i.selection))
               u == Weight(sv, Done(i) \cup {v})
    <2>1. x \in Nat /\ y \in Nat /\ y = k /\ z = x + y /\ x + k <= w /\ x + k <= u
      BY <1>3, <1>4, <1>7, <1>10
    <2> HIDE DEF x, y, z, k, w, u
    <2>2. z \in Nat /\ z <= w /\ z <= u
      BY <2>1
    <2> QED
      BY <2>2 DEF z, w, u
  <1> QED
    BY <1>3, <1>6, <1>8, <1>9, <1>10, <1>11

\* Before the first page nothing is listed.
LEMMA NoPages ==
    ASSUME NEW sv, NEW mb, World(sv, mb), NEW j, j.page = 1, j.listed = <<>>, j.related = {}
    PROVE  PageOK(sv, j)
  <1> DEFINE all == Ranked(SelectedIn(sv, Head(j.vis)))
  <1>1. Len(all) \in Nat
    BY WorldFacts, RankedFacts
  <1> HIDE DEF all
  <1>2. 0 \in Nat /\ 0 = (j.page - 1) * PageSize /\ 0 <= Len(all)
    BY <1>1, InventoryAssumption
  <1>3. j.listed = FirstEntries(sv, all, 0)
    BY DEF FirstEntries
  <1>4. j.related = LinksIn(sv, Shown(all, 0))
    BY DEF LinksIn, Shown
  <1> QED
    BY <1>2, <1>3, <1>4 DEF PageOK, all

\* The next visibility, within the limit.
LEMMA QuietNextVisibility ==
    ASSUME NEW sv, NEW mb, World(sv, mb), NEW i, NEW p, NEW j, Typed(i), Typed(j),
           QuietAt(sv, mb, i, p), i.pc = "related", i.related \ Ids(i.listed) = {},
           i.mode = "archive", Len(i.vis) > 1,
           j.pc = "page", j.vis = Tail(i.vis), j.listed = <<>>, j.related = {},
           j.collected = i.collected \o i.listed, j.page = i.page,
           j.mode = i.mode, j.selection = i.selection, j.assets = i.assets, j.albums = i.albums
    PROVE  QuietAt(sv, mb, j, p)
  <1> DEFINE v == Head(i.vis)
             c == i.collected \o i.listed
  <1>1. VisOK(i) /\ i.page = 1 /\ i.assets = <<>> /\ i.albums = {}
    BY DEF QuietAt, RelatedOK
  <1>2. /\ i.vis \in Seq(Visibilities) /\ i.vis # <<>> /\ IsInjective(i.vis)
        /\ ToSet(i.vis) \subseteq ToSet(i.selection)
        /\ ToSet(i.selection) \subseteq Visibilities
    BY <1>1 DEF VisOK
  <1>3. /\ v \in ToSet(i.vis) /\ j.vis \in Seq(Visibilities) /\ Len(j.vis) = Len(i.vis) - 1
        /\ Len(i.vis) \in Nat /\ IsInjective(j.vis) /\ ToSet(j.vis) = ToSet(i.vis) \ {v}
    BY <1>2, TailFacts
  <1>4. j.vis # <<>>
    <2> DEFINE x == Len(j.vis)
               y == Len(i.vis)
    <2>0. y \in Nat /\ y > 1 /\ x = y - 1
      BY <1>3
    <2>1. x # 0
      <3> HIDE DEF x, y
      <3> QED
        BY <2>0
    <2>2. Len(<<>>) = 0
      OBVIOUS
    <2> QED
      BY <2>1, <2>2
  <1>5. VisOK(j)
    BY <1>2, <1>3, <1>4 DEF VisOK
  <1>6. Done(j) = Done(i) \cup {v}
    BY <1>2, <1>3 DEF Done
  <1>7. /\ Exact(sv, c) /\ Ids(c) = WantedIn(sv, Done(i) \cup {v})
        /\ Len(c) <= Weight(sv, Done(i) \cup {v})
    BY VisibilityOver
  <1>8. CollectedOK(sv, j)
    BY <1>6, <1>7 DEF CollectedOK
  <1>9. PageOK(sv, j)
    BY <1>1, NoPages
  <1> QED
    BY <1>1, <1>5, <1>8, <1>9 DEF QuietAt

\* The manifest of a library that holds still is what was asked for.
LEMMA QuietManifest ==
    ASSUME NEW sv, NEW mb, World(sv, mb), NEW i, NEW p, Typed(i),
           QuietAt(sv, mb, i, p), i.pc = "related", i.related \ Ids(i.listed) = {},
           i.mode = "archive", ~(Len(i.vis) > 1),
           NEW c, c = i.collected \o i.listed
    PROVE  /\ ~FactsChanged(c)
           /\ [mode |-> "archive", assets |-> ToSet(c)]
                = ReferenceIn(sv, mb, "archive", ToSet(i.selection))
  <1> DEFINE v == Head(i.vis)
  <1>1. VisOK(i)
    BY DEF QuietAt
  <1>2. /\ i.vis \in Seq(Visibilities) /\ i.vis # <<>> /\ IsInjective(i.vis)
        /\ ToSet(i.vis) \subseteq ToSet(i.selection)
    BY <1>1 DEF VisOK
  <1>3. /\ v \in ToSet(i.vis) /\ Tail(i.vis) \in Seq(Visibilities)
        /\ Len(Tail(i.vis)) = Len(i.vis) - 1
        /\ Len(i.vis) \in Nat \ {0} /\ ToSet(Tail(i.vis)) = ToSet(i.vis) \ {v}
    BY <1>2, TailFacts
  <1>4. Tail(i.vis) = <<>>
    BY <1>3, EmptySeq
  <1>5. ToSet(i.vis) = {v}
    <2>1. ToSet(<<>>) = {}
      BY DEF ToSet
    <2> QED
      BY <1>3, <1>4, <2>1
  <1>6. Done(i) \cup {v} = ToSet(i.selection)
    BY <1>2, <1>5 DEF Done
  <1>7. Exact(sv, c) /\ Ids(c) = WantedIn(sv, Done(i) \cup {v})
    BY VisibilityOver
  <1>8. ToSet(c) = {FactIn(sv, a) : a \in WantedIn(sv, ToSet(i.selection))} /\ ~FactsChanged(c)
    <2>1. ToSet(c) = {FactIn(sv, a) : a \in Ids(c)} /\ ~FactsChanged(c)
      BY <1>7, ExactEntries
    <2> QED
      BY <1>6, <1>7, <2>1
  <1> QED
    BY <1>8 DEF ReferenceIn

\* The listing of a migration is over.
LEMMA QuietListed ==
    ASSUME NEW sv, NEW mb, World(sv, mb), NEW i, NEW p, NEW j, Typed(i), Typed(j),
           QuietAt(sv, mb, i, p), i.pc = "related", i.related \ Ids(i.listed) = {},
           i.mode # "archive", j.pc = "recheck", j.at = 1, j.listed = i.listed,
           j.mode = i.mode, j.selection = i.selection, j.assets = i.assets, j.albums = i.albums
    PROVE  QuietAt(sv, mb, j, p)
  <1>1. /\ VisOK(i) /\ i.assets = <<>> /\ i.albums = {}
        /\ Exact(sv, i.listed) /\ Distinct(i.listed)
    BY DEF QuietAt, RelatedOK
  <1>2. i.selection = <<"timeline">> /\ Head(i.vis) = "timeline"
    BY <1>1 DEF VisOK
  <1>3. Ids(i.listed) = ClosedIn(sv, "timeline")
    BY <1>2, VisibilityOver
  <1>4. MigrationOK(sv, j)
    BY <1>1, <1>2, <1>3 DEF MigrationOK
  <1>5. RecheckOK(sv, j)
    <2>1. Len(i.listed) \in Nat /\ j.at \in 1..(Len(i.listed) + 1)
      BY DEF Typed
    <2>2. i.assets = LookedUp(sv, i.listed, 1 - 1)
      BY <1>1 DEF LookedUp
    <2> QED
      BY <1>1, <2>1, <2>2 DEF RecheckOK
  <1> QED
    BY <1>4, <1>5 DEF QuietAt

\* What was looked up of n entries.
IsLookedUp(sv, s, n, t) ==
    /\ t \in Seq({MigrationFactIn(sv, a) : a \in Ids(s)}) /\ Len(t) = n
    /\ DOMAIN t = 1..n
    /\ \A k \in 1..n : t[k] = MigrationFactIn(sv, s[k].id) /\ s[k].id \in Ids(s)
                       /\ t[k].id = s[k].id

\* LookedUp is the sequence of the first n entries as they were looked up.
LEMMA LookedUpFacts ==
    ASSUME NEW sv, NEW s \in Seq(Entry), NEW n \in Nat, n <= Len(s)
    PROVE  IsLookedUp(sv, s, n, LookedUp(sv, s, n))
  <1> DEFINE S == {MigrationFactIn(sv, a) : a \in Ids(s)}
             t == LookedUp(sv, s, n)
  <1>1. Len(s) \in Nat /\ DOMAIN s = 1..Len(s)
    BY LenProperties
  <1>2. \A k \in 1..n : k \in DOMAIN s /\ s[k].id \in Ids(s)
    BY <1>1 DEF Ids
  <1>3. DOMAIN t = 1..n /\ \A k \in 1..n : t[k] = MigrationFactIn(sv, s[k].id)
    BY DEF LookedUp
  <1>4. \A a : MigrationFactIn(sv, a).id = a
    BY DEF MigrationFactIn
  <1>5. \A k \in 1..n : t[k].id = s[k].id
    BY <1>3, <1>4, Zenon
  <1>6. \A k \in 1..n : t[k] \in S
    BY <1>2, <1>3
  <1> HIDE DEF S
  <1>7. t \in [1..n -> S]
    <2>1. t = [k \in 1..n |-> t[k]]
      BY DEF LookedUp
    <2> HIDE DEF t
    <2> QED
      BY <1>6, <2>1
  <1> HIDE DEF t
  <1>8. t \in Seq(S)
    BY <1>7, FunctionIsSeq, Zenon
  <1>9. Len(t) = n
    BY <1>3, <1>8, LengthIs
  <1> QED
    BY <1>2, <1>3, <1>5, <1>8, <1>9 DEF S, t, IsLookedUp

\* One more is appended.
LEMMA OneMore ==
    ASSUME NEW sv, NEW s \in Seq(Entry), NEW n \in 1..Len(s)
    PROVE  Append(LookedUp(sv, s, n - 1), MigrationFactIn(sv, s[n].id)) = LookedUp(sv, s, n)
  <1> DEFINE S == {MigrationFactIn(sv, a) : a \in Ids(s)}
             t == LookedUp(sv, s, n - 1)
             u == LookedUp(sv, s, n)
             e == MigrationFactIn(sv, s[n].id)
             w == Append(t, e)
  <1>1. /\ Len(s) \in Nat /\ n \in Nat \ {0} /\ n <= Len(s)
        /\ n - 1 \in Nat /\ n - 1 <= Len(s)
    BY LenProperties
  <1>2. IsLookedUp(sv, s, n - 1, t) /\ IsLookedUp(sv, s, n, u)
    BY <1>1, LookedUpFacts
  <1> HIDE DEF t, u
  <1>3. t \in Seq(S) /\ Len(t) = n - 1 /\ \A k \in 1..(n - 1) : t[k] = MigrationFactIn(sv, s[k].id)
    BY <1>2 DEF IsLookedUp
  <1>4. /\ u \in Seq(S) /\ Len(u) = n
        /\ \A k \in 1..n : u[k] = MigrationFactIn(sv, s[k].id) /\ s[k].id \in Ids(s)
    BY <1>2 DEF IsLookedUp
  <1>5. e \in S /\ e = u[n]
    BY <1>1, <1>4
  <1> HIDE DEF S, e
  <1>6. /\ w \in Seq(S) /\ Len(w) = n
        /\ \A k \in 1..(n - 1) : w[k] = t[k]
        /\ w[n] = e
    BY <1>1, <1>3, <1>5, AppendProperties
  <1> HIDE DEF w
  <1>7. \A k \in 1..n : w[k] = u[k]
    <2> SUFFICES ASSUME NEW k \in 1..n PROVE w[k] = u[k]
      OBVIOUS
    <2>1. k \in 1..(n - 1) \/ k = n
      BY <1>1
    <2> QED
      BY <1>3, <1>4, <1>5, <1>6, <2>1
  <1>8. w \in [1..n -> S] /\ u \in [1..n -> S]
    BY <1>4, <1>6, LenProperties
  <1>9. w = u
    BY <1>7, <1>8, SameFunction
  <1> QED
    BY <1>9 DEF w, t, u, e

\* One more entry is looked up.
LEMMA QuietRecheck ==
    ASSUME NEW sv, NEW mb, World(sv, mb), NEW i, NEW p, NEW j, Typed(i), Typed(j),
           QuietAt(sv, mb, i, p), i.pc = "recheck", i.at <= Len(i.listed)
    PROVE  LET x == i.listed[i.at] IN
           /\ sv[x.id] # None /\ x = FactIn(sv, x.id)
           /\ (/\ j.assets = Append(i.assets, MigrationFactIn(sv, x.id)) /\ j.at = i.at + 1
               /\ j.pc = i.pc /\ j.listed = i.listed /\ j.mode = i.mode
               /\ j.selection = i.selection /\ j.albums = i.albums)
                => QuietAt(sv, mb, j, p)
  <1> DEFINE s == i.listed
             n == i.at
             x == s[n]
  <1>1. MigrationOK(sv, i) /\ RecheckOK(sv, i)
    BY DEF QuietAt
  <1>2. /\ s \in Seq(Entry) /\ Exact(sv, s) /\ n \in 1..(Len(s) + 1) /\ n <= Len(s)
        /\ i.assets = LookedUp(sv, s, n - 1) /\ i.albums = {}
    BY <1>1 DEF MigrationOK, RecheckOK, Typed
  <1>3. MigrationOK(sv, i)
    BY <1>1
  <1> HIDE DEF s, n
  <1>4. /\ Len(s) \in Nat /\ DOMAIN s = 1..Len(s) /\ n \in 1..Len(s)
        /\ n \in Nat /\ n - 1 \in Nat /\ n - 1 <= Len(s) /\ n + 1 \in 1..(Len(s) + 1)
    <2>1. Len(s) \in Nat /\ DOMAIN s = 1..Len(s)
      BY <1>2, LenProperties
    <2> DEFINE l == Len(s)
    <2> HIDE DEF l
    <2>2. l \in Nat /\ n \in 1..(l + 1) /\ n <= l
      BY <1>2, <2>1 DEF l
    <2>3. n \in 1..l /\ n \in Nat /\ n - 1 \in Nat /\ n - 1 <= l /\ n + 1 \in 1..(l + 1)
      BY <2>2
    <2> QED
      BY <2>1, <2>3 DEF l
  <1>5. sv[x.id] # None /\ x = FactIn(sv, x.id)
    <2>1. x \in ToSet(s)
      BY <1>4 DEF ToSet
    <2> QED
      BY <1>2, <2>1 DEF Exact
  <1>6. Append(LookedUp(sv, s, n - 1), MigrationFactIn(sv, x.id)) = LookedUp(sv, s, n)
    BY <1>2, <1>4, OneMore
  <1>7. ASSUME j.assets = Append(i.assets, MigrationFactIn(sv, x.id)), j.at = n + 1,
               j.pc = i.pc, j.listed = s, j.mode = i.mode,
               j.selection = i.selection, j.albums = i.albums
        PROVE  QuietAt(sv, mb, j, p)
    <2>1. MigrationOK(sv, j)
      BY <1>3, <1>7 DEF MigrationOK, s
    <2>2. j.assets = LookedUp(sv, s, n) /\ (n + 1) - 1 = n
      BY <1>2, <1>4, <1>6, <1>7
    <2>3. RecheckOK(sv, j)
      BY <1>2, <1>4, <1>7, <2>2 DEF RecheckOK
    <2> QED
      BY <1>7, <2>1, <2>3 DEF QuietAt
  <1> QED
    BY <1>5, <1>7 DEF s, n

\* All was looked up: the assets of a migration are those that are wanted.
LEMMA AllLookedUp ==
    ASSUME NEW sv, NEW i, Typed(i), MigrationOK(sv, i),
           i.assets = LookedUp(sv, i.listed, Len(i.listed))
    PROVE  /\ ToSet(i.assets) = {MigrationFactIn(sv, a) : a \in WantedIn(sv, ToSet(i.selection))}
           /\ Ids(i.assets) = ClosedIn(sv, "timeline")
           /\ IsInjective([k \in DOMAIN i.assets |-> i.assets[k].id])
           /\ \A x \in ToSet(i.assets) : sv[x.id] # None /\ sv[x.id].facts = x.facts
           /\ Len(i.assets) \in Nat /\ DOMAIN i.assets = 1..Len(i.assets)
  <1> DEFINE s == i.listed
             n == Len(s)
             t == i.assets
             S == {MigrationFactIn(sv, a) : a \in Ids(s)}
  <1>1. /\ s \in Seq(Entry) /\ Exact(sv, s) /\ Distinct(s) /\ Ids(s) = ClosedIn(sv, "timeline")
        /\ t = LookedUp(sv, s, n)
    BY DEF Typed, MigrationOK
  <1>2. n \in Nat /\ n <= n /\ DOMAIN s = 1..n
    BY <1>1, LenProperties
  <1> HIDE DEF s, n
  <1>3. IsLookedUp(sv, s, n, t)
    BY <1>1, <1>2, LookedUpFacts DEF n
  <1> HIDE DEF t
  <1>4. /\ t \in Seq(S) /\ Len(t) = n /\ DOMAIN t = 1..n
        /\ \A k \in 1..n : t[k] = MigrationFactIn(sv, s[k].id) /\ s[k].id \in Ids(s)
                           /\ t[k].id = s[k].id
    BY <1>3 DEF IsLookedUp
  <1>5. Ids(t) = Ids(s)
    BY <1>2, <1>4 DEF Ids
  <1>6. ToSet(t) = S
    <2>1. \A x \in ToSet(t) : x \in S
      BY <1>4 DEF ToSet
    <2>2. ASSUME NEW a \in Ids(s) PROVE MigrationFactIn(sv, a) \in ToSet(t)
      <3>1. PICK k \in 1..n : s[k].id = a
        BY <1>2 DEF Ids
      <3> QED
        BY <1>4, <3>1 DEF ToSet
    <2> QED
      BY <2>1, <2>2
  <1>7. WantedIn(sv, ToSet(i.selection)) = Ids(s)
    <2>1. i.selection = <<"timeline">>
      BY DEF MigrationOK
    <2>2. ToSet(<<"timeline">>) = {"timeline"}
      BY DEF ToSet
    <2> QED
      BY <1>1, <2>1, <2>2 DEF WantedIn
  <1>8. IsInjective([k \in DOMAIN t |-> t[k].id])
    BY <1>1, <1>2, <1>4 DEF IsInjective, Distinct
  <1>9. \A x \in ToSet(t) : sv[x.id] # None /\ sv[x.id].facts = x.facts
    <2>1. \A a \in Ids(s) : sv[a] # None
      BY <1>1, IdsFacts DEF IdsOf, Exact
    <2>2. \A a : MigrationFactIn(sv, a).id = a /\ MigrationFactIn(sv, a).facts = sv[a].facts
      BY DEF MigrationFactIn
    <2>3. ASSUME NEW x \in ToSet(t) PROVE sv[x.id] # None /\ sv[x.id].facts = x.facts
      <3>1. PICK a \in Ids(s) : x = MigrationFactIn(sv, a)
        BY <1>6
      <3>2. x.id = a /\ x.facts = sv[a].facts
        BY <2>2, <3>1
      <3> QED
        BY <2>1, <3>2
    <2> QED
      BY <2>3
  <1>10. Len(t) \in Nat /\ DOMAIN t = 1..Len(t)
    BY <1>2, <1>4
  <1>11. ToSet(t) = {MigrationFactIn(sv, a) : a \in WantedIn(sv, ToSet(i.selection))}
    BY <1>6, <1>7
  <1> QED
    BY <1>1, <1>5, <1>8, <1>9, <1>10, <1>11 DEF t

\* Before the first page of an album nothing of it is read.
LEMMA NoAlbumPages ==
    ASSUME NEW sv, NEW mb, World(sv, mb), NEW i, i.page = 1, i.related = {}, NEW b
    PROVE  AlbumPageOK(sv, mb, i, b)
  <1> DEFINE all == Ranked(SelectedIn(sv, "timeline") \cap mb[b])
  <1>1. SelectedIn(sv, "timeline") \cap mb[b] \in SUBSET Assets
    BY WorldFacts
  <1>2. Len(all) \in Nat
    BY <1>1, RankedFacts
  <1> HIDE DEF all
  <1>3. 0 \in Nat /\ 0 = (i.page - 1) * PageSize /\ 0 <= Len(all)
    BY <1>2, InventoryAssumption
  <1>4. i.related = Shown(all, 0)
    BY DEF Shown
  <1> QED
    BY <1>3, <1>4 DEF all, AlbumPageOK

\* The headers of the albums.
LEMMA QuietHeaders ==
    ASSUME NEW sv, NEW mb, World(sv, mb), NEW i, NEW p, NEW j, Typed(i), Typed(j),
           QuietAt(sv, mb, i, p), i.pc = "recheck", i.at > Len(i.listed)
    PROVE  /\ (\/ ~IsInjective([k \in DOMAIN i.assets |-> i.assets[k].id])
               \/ Cardinality(Albums) > MaxAlbums
               \/ \E b \in Albums : Cardinality(mb[b]) > MaxMemberships)
                => RefusableIn(sv, mb, i.mode, ToSet(i.selection), p)
           /\ (/\ j.pc = "albums" /\ j.queue = SetToSeq(Albums) /\ j.page = 1
               /\ j.related = {} /\ j.at = 1 /\ j.listed = i.listed /\ j.mode = i.mode
               /\ j.selection = i.selection /\ j.albums = i.albums /\ j.assets = i.assets)
                => QuietAt(sv, mb, j, p)
  <1>1. MigrationOK(sv, i) /\ RecheckOK(sv, i) /\ i.mode # "archive"
    BY DEF QuietAt, MigrationOK
  <1>2. i.assets = LookedUp(sv, i.listed, Len(i.listed)) /\ i.albums = {}
    <2> DEFINE n == i.at
               l == Len(i.listed)
    <2>1. l \in Nat /\ n \in 1..(l + 1) /\ n > l
      BY <1>1 DEF RecheckOK, Typed
    <2> HIDE DEF n, l
    <2>2. n - 1 = l
      BY <2>1
    <2> QED
      BY <1>1, <2>2 DEF RecheckOK, n, l
  <1>3. IsInjective([k \in DOMAIN i.assets |-> i.assets[k].id])
    BY <1>1, <1>2, AllLookedUp
  <1>4. ASSUME NEW b \in Albums, Cardinality(mb[b]) > MaxMemberships
        PROVE  Memberships({[id |-> c, members |-> mb[c]] : c \in Albums}) > MaxMemberships
    <2> DEFINE M == Memberships({[id |-> c, members |-> mb[c]] : c \in Albums})
    <2>1. Cardinality(mb[b]) <= M /\ Cardinality(mb[b]) \in Nat /\ M \in Nat
      BY OneAlbum DEF World
    <2>2. MaxMemberships \in Nat
      BY SelectionAssumption
    <2> HIDE DEF M
    <2>3. M > MaxMemberships
      BY <1>4, <2>1, <2>2
    <2> QED
      BY <2>3 DEF M
  <1>5. ASSUME \/ Cardinality(Albums) > MaxAlbums
               \/ \E b \in Albums : Cardinality(mb[b]) > MaxMemberships
        PROVE  RefusableIn(sv, mb, i.mode, ToSet(i.selection), p)
    BY <1>1, <1>4, <1>5, Zenon DEF RefusableIn
  <1>6. ASSUME j.pc = "albums", j.queue = SetToSeq(Albums), j.page = 1,
               j.related = {}, j.at = 1, j.listed = i.listed, j.mode = i.mode,
               j.selection = i.selection, j.albums = i.albums, j.assets = i.assets
        PROVE  QuietAt(sv, mb, j, p)
    <2>1. MigrationOK(sv, j)
      BY <1>1, <1>6 DEF MigrationOK
    <2>2. j.queue \in Seq(Albums) /\ IsInjective(j.queue) /\ ToSet(j.queue) = Albums
      BY <1>6, LibraryAssumption, SetToSeqFacts
    <2>3. j.albums = AlbumsIn(sv, mb, Albums \ ToSet(j.queue))
      BY <1>2, <1>6, <2>2 DEF AlbumsIn
    <2>4. AlbumsOK(sv, mb, j)
      BY <1>2, <1>6, <2>2, <2>3, NoAlbumPages DEF AlbumsOK
    <2> QED
      BY <1>6, <2>1, <2>4 DEF QuietAt
  <1> QED
    BY <1>3, <1>5, <1>6

\* The first m members of an album are read after page pg.
ReadTo(sv, mb, i, b, all, pg, m) ==
    /\ (pg - 1) * PageSize + Len(PageOf(all, pg)) = m
    /\ m <= Cardinality(mb[b]) /\ m <= Len(all)
    /\ i.related \cup ToSet(PageOf(all, pg)) = Shown(all, m)
    /\ HasNext(all, pg) => m = ((pg + 1) - 1) * PageSize
    /\ ~HasNext(all, pg) => Shown(all, m) = Inside(sv, mb, b)

\* One more page of the members of an album.
LEMMA AlbumPageStep ==
    ASSUME NEW sv, NEW mb, World(sv, mb), NEW i, NEW b \in Albums, AlbumPageOK(sv, mb, i, b),
           NEW pg \in Nat \ {0}, pg = i.page,
           NEW all, all = Ranked(SelectedIn(sv, "timeline") \cap mb[b])
    PROVE  \E m \in Nat : ReadTo(sv, mb, i, b, all, pg, m)
  <1> DEFINE res == SelectedIn(sv, "timeline") \cap mb[b]
             items == PageOf(all, pg)
  <1>1. /\ res \in SUBSET Assets /\ all = Ranked(res) /\ mb[b] \in SUBSET Assets
        /\ \A a \in res : sv[a] # None
    BY WorldFacts DEF World, SelectedIn
  <1>2. PICK n \in Nat : /\ n = (pg - 1) * PageSize /\ n <= Len(all)
                         /\ i.related = Shown(all, n)
    BY DEF AlbumPageOK
  <1>3. res \in SUBSET mb[b] /\ res = Inside(sv, mb, b)
    BY DEF Inside
  <1> HIDE DEF res, items
  <1>4. all \in Seq(res) /\ Len(all) = Cardinality(res) /\ Len(all) \in Nat
    BY <1>1, RankedFacts
  <1>5. PICK m \in Nat : UpTo(res, all, pg, n, m)
    BY <1>2, <1>4, PageGoesOn
  <1>6. n <= m /\ m <= Len(all) /\ Len(items) = m - n
    BY <1>5 DEF UpTo, Continues, items
  <1>7. Shown(all, m) = Shown(all, n) \cup ToSet(items)
    <2>1. Joined(sv, all, PageOf(all, pg), n, m)
      BY <1>1, <1>4, <1>5, PageStep
    <2> QED
      BY <2>1, Zenon DEF items, Joined
  <1>8. Cardinality(res) <= Cardinality(mb[b]) /\ Cardinality(mb[b]) \in Nat
    BY <1>1, <1>3, InventoryAssumption, FS_Subset, FS_CardinalityType
  <1>9. n + Len(items) = m /\ m <= Cardinality(mb[b])
    <2> DEFINE x == Len(items)
               y == Cardinality(mb[b])
               z == Len(all)
    <2>1. x = m - n /\ y \in Nat /\ z \in Nat /\ m <= z /\ z <= y
      BY <1>4, <1>6, <1>8
    <2> HIDE DEF x, y, z
    <2>2. n + x = m /\ m <= y
      BY <2>1
    <2> QED
      BY <2>2 DEF x, y
  <1>10. HasNext(all, pg) => m = ((pg + 1) - 1) * PageSize
    BY <1>5 DEF UpTo
  <1>11. ~HasNext(all, pg) => Shown(all, m) = res
    <2> SUFFICES ASSUME ~HasNext(all, pg) PROVE Shown(all, m) = res
      OBVIOUS
    <2>1. m = Len(all)
      BY <1>5 DEF UpTo
    <2>2. Shown(all, Len(all)) = res
      BY <1>1, WholeResult
    <2> QED
      BY <2>1, <2>2
  <1>12. (pg - 1) * PageSize + Len(items) = m
    BY <1>2, <1>9
  <1>13. i.related \cup ToSet(items) = Shown(all, m)
    BY <1>2, <1>7
  <1> QED
    BY <1>3, <1>6, <1>9, <1>10, <1>11, <1>12, <1>13 DEF ReadTo, items

\* The albums that are read have members of the library only.
LEMMA ReadMemberships ==
    ASSUME NEW sv, NEW mb, World(sv, mb), NEW bs \in SUBSET Albums,
           Memberships(AlbumsIn(sv, mb, bs)) > MaxMemberships
    PROVE  Memberships({[id |-> c, members |-> mb[c]] : c \in Albums}) > MaxMemberships
  <1> DEFINE S == AlbumsIn(sv, mb, bs)
             T == {[id |-> c, members |-> mb[c]] : c \in Albums}
             x == Memberships(S)
             y == Memberships(T)
  <1>0. ASSUME NEW e \in S
        PROVE  \E g \in T : e.id = g.id /\ e.members \subseteq g.members
    <2>1. PICK c \in bs : e = [id |-> c, members |-> Inside(sv, mb, c)]
      BY DEF AlbumsIn
    <2>2. [id |-> c, members |-> mb[c]] \in T
      OBVIOUS
    <2>3. e.id = c /\ e.members \subseteq mb[c]
      BY <2>1 DEF Inside
    <2> QED
      BY <2>2, <2>3
  <1> HIDE DEF S, T
  <1>1. x \in Nat /\ y \in Nat /\ x <= y
    BY <1>0, MembershipsGrow
  <1>2. MaxMemberships \in Nat /\ x > MaxMemberships
    BY SelectionAssumption DEF S
  <1> HIDE DEF x, y
  <1>3. y > MaxMemberships
    BY <1>1, <1>2
  <1> QED
    BY <1>3 DEF y, T

\* The albums bs and one more, if it has members in the library.
WithAlbum(sv, mb, bs, b) ==
    IF Inside(sv, mb, b) = {} THEN AlbumsIn(sv, mb, bs)
    ELSE AlbumsIn(sv, mb, bs) \cup {[id |-> b, members |-> Inside(sv, mb, b)]}

\* One more album is read.
LEMMA OneMoreAlbum ==
    ASSUME NEW sv, NEW mb, NEW bs, NEW b
    PROVE  WithAlbum(sv, mb, bs, b) = AlbumsIn(sv, mb, bs \cup {b})
  <1> DEFINE f(c) == [id |-> c, members |-> Inside(sv, mb, c)]
             N(c) == Inside(sv, mb, c) # {}
  <1>1. WithAlbum(sv, mb, bs, b) = IF N(b) THEN {f(c) : c \in {d \in bs : N(d)}} \cup {f(b)}
                                   ELSE {f(c) : c \in {d \in bs : N(d)}}
    BY DEF AlbumsIn, WithAlbum
  <1>2. AlbumsIn(sv, mb, bs \cup {b}) = {f(c) : c \in {d \in bs \cup {b} : N(d)}}
    BY DEF AlbumsIn
  <1> HIDE DEF f, N
  <1> QED
    BY <1>1, <1>2

\* A page of an album: more of its members, or all of them.
LEMMA QuietAlbumPage ==
    ASSUME NEW sv, NEW mb, World(sv, mb), NEW i, NEW p, NEW j, Typed(i), Typed(j),
           QuietAt(sv, mb, i, p), i.pc = "albums", i.queue # <<>>,
           NEW pg, pg = i.page, NEW b, b = Head(i.queue),
           NEW all, all = Ranked(SelectedIn(sv, "timeline") \cap mb[b]),
           NEW seen, seen = i.related \cup ToSet(PageOf(all, pg)),
           NEW albums, albums = IF seen \cap Ids(i.assets) = {} THEN i.albums
               ELSE i.albums \cup {[id |-> b, members |-> seen \cap Ids(i.assets)]},
           j.pc = i.pc => /\ j.mode = i.mode /\ j.selection = i.selection
                          /\ j.listed = i.listed /\ j.assets = i.assets /\ j.at = i.at
    PROVE  /\ (pg - 1) * PageSize + Len(PageOf(all, pg)) > MaxMemberships
                => RefusableIn(sv, mb, i.mode, ToSet(i.selection), p)
           /\ (HasNext(all, pg) /\ j.pc = i.pc /\ j.related = seen /\ j.page = pg + 1
                 /\ j.albums = i.albums /\ j.queue = i.queue)
                => QuietAt(sv, mb, j, p)
           /\ (~HasNext(all, pg) /\ Memberships(albums) > MaxMemberships)
                => RefusableIn(sv, mb, i.mode, ToSet(i.selection), p)
           /\ (~HasNext(all, pg) /\ j.pc = i.pc /\ j.related = {} /\ j.page = 1
                 /\ j.albums = albums /\ j.queue = Tail(i.queue))
                => QuietAt(sv, mb, j, p)
  <1> DEFINE q == i.queue
             M == Memberships({[id |-> c, members |-> mb[c]] : c \in Albums})
  <1>1. MigrationOK(sv, i) /\ AlbumsOK(sv, mb, i) /\ i.mode # "archive"
    BY DEF QuietAt, MigrationOK
  <1>2. /\ i.assets = LookedUp(sv, i.listed, Len(i.listed))
        /\ q \in Seq(Albums) /\ IsInjective(q) /\ i.at \in Nat \ {0}
        /\ i.albums = AlbumsIn(sv, mb, Albums \ ToSet(q))
        /\ AlbumPageOK(sv, mb, i, b)
    BY <1>1 DEF AlbumsOK
  <1>3. /\ b \in Albums /\ b \in ToSet(q) /\ Tail(q) \in Seq(Albums)
        /\ IsInjective(Tail(q)) /\ ToSet(Tail(q)) = ToSet(q) \ {b}
    BY <1>2, TailFacts
  <1>4. pg \in Nat \ {0}
    BY DEF Typed
  <1>5. PICK m \in Nat : ReadTo(sv, mb, i, b, all, pg, m)
    BY <1>2, <1>3, <1>4, AlbumPageStep
  <1>6. /\ (pg - 1) * PageSize + Len(PageOf(all, pg)) = m /\ m <= Cardinality(mb[b])
        /\ m <= Len(all) /\ seen = Shown(all, m)
        /\ HasNext(all, pg) => m = ((pg + 1) - 1) * PageSize
        /\ ~HasNext(all, pg) => seen = Inside(sv, mb, b)
    BY <1>5 DEF ReadTo
  <1>7. Ids(i.assets) = ClosedIn(sv, "timeline")
    BY <1>1, <1>2, AllLookedUp
  <1>8. ASSUME M > MaxMemberships PROVE RefusableIn(sv, mb, i.mode, ToSet(i.selection), p)
    BY <1>1, <1>8, Zenon DEF RefusableIn
  <1>9. ASSUME (pg - 1) * PageSize + Len(PageOf(all, pg)) > MaxMemberships
        PROVE  M > MaxMemberships
    <2> DEFINE y == Cardinality(mb[b])
    <2>1. y <= M /\ y \in Nat /\ M \in Nat
      BY <1>3, OneAlbum DEF World
    <2>2. MaxMemberships \in Nat /\ m > MaxMemberships /\ m <= y
      BY <1>6, <1>9, SelectionAssumption
    <2> HIDE DEF M, y
    <2> QED
      BY <2>1, <2>2
  <1>10. ASSUME HasNext(all, pg), j.pc = i.pc, j.related = seen, j.page = pg + 1,
                j.albums = i.albums, j.queue = i.queue
         PROVE  QuietAt(sv, mb, j, p)
    <2>1. AlbumPageOK(sv, mb, j, b)
      <3>1. m = (j.page - 1) * PageSize /\ m <= Len(all) /\ j.related = Shown(all, m)
        BY <1>6, <1>10
      <3> QED
        BY <3>1 DEF AlbumPageOK
    <2>2. AlbumsOK(sv, mb, j)
      BY <1>2, <1>10, <2>1 DEF AlbumsOK
    <2>3. MigrationOK(sv, j)
      BY <1>1, <1>10 DEF MigrationOK
    <2> QED
      BY <1>10, <2>2, <2>3 DEF QuietAt
  <1>11. ASSUME ~HasNext(all, pg)
         PROVE  albums = AlbumsIn(sv, mb, Albums \ ToSet(Tail(q)))
    <2>1. seen \cap Ids(i.assets) = Inside(sv, mb, b)
      BY <1>6, <1>7, <1>11 DEF Inside, ClosedIn
    <2>2. (Albums \ ToSet(q)) \cup {b} = Albums \ ToSet(Tail(q))
      BY <1>3
    <2>3. albums = AlbumsIn(sv, mb, (Albums \ ToSet(q)) \cup {b})
      <3> DEFINE bs == Albums \ ToSet(q)
      <3>1. albums = WithAlbum(sv, mb, bs, b)
        BY <1>2, <2>1 DEF WithAlbum
      <3>2. WithAlbum(sv, mb, bs, b) = AlbumsIn(sv, mb, bs \cup {b})
        BY OneMoreAlbum, Zenon
      <3> QED
        BY <3>1, <3>2
    <2> QED
      BY <2>2, <2>3
  <1>12. ASSUME ~HasNext(all, pg), Memberships(albums) > MaxMemberships
         PROVE  M > MaxMemberships
    <2> DEFINE bs == Albums \ ToSet(Tail(q))
    <2>1. bs \in SUBSET Albums
      OBVIOUS
    <2>2. Memberships(AlbumsIn(sv, mb, bs)) > MaxMemberships
      BY <1>11, <1>12
    <2> HIDE DEF bs
    <2> QED
      BY <2>1, <2>2, ReadMemberships
  <1>13. ASSUME ~HasNext(all, pg), j.pc = i.pc, j.related = {}, j.page = 1,
                j.albums = albums, j.queue = Tail(i.queue)
         PROVE  QuietAt(sv, mb, j, p)
    <2>1. AlbumsOK(sv, mb, j)
      BY <1>2, <1>3, <1>11, <1>13, NoAlbumPages DEF AlbumsOK
    <2>2. MigrationOK(sv, j)
      BY <1>1, <1>13 DEF MigrationOK
    <2> QED
      BY <1>13, <2>1, <2>2 DEF QuietAt
  <1> QED
    BY <1>8, <1>9, <1>10, <1>12, <1>13

\* No original differs from what was listed.
LEMMA QuietVerify ==
    ASSUME NEW sv, NEW mb, World(sv, mb), NEW i, NEW p, NEW j, Typed(i), Typed(j),
           QuietAt(sv, mb, i, p), i.pc = "albums", i.queue = <<>>, i.at <= Len(i.assets),
           NEW x, x = i.assets[i.at]
    PROVE  /\ sv[x.id] # None /\ sv[x.id].facts = x.facts
           /\ (/\ j.pc = i.pc /\ j.mode = i.mode /\ j.selection = i.selection
               /\ j.listed = i.listed /\ j.assets = i.assets /\ j.at = i.at + 1
               /\ j.albums = i.albums /\ j.queue = i.queue)
                => QuietAt(sv, mb, j, p)
  <1>1. MigrationOK(sv, i) /\ AlbumsOK(sv, mb, i)
    BY DEF QuietAt
  <1>2. /\ i.assets = LookedUp(sv, i.listed, Len(i.listed)) /\ i.at \in Nat \ {0}
    BY <1>1 DEF AlbumsOK
  <1>3. /\ \A y \in ToSet(i.assets) : sv[y.id] # None /\ sv[y.id].facts = y.facts
        /\ Len(i.assets) \in Nat /\ DOMAIN i.assets = 1..Len(i.assets)
    BY <1>1, <1>2, AllLookedUp
  <1>4. x \in ToSet(i.assets)
    <2>1. i.at \in 1..Len(i.assets)
      BY <1>2, <1>3
    <2> QED
      BY <1>3, <2>1 DEF ToSet
  <1>5. ASSUME j.pc = i.pc, j.mode = i.mode, j.selection = i.selection,
               j.listed = i.listed, j.assets = i.assets, j.at = i.at + 1,
               j.albums = i.albums, j.queue = i.queue
        PROVE  QuietAt(sv, mb, j, p)
    <2>1. j.at \in Nat \ {0}
      BY <1>2, <1>5
    <2>2. AlbumsOK(sv, mb, j)
      BY <1>1, <1>5, <2>1 DEF AlbumsOK
    <2>3. MigrationOK(sv, j)
      BY <1>1, <1>5 DEF MigrationOK
    <2> QED
      BY <1>5, <2>2, <2>3 DEF QuietAt
  <1> QED
    BY <1>3, <1>4, <1>5

\* The video of an image has the role that the image names.
LEMMA RolesMatch ==
    ASSUME NEW X, RolesValid(X), NEW x \in X, x.live # None
    PROVE  \E y \in X : Role(y, X) = [kind |-> "video", pair |-> Role(x, X).pair]
  <1>1. PICK y \in X : y.id = x.live /\ y.live = None
    BY DEF RolesValid
  <1>2. \A z \in X : z.live = y.id => z = x
    BY <1>1 DEF RolesValid
  <1> DEFINE w == CHOOSE z \in X : z.live = y.id
  <1>3. w = x
    <2>1. w \in X /\ w.live = y.id
      BY <1>1
    <2> QED
      BY <1>2, <2>1
  <1> HIDE DEF w
  <1>4. Role(y, X) = [kind |-> "video", pair |-> <<w.id, y.id>>]
    BY <1>1 DEF Role, w
  <1>5. Role(x, X) = [kind |-> "image", pair |-> <<x.id, x.live>>]
    BY DEF Role
  <1>6. Role(x, X).pair = <<x.id, x.live>>
    BY <1>5
  <1>7. Role(y, X) = [kind |-> "video", pair |-> Role(x, X).pair]
    BY <1>1, <1>3, <1>4, <1>6
  <1> QED
    BY <1>7

\* A plan of valid roles and albums of different names is valid.
LEMMA PlanIsValid ==
    ASSUME NEW sv, NEW mb, NEW X,
           \A a \in SelectedIn(sv, "timeline") : \E x \in X : x.id = a,
           RolesValid(X), \A b, c \in Albums : AlbumName[b] = AlbumName[c] => b = c
    PROVE  PlanValid(MigrationPlan(X, AlbumsIn(sv, mb, Albums)), AlbumsIn(sv, mb, Albums))
  <1> DEFINE B == AlbumsIn(sv, mb, Albums)
             p == MigrationPlan(X, B)
             f(c) == [id |-> c, members |-> Inside(sv, mb, c)]
             g(x) == [id |-> x.id, facts |-> x.facts, meta |-> x.meta, role |-> Role(x, X)]
  <1>1. B = {f(c) : c \in {d \in Albums : Inside(sv, mb, d) # {}}}
    BY DEF AlbumsIn
  <1>2. p.assets = {g(x) : x \in X} /\ p.albums = PlannedAlbums(B)
    BY DEF MigrationPlan
  <1>3. \A c : f(c).id = c /\ f(c).members = Inside(sv, mb, c)
    OBVIOUS
  <1>4. \A x : g(x).id = x.id /\ g(x).role = Role(x, X)
    OBVIOUS
  <1> HIDE DEF B, p, f, g
  <1>5. \A b \in B : /\ b.id \in Albums /\ b = f(b.id) /\ b.members = Inside(sv, mb, b.id)
                     /\ b.members # {}
    BY <1>1, <1>3
  <1>6. \A b, c \in B : AlbumName[b.id] = AlbumName[c.id] => b = c
    <2> SUFFICES ASSUME NEW b \in B, NEW c \in B, AlbumName[b.id] = AlbumName[c.id]
                 PROVE  b = c
      OBVIOUS
    <2>1. b.id = c.id
      BY <1>5
    <2> QED
      BY <1>5, <2>1
  <1>7. ASSUME NEW d \in p.albums
        PROVE  d.members # {} /\ d.members \subseteq {x.id : x \in p.assets}
    <2>1. PICK b \in B : d = [name |-> AlbumName[b.id], members |-> b.members]
      BY <1>2, <1>7 DEF PlannedAlbums
    <2>2. d.members = b.members
      BY <2>1
    <2>3. d.members = Inside(sv, mb, b.id) /\ d.members # {}
      BY <1>5, <2>2
    <2>4. ASSUME NEW a \in d.members PROVE a \in {x.id : x \in p.assets}
      <3>1. a \in SelectedIn(sv, "timeline")
        BY <2>3, <2>4 DEF Inside
      <3>2. PICK x \in X : x.id = a
        BY <3>1
      <3>3. g(x) \in p.assets /\ g(x).id = a
        BY <1>2, <1>4, <3>2
      <3> QED
        BY <3>3
    <2> QED
      BY <2>3, <2>4
  <1>8. ASSUME NEW y \in p.assets, y.role.kind = "image"
        PROVE  \E z \in p.assets : z.role = [kind |-> "video", pair |-> y.role.pair]
    <2>1. PICK x \in X : y = g(x)
      BY <1>2, <1>8
    <2>2. y.role = Role(x, X)
      BY <1>4, <2>1
    <2>3. x.live # None
      BY <1>8, <2>2 DEF Role
    <2>4. PICK w \in X : Role(w, X) = [kind |-> "video", pair |-> Role(x, X).pair]
      BY <2>3, RolesMatch
    <2>5. g(w) \in p.assets /\ g(w).role = [kind |-> "video", pair |-> y.role.pair]
      BY <1>2, <1>4, <2>2, <2>4
    <2> QED
      BY <2>5
  <1>9. PlanValid(p, B)
    BY <1>6, <1>7, <1>8 DEF PlanValid
  <1> QED
    BY <1>9 DEF p, B

\* The plan of a library that holds still is what the server holds; it is
\* refused only for a reason.
LEMMA QuietAssemble ==
    ASSUME NEW sv, NEW mb, World(sv, mb), NEW i, NEW p, Typed(i),
           QuietAt(sv, mb, i, p), i.pc = "albums", i.queue = <<>>,
           NEW new, new = MigrationPlan(ToSet(i.assets), i.albums)
    PROVE  /\ new = ReferenceIn(sv, mb, i.mode, ToSet(i.selection))
           /\ (\/ ~RolesValid(ToSet(i.assets)) \/ ~PlanValid(new, i.albums)
               \/ i.mode = "verify" /\ new # p)
                => RefusableIn(sv, mb, i.mode, ToSet(i.selection), p)
  <1> DEFINE W == WantedIn(sv, ToSet(i.selection))
             X == {MigrationFactIn(sv, a) : a \in W}
             B == AlbumsIn(sv, mb, Albums)
  <1>1. MigrationOK(sv, i) /\ AlbumsOK(sv, mb, i) /\ i.mode # "archive"
        /\ i.selection = <<"timeline">>
    BY DEF QuietAt, MigrationOK
  <1>2. ToSet(i.assets) = X
    BY <1>1, AllLookedUp DEF AlbumsOK
  <1>3. i.albums = B
    <2>1. ToSet(<<>>) = {}
      BY DEF ToSet
    <2>2. Albums \ {} = Albums
      OBVIOUS
    <2>3. i.albums = AlbumsIn(sv, mb, Albums \ ToSet(i.queue))
      BY <1>1 DEF AlbumsOK
    <2> QED
      BY <2>1, <2>2, <2>3
  <1>4. new = ReferenceIn(sv, mb, i.mode, ToSet(i.selection))
    BY <1>1, <1>2, <1>3 DEF ReferenceIn
  <1>5. \A a \in SelectedIn(sv, "timeline") : \E x \in X : x.id = a
    <2>1. ToSet(<<"timeline">>) = {"timeline"}
      BY DEF ToSet
    <2>2. \A a \in SelectedIn(sv, "timeline") : a \in W
      BY <1>1, <2>1 DEF WantedIn, ClosedIn
    <2>3. \A a : MigrationFactIn(sv, a).id = a
      BY DEF MigrationFactIn
    <2> HIDE DEF W
    <2> QED
      BY <2>2, <2>3
  <1> HIDE DEF X, B
  <1>6. ASSUME RolesValid(X), ~(\E b, c \in Albums : b # c /\ AlbumName[b] = AlbumName[c])
        PROVE  PlanValid(new, i.albums)
    <2>1. \A b, c \in Albums : AlbumName[b] = AlbumName[c] => b = c
      BY <1>6
    <2>2. PlanValid(MigrationPlan(X, AlbumsIn(sv, mb, Albums)), AlbumsIn(sv, mb, Albums))
      BY <1>5, <1>6, <2>1, PlanIsValid
    <2> QED
      BY <1>2, <1>3, <2>2, Zenon DEF B
  <1>7. ASSUME \/ ~RolesValid(X) \/ \E b, c \in Albums : b # c /\ AlbumName[b] = AlbumName[c]
               \/ i.mode = "verify" /\ p # ReferenceIn(sv, mb, i.mode, ToSet(i.selection))
        PROVE  RefusableIn(sv, mb, i.mode, ToSet(i.selection), p)
    BY <1>1, <1>7, Zenon DEF RefusableIn, X, W
  <1> QED
    BY <1>2, <1>4, <1>6, <1>7, Zenon

-----------------------------------------------------------------------------
(* The actions of an inventory while the server holds still *)

\* The state of an inventory as the values above.
LEMMA QuietState ==
    ASSUME PlanningOK, MembersOK
    PROVE  World(server, members) /\ Typed(inv)
  BY DEF PlanningOK, ServerOK, ListingOK, MembersOK, World, Typed

\* And after a step.
LEMMA QuietNextState ==
    ASSUME PlanningOK'
    PROVE  Typed(inv')
  BY DEF PlanningOK, ListingOK, Typed

\* The definitions of the model are those above, of the state.
LEMMA InState ==
    /\ \A v : Selected(v) = SelectedIn(server, v)
    /\ \A v : Visible(v) = Ranked(SelectedIn(server, v))
    /\ \A b : InAlbum(b) = Ranked(SelectedIn(server, "timeline") \cap members[b])
    /\ \A as : Links(as) = LinksIn(server, as)
    /\ \A a : Fact(a) = FactIn(server, a) /\ MigrationFact(a) = MigrationFactIn(server, a)
    /\ \A items : [k \in DOMAIN items |-> Fact(items[k])] = Entries(server, items)
  BY DEF Selected, SelectedIn, Visible, InAlbum, Links, LinksIn, Fact, FactIn,
         MigrationFact, MigrationFactIn, Entries

\* An inventory that gives up.
LEMMA QuietFail ==
    ASSUME PlanningOK, Fail, RefusableIn(server, members, inv.mode, ToSet(inv.selection), plan)
    PROVE  QuietAt(server', members', inv', plan')
  <1>1. DOMAIN inv = InvFields
    BY DEF PlanningOK, ListingOK
  <1>2. inv' = [inv EXCEPT !.pc = "failed"] /\ UNCHANGED <<server, members, plan>>
    BY DEF Fail, Step
  <1>3. inv'.pc = "failed" /\ inv'.mode = inv.mode /\ inv'.selection = inv.selection
    BY <1>1, <1>2 DEF InvFields
  <1>4. QuietAt(server, members, inv', plan)
    BY <1>3, QuietFails
  <1> QED
    BY <1>2, <1>4

\* A page of a search.
LEMMA QuietListPage ==
    ASSUME PlanningOK, PlanningOK', MembersOK, QuietAt(server, members, inv, plan),
           ListPage
    PROVE  QuietAt(server', members', inv', plan')
  <1> DEFINE pg == inv.page
             all == Ranked(SelectedIn(server, Head(inv.vis)))
             items == PageOf(all, pg)
             found == LinksIn(server, ToSet(items))
             more == HasNext(all, pg)
             over == Len(all) > MaxAssets - Len(inv.collected)
                       \/ Len(inv.listed) + Len(items) > MaxAssets - Len(inv.collected)
  <1>1. World(server, members) /\ Typed(inv) /\ Typed(inv') /\ inv.pc = "page"
    BY QuietState, QuietNextState DEF ListPage
  <1>2. DOMAIN inv = InvFields
    BY <1>1 DEF Typed
  <1>3. IF over THEN Fail
        ELSE Step([inv EXCEPT
                !.listed = @ \o Entries(server, items),
                !.related = @ \cup found,
                !.links = @ \cup found,
                !.pc = IF more THEN "page" ELSE "related",
                !.page = IF more THEN @ + 1 ELSE 1])
    BY InState, Zenon DEF ListPage, Limit
  <1>4. CASE over
    <2>1. Weight(server, ToSet(inv.selection)) >= MaxAssets
      BY <1>1, <1>4, PageRefused DEF QuietAt
    <2>2. RefusableIn(server, members, inv.mode, ToSet(inv.selection), plan)
      BY <2>1 DEF RefusableIn
    <2> QED
      BY <1>3, <1>4, <2>2, QuietFail
  <1>5. CASE ~over
    <2> DEFINE joined == inv.listed \o Entries(server, items)
    <2> HIDE DEF over, more, found, joined
    <2>1. /\ inv' = [inv EXCEPT !.listed = joined, !.related = inv.related \cup found,
                             !.links = inv.links \cup found,
                             !.pc = IF more THEN "page" ELSE "related",
                             !.page = IF more THEN pg + 1 ELSE 1]
          /\ UNCHANGED <<server, members, plan>>
      BY <1>3, <1>5 DEF Step, joined
    <2> HIDE DEF pg, all, items
    <2>2. /\ inv'.listed = joined /\ inv'.related = inv.related \cup found
          /\ inv'.pc = (IF more THEN "page" ELSE "related")
          /\ inv'.page = (IF more THEN pg + 1 ELSE 1)
          /\ inv'.mode = inv.mode /\ inv'.vis = inv.vis /\ inv'.selection = inv.selection
          /\ inv'.collected = inv.collected /\ inv'.assets = inv.assets
          /\ inv'.albums = inv.albums
      BY <1>2, <2>1 DEF InvFields
    <2>3. QuietAt(server, members, inv', plan)
      BY <1>1, <2>2, QuietPage DEF joined, found, more, items, pg, all
    <2> QED
      BY <2>1, <2>3
  <1> QED
    BY <1>4, <1>5

\* A video that no page showed.
LEMMA QuietFetch ==
    ASSUME PlanningOK, PlanningOK', MembersOK, QuietAt(server, members, inv, plan),
           FetchRelated
    PROVE  QuietAt(server', members', inv', plan')
  <1> DEFINE a == Min(Unlisted)
             over == Len(inv.listed) >= MaxAssets - Len(inv.collected) \/ server[a] = None
  <1>1. World(server, members) /\ Typed(inv) /\ Typed(inv') /\ inv.pc = "related"
    BY QuietState, QuietNextState DEF FetchRelated
  <1>2. DOMAIN inv = InvFields
    BY <1>1 DEF Typed
  <1>3. a \in inv.related \ Ids(inv.listed)
    <2>1. Unlisted \in SUBSET Nat /\ Unlisted # {}
      BY <1>1, InventoryAssumption DEF FetchRelated, Unlisted, PlanningOK, ListingOK
    <2>2. a \in Unlisted
      BY <2>1, MinFacts
    <2> QED
      BY <2>2 DEF Unlisted
  <1>4. IF over THEN Fail ELSE Step([inv EXCEPT !.listed = Append(@, FactIn(server, a))])
    BY InState, Zenon DEF FetchRelated, Limit
  <1> HIDE DEF a
  <1>5. CASE over
    <2>1. RefusableIn(server, members, inv.mode, ToSet(inv.selection), plan)
      BY <1>1, <1>3, <1>5, QuietRelated
    <2> QED
      BY <1>4, <1>5, <2>1, QuietFail
  <1>6. CASE ~over
    <2> DEFINE more == Append(inv.listed, FactIn(server, a))
    <2>1. server[a] # None
      BY <1>6
    <2> HIDE DEF over, more
    <2>2. inv' = [inv EXCEPT !.listed = more] /\ UNCHANGED <<server, members, plan>>
      BY <1>4, <1>6 DEF Step, more
    <2>3. /\ inv'.listed = more /\ inv'.pc = inv.pc /\ inv'.related = inv.related
          /\ inv'.page = inv.page /\ inv'.mode = inv.mode /\ inv'.vis = inv.vis
          /\ inv'.selection = inv.selection /\ inv'.collected = inv.collected
          /\ inv'.assets = inv.assets /\ inv'.albums = inv.albums
      BY <1>2, <2>2 DEF InvFields
    <2>4. QuietAt(server, members, inv', plan)
      BY <1>1, <1>3, <2>1, <2>3, QuietRelated DEF more
    <2> QED
      BY <2>2, <2>4
  <1> QED
    BY <1>5, <1>6

\* The end of a visibility.
LEMMA QuietListingOver ==
    ASSUME PlanningOK, PlanningOK', MembersOK, QuietAt(server, members, inv, plan),
           ListingOver
    PROVE  QuietAt(server', members', inv', plan')
  <1> DEFINE collected == inv.collected \o inv.listed
  <1>1. /\ World(server, members) /\ Typed(inv) /\ Typed(inv') /\ inv.pc = "related"
        /\ inv.related \ Ids(inv.listed) = {}
    BY QuietState, QuietNextState DEF ListingOver, Unlisted
  <1>2. DOMAIN inv = InvFields
    BY <1>1 DEF Typed
  <1>3. /\ inv.mode # "archive" => Step([inv EXCEPT !.pc = "recheck", !.at = 1])
        /\ (inv.mode = "archive" /\ Len(inv.vis) > 1) =>
              IF Len(collected) >= MaxAssets THEN Fail
              ELSE Step([inv EXCEPT !.pc = "page", !.vis = Tail(@), !.listed = <<>>,
                                    !.related = {}, !.collected = collected])
        /\ (inv.mode = "archive" /\ ~(Len(inv.vis) > 1)) =>
              IF FactsChanged(collected) THEN Fail
              ELSE /\ plan' = [mode |-> "archive", assets |-> ToSet(collected)]
                   /\ inv' = [inv EXCEPT !.pc = "planned"]
                   /\ UNCHANGED <<server, members, touched, changes, failures>>
    BY DEF ListingOver
  <1>4. CASE inv.mode # "archive"
    <2>1. inv' = [inv EXCEPT !.pc = "recheck", !.at = 1] /\ UNCHANGED <<server, members, plan>>
      BY <1>3, <1>4 DEF Step
    <2>2. /\ inv'.pc = "recheck" /\ inv'.at = 1 /\ inv'.listed = inv.listed
          /\ inv'.mode = inv.mode /\ inv'.selection = inv.selection
          /\ inv'.assets = inv.assets /\ inv'.albums = inv.albums
      BY <1>2, <2>1 DEF InvFields
    <2>3. QuietAt(server, members, inv', plan)
      BY <1>1, <1>4, <2>2, QuietListed
    <2> QED
      BY <2>1, <2>3
  <1>5. CASE inv.mode = "archive" /\ Len(inv.vis) > 1 /\ Len(collected) >= MaxAssets
    <2> DEFINE v == Head(inv.vis)
               w == Weight(server, ToSet(inv.selection))
               l == Len(collected)
    <2>1. l <= w /\ w \in Nat /\ l \in Nat
      BY <1>1, VisibilityOver
    <2>2. l >= MaxAssets /\ MaxAssets \in Nat
      BY <1>5, InventoryAssumption
    <2>3. w >= MaxAssets
      <3> HIDE DEF w, l
      <3> QED
        BY <2>1, <2>2
    <2>4. RefusableIn(server, members, inv.mode, ToSet(inv.selection), plan)
      BY <2>3 DEF RefusableIn
    <2> QED
      BY <1>3, <1>5, <2>4, QuietFail
  <1>6. CASE inv.mode = "archive" /\ Len(inv.vis) > 1 /\ ~(Len(collected) >= MaxAssets)
    <2> HIDE DEF collected
    <2>1. /\ inv' = [inv EXCEPT !.pc = "page", !.vis = Tail(inv.vis), !.listed = <<>>,
                                !.related = {}, !.collected = collected]
          /\ UNCHANGED <<server, members, plan>>
      BY <1>3, <1>6 DEF Step
    <2>2. /\ inv'.pc = "page" /\ inv'.vis = Tail(inv.vis) /\ inv'.listed = <<>>
          /\ inv'.related = {} /\ inv'.collected = collected /\ inv'.page = inv.page
          /\ inv'.mode = inv.mode /\ inv'.selection = inv.selection
          /\ inv'.assets = inv.assets /\ inv'.albums = inv.albums
      BY <1>2, <2>1 DEF InvFields
    <2>3. QuietAt(server, members, inv', plan)
      BY <1>1, <1>6, <2>2, QuietNextVisibility DEF collected
    <2> QED
      BY <2>1, <2>3
  <1>7. CASE inv.mode = "archive" /\ ~(Len(inv.vis) > 1)
    <2>1. /\ ~FactsChanged(collected)
          /\ [mode |-> "archive", assets |-> ToSet(collected)]
                = ReferenceIn(server, members, "archive", ToSet(inv.selection))
      BY <1>1, <1>7, QuietManifest
    <2>2. /\ plan' = ReferenceIn(server, members, "archive", ToSet(inv.selection))
          /\ inv' = [inv EXCEPT !.pc = "planned"] /\ UNCHANGED <<server, members>>
      BY <1>3, <1>7, <2>1
    <2>3. inv'.pc = "planned" /\ inv'.mode = "archive" /\ inv'.selection = inv.selection
      BY <1>2, <1>7, <2>2 DEF InvFields
    <2>4. QuietAt(server, members, inv', plan')
      BY <2>2, <2>3 DEF QuietAt
    <2> QED
      BY <2>2, <2>4
  <1> QED
    BY <1>4, <1>5, <1>6, <1>7

\* The lookups of a migration never fail here.
LEMMA QuietRecheckStep ==
    ASSUME PlanningOK, PlanningOK', MembersOK, QuietAt(server, members, inv, plan), Recheck
    PROVE  QuietAt(server', members', inv', plan')
  <1> DEFINE x == inv.listed[inv.at]
             a == x.id
  <1>1. /\ World(server, members) /\ Typed(inv) /\ Typed(inv')
        /\ inv.pc = "recheck" /\ inv.at <= Len(inv.listed)
    BY QuietState, QuietNextState DEF Recheck
  <1>2. DOMAIN inv = InvFields
    BY <1>1 DEF Typed
  <1>3. server[a] # None /\ x = FactIn(server, a)
    BY <1>1, QuietRecheck
  <1>4. Step([inv EXCEPT !.assets = Append(@, MigrationFactIn(server, a)), !.at = @ + 1])
    BY <1>3, InState, Zenon DEF Recheck
  <1> DEFINE more == Append(inv.assets, MigrationFactIn(server, a))
  <1> HIDE DEF a, x, more
  <1>5. /\ inv' = [inv EXCEPT !.assets = more, !.at = inv.at + 1]
        /\ UNCHANGED <<server, members, plan>>
    BY <1>4 DEF Step, more
  <1>6. /\ inv'.assets = more /\ inv'.at = inv.at + 1 /\ inv'.pc = inv.pc
        /\ inv'.listed = inv.listed /\ inv'.mode = inv.mode
        /\ inv'.selection = inv.selection /\ inv'.albums = inv.albums
    BY <1>2, <1>5 DEF InvFields
  <1>7. QuietAt(server, members, inv', plan)
    BY <1>1, <1>6, QuietRecheck DEF more, a, x
  <1> QED
    BY <1>5, <1>7

\* The headers of the albums are refused for a reason.
LEMMA QuietHeadersStep ==
    ASSUME PlanningOK, PlanningOK', MembersOK, QuietAt(server, members, inv, plan), AlbumHeaders
    PROVE  QuietAt(server', members', inv', plan')
  <1> DEFINE over == \/ ~IsInjective([k \in DOMAIN inv.assets |-> inv.assets[k].id])
                     \/ Cardinality(Albums) > MaxAlbums
                     \/ \E b \in Albums : Cardinality(members[b]) > MaxMemberships
  <1>1. /\ World(server, members) /\ Typed(inv) /\ Typed(inv')
        /\ inv.pc = "recheck" /\ inv.at > Len(inv.listed)
    BY QuietState, QuietNextState DEF AlbumHeaders
  <1>2. DOMAIN inv = InvFields
    BY <1>1 DEF Typed
  <1>3. IF over THEN Fail
        ELSE Step([inv EXCEPT !.pc = "albums", !.queue = SetToSeq(Albums), !.page = 1,
                              !.related = {}, !.at = 1])
    BY DEF AlbumHeaders
  <1>4. CASE over
    <2>1. RefusableIn(server, members, inv.mode, ToSet(inv.selection), plan)
      BY <1>1, <1>4, QuietHeaders
    <2> QED
      BY <1>3, <1>4, <2>1, QuietFail
  <1>5. CASE ~over
    <2> HIDE DEF over
    <2> DEFINE q == SetToSeq(Albums)
    <2>0. Step([inv EXCEPT !.pc = "albums", !.queue = q, !.page = 1, !.related = {}, !.at = 1])
      BY <1>3, <1>5
    <2> HIDE DEF q
    <2>1. /\ inv' = [inv EXCEPT !.pc = "albums", !.queue = q, !.page = 1, !.related = {},
                                !.at = 1]
          /\ UNCHANGED <<server, members, plan>>
      BY <2>0 DEF Step
    <2>2. /\ inv'.pc = "albums" /\ inv'.queue = q /\ inv'.page = 1 /\ inv'.related = {}
          /\ inv'.at = 1 /\ inv'.listed = inv.listed /\ inv'.mode = inv.mode
          /\ inv'.selection = inv.selection /\ inv'.albums = inv.albums
          /\ inv'.assets = inv.assets
      BY <1>2, <2>1 DEF InvFields
    <2>3. QuietAt(server, members, inv', plan)
      BY <1>1, <2>2, QuietHeaders DEF q
    <2> QED
      BY <2>1, <2>3
  <1> QED
    BY <1>4, <1>5

\* A page of an album.
LEMMA QuietAlbumPageStep ==
    ASSUME PlanningOK, PlanningOK', MembersOK, QuietAt(server, members, inv, plan), AlbumPage
    PROVE  QuietAt(server', members', inv', plan')
  <1> DEFINE pg == inv.page
             b == Head(inv.queue)
             all == Ranked(SelectedIn(server, "timeline") \cap members[b])
             shown == (pg - 1) * PageSize + Len(PageOf(all, pg))
             seen == inv.related \cup ToSet(PageOf(all, pg))
             kept == seen \cap Ids(inv.assets)
             albums == IF kept = {} THEN inv.albums
                       ELSE inv.albums \cup {[id |-> b, members |-> kept]}
             more == HasNext(all, pg)
             refused == RefusableIn(server, members, inv.mode, ToSet(inv.selection), plan)
             Same(i) == /\ i.mode = inv.mode /\ i.selection = inv.selection
                        /\ i.listed = inv.listed /\ i.assets = inv.assets /\ i.at = inv.at
             j == inv'
  <1>1. /\ World(server, members) /\ Typed(inv) /\ Typed(j)
        /\ inv.pc = "albums" /\ inv.queue # <<>>
    BY QuietState, QuietNextState DEF AlbumPage
  <1>2. DOMAIN inv = InvFields
    BY <1>1 DEF Typed
  <1>3. IF shown > MaxMemberships THEN Fail
        ELSE IF more THEN Step([inv EXCEPT !.related = seen, !.page = @ + 1])
        ELSE IF Memberships(albums) > MaxMemberships THEN Fail
        ELSE Step([inv EXCEPT !.albums = albums, !.queue = Tail(@), !.page = 1,
                              !.related = {}])
    <2>1. InAlbum(b) = all
      BY InState
    <2> QED
      BY <2>1, Zenon DEF AlbumPage
  <1>4. (j.pc = inv.pc => Same(j)) =>
           /\ shown > MaxMemberships => refused
           /\ (more /\ j.pc = inv.pc /\ j.related = seen /\ j.page = pg + 1
                 /\ j.albums = inv.albums /\ j.queue = inv.queue)
                => QuietAt(server, members, j, plan)
           /\ (~more /\ Memberships(albums) > MaxMemberships) => refused
           /\ (~more /\ j.pc = inv.pc /\ j.related = {} /\ j.page = 1
                 /\ j.albums = albums /\ j.queue = Tail(inv.queue))
                => QuietAt(server, members, j, plan)
    BY <1>1, QuietAlbumPage
  <1> DEFINE q == Tail(inv.queue)
  <1> HIDE DEF shown, seen, albums, more, refused, q
  <1>5. CASE Fail /\ (shown > MaxMemberships \/ (~more /\ Memberships(albums) > MaxMemberships))
    <2>1. inv' = [inv EXCEPT !.pc = "failed"]
      BY <1>5 DEF Fail, Step
    <2>2. j.pc # inv.pc
      BY <1>1, <1>2, <2>1 DEF InvFields
    <2>3. refused
      BY <1>4, <1>5, <2>2
    <2> QED
      BY <1>5, <2>3, QuietFail DEF refused
  <1>6. CASE more /\ Step([inv EXCEPT !.related = seen, !.page = @ + 1])
    <2>1. /\ inv' = [inv EXCEPT !.related = seen, !.page = pg + 1]
          /\ UNCHANGED <<server, members, plan>>
      BY <1>6 DEF Step
    <2>2. /\ j.pc = inv.pc /\ j.related = seen /\ j.page = pg + 1 /\ Same(j)
          /\ j.albums = inv.albums /\ j.queue = inv.queue
      BY <1>2, <2>1 DEF InvFields
    <2>3. QuietAt(server, members, j, plan)
      BY <1>4, <1>6, <2>2
    <2> QED
      BY <2>1, <2>3
  <1>7. CASE ~more /\ Step([inv EXCEPT !.albums = albums, !.queue = Tail(@), !.page = 1,
                                       !.related = {}])
    <2>1. /\ inv' = [inv EXCEPT !.albums = albums, !.queue = q, !.page = 1, !.related = {}]
          /\ UNCHANGED <<server, members, plan>>
      BY <1>7 DEF Step, q
    <2>2. /\ j.pc = inv.pc /\ j.related = {} /\ j.page = 1 /\ Same(j)
          /\ j.albums = albums /\ j.queue = q
      BY <1>2, <2>1 DEF InvFields
    <2>3. QuietAt(server, members, j, plan)
      BY <1>4, <1>7, <2>2 DEF q
    <2> QED
      BY <2>1, <2>3
  <1> QED
    BY <1>3, <1>5, <1>6, <1>7

\* An original is streamed.
LEMMA QuietVerifyStep ==
    ASSUME PlanningOK, PlanningOK', MembersOK, QuietAt(server, members, inv, plan),
           VerifyOriginal
    PROVE  QuietAt(server', members', inv', plan')
  <1> DEFINE x == inv.assets[inv.at]
  <1>1. /\ World(server, members) /\ Typed(inv) /\ Typed(inv')
        /\ inv.pc = "albums" /\ inv.queue = <<>> /\ inv.at <= Len(inv.assets)
    BY QuietState, QuietNextState DEF VerifyOriginal
  <1>2. DOMAIN inv = InvFields
    BY <1>1 DEF Typed
  <1>3. server[x.id] # None /\ server[x.id].facts = x.facts
    BY <1>1, QuietVerify
  <1>4. inv' = [inv EXCEPT !.at = inv.at + 1] /\ UNCHANGED <<server, members, plan>>
    BY <1>3 DEF VerifyOriginal, Step
  <1>5. /\ inv'.pc = inv.pc /\ inv'.mode = inv.mode /\ inv'.selection = inv.selection
        /\ inv'.listed = inv.listed /\ inv'.assets = inv.assets /\ inv'.at = inv.at + 1
        /\ inv'.albums = inv.albums /\ inv'.queue = inv.queue
    BY <1>2, <1>4 DEF InvFields
  <1>6. QuietAt(server, members, inv', plan)
    BY <1>1, <1>5, QuietVerify
  <1> QED
    BY <1>4, <1>6

\* The plan is made or refused.
LEMMA QuietAssembleStep ==
    ASSUME PlanningOK, PlanningOK', MembersOK, QuietAt(server, members, inv, plan), Assemble
    PROVE  QuietAt(server', members', inv', plan')
  <1> DEFINE new == MigrationPlan(ToSet(inv.assets), inv.albums)
             over == \/ ~RolesValid(ToSet(inv.assets)) \/ ~PlanValid(new, inv.albums)
                     \/ inv.mode = "verify" /\ new # plan
  <1>1. /\ World(server, members) /\ Typed(inv) /\ inv.pc = "albums" /\ inv.queue = <<>>
    BY QuietState DEF Assemble
  <1>2. DOMAIN inv = InvFields
    BY <1>1 DEF Typed
  <1>3. IF over THEN Fail
        ELSE /\ plan' = new /\ inv' = [inv EXCEPT !.pc = "planned"]
             /\ UNCHANGED <<server, members, touched, changes, failures>>
    BY Zenon DEF Assemble
  <1>4. /\ new = ReferenceIn(server, members, inv.mode, ToSet(inv.selection))
        /\ over => RefusableIn(server, members, inv.mode, ToSet(inv.selection), plan)
    BY <1>1, QuietAssemble
  <1> HIDE DEF new, over
  <1>5. CASE over
    BY <1>3, <1>4, <1>5, QuietFail
  <1>6. CASE ~over
    <2>1. /\ plan' = new /\ inv' = [inv EXCEPT !.pc = "planned"]
          /\ UNCHANGED <<server, members>>
      BY <1>3, <1>6
    <2>2. inv'.pc = "planned" /\ inv'.mode = inv.mode /\ inv'.selection = inv.selection
      BY <1>2, <2>1 DEF InvFields
    <2>3. QuietAt(server, members, inv', plan')
      BY <1>4, <2>1, <2>2 DEF QuietAt
    <2> QED
      BY <2>1, <2>3
  <1> QED
    BY <1>5, <1>6

\* An inventory starts with nothing listed.
LEMMA QuietStart ==
    ASSUME PlanningOK, MembersOK, NEW mode, NEW s, Start(mode, s),
           s \in Seq(Visibilities) /\ s # <<>> /\ IsInjective(s),
           mode # "archive" => s = <<"timeline">>
    PROVE  QuietAt(server', members', inv', plan')
  <1>1. World(server, members)
    BY QuietState
  <1>2. /\ inv'.pc = "page" /\ inv'.mode = mode /\ inv'.vis = s /\ inv'.selection = s
        /\ inv'.page = 1 /\ inv'.listed = <<>> /\ inv'.related = {} /\ inv'.collected = <<>>
        /\ inv'.assets = <<>> /\ inv'.albums = {} /\ UNCHANGED <<server, members, plan>>
    BY DEF Start, Idle
  <1> DEFINE j == inv'
  <1> HIDE DEF j
  <1>3. ToSet(s) \subseteq Visibilities
    BY DEF ToSet
  <1>4. VisOK(j)
    BY <1>2, <1>3 DEF VisOK, j
  <1>5. Done(j) = {}
    BY <1>2 DEF Done, j
  <1>6. CollectedOK(server, j)
    <2>1. Ids(<<>>) = {} /\ Exact(server, <<>>) /\ WantedIn(server, {}) = {} /\ Len(<<>>) = 0
      BY DEF Ids, Exact, ToSet, WantedIn
    <2>2. Weight(server, {}) \in Nat
      <3>1. {} \in SUBSET Visibilities /\ "timeline" \in Visibilities \ {}
        BY DEF Visibilities
      <3> QED
        BY <1>1, <3>1, WeightAdds
    <2>3. 0 <= Weight(server, {})
      BY <2>2
    <2> QED
      BY <1>2, <1>5, <2>1, <2>3 DEF CollectedOK, j
  <1>7. PageOK(server, j)
    BY <1>1, <1>2, NoPages DEF j
  <1>8. QuietAt(server, members, j, plan)
    BY <1>2, <1>4, <1>6, <1>7 DEF QuietAt, j
  <1> QED
    BY <1>2, <1>8 DEF j

\* Every step of an inventory, while the server holds still.
LEMMA QuietStep ==
    ASSUME PlanningOK, PlanningOK', MembersOK, QuietOK, InventoryStep
    PROVE  MembersOK' /\ QuietOK'
  <1>1. UNCHANGED <<server, members, touched>>
    BY DEF InventoryStep, ListPage, FetchRelated, ListingOver, Recheck, AlbumHeaders, AlbumPage,
           VerifyOriginal, Assemble, RequestFails, Fail, Step
  <1>2. MembersOK'
    BY <1>1 DEF MembersOK
  <1>3. ASSUME touched = {}
        PROVE  QuietAt(server', members', inv', plan')
    <2>1. QuietAt(server, members, inv, plan)
      BY <1>3 DEF QuietOK
    <2>2. CASE RequestFails
      <3>1. inv' = [inv EXCEPT !.pc = "aborted"] /\ DOMAIN inv = InvFields
        BY <2>2 DEF RequestFails, PlanningOK, ListingOK
      <3>2. inv'.pc = "aborted"
        BY <3>1 DEF InvFields
      <3> QED
        BY <3>2 DEF QuietAt
    <2> QED
      BY <2>1, <2>2, QuietListPage, QuietFetch, QuietListingOver, QuietRecheckStep,
         QuietHeadersStep, QuietAlbumPageStep, QuietVerifyStep, QuietAssembleStep
         DEF InventoryStep
  <1> QED
    BY <1>1, <1>2, <1>3 DEF QuietOK

\* A change of the server ends the quiet.
LEMMA QuietEnds ==
    ASSUME MembersOK, ServerStep
    PROVE  MembersOK' /\ QuietOK'
  <1>1. CASE \E a \in Assets : Change(a)
    BY <1>1 DEF Change, MembersOK, QuietOK
  <1>2. CASE \E b \in Albums : ChangeAlbum(b)
    <2>1. PICK b \in Albums : ChangeAlbum(b)
      BY <1>2
    <2>2. touched' # {}
      BY <2>1 DEF ChangeAlbum
    <2>3. PICK new \in SUBSET Assets : members' = [members EXCEPT ![b] = new]
      BY <2>1 DEF ChangeAlbum
    <2>4. MembersOK'
      BY <2>3 DEF MembersOK
    <2> QED
      BY <2>2, <2>4 DEF QuietOK
  <1> QED
    BY <1>1, <1>2 DEF ServerStep

\* Initially nothing was listed.
LEMMA QuietInit ==
    ASSUME Init
    PROVE  MembersOK /\ QuietOK
  <1>1. PICK l \in Libraries : members = l.members
    BY DEF Init, InventoryInit
  <1>2. MembersOK
    BY <1>1, LibraryAssumption DEF MembersOK
  <1>3. inv.pc = "idle"
    BY DEF Init, InventoryInit, Idle
  <1>4. QuietOK
    BY <1>3 DEF QuietOK, QuietAt
  <1> QED
    BY <1>2, <1>4

\* Every step keeps the invariant.
LEMMA QuietNext ==
    ASSUME PlanningOK, PlanningOK', MembersOK, QuietOK, [Next]_vars
    PROVE  MembersOK' /\ QuietOK'
  <1>1. CASE \E s \in Selections : Start("archive", s)
    <2>1. PICK s \in Selections : Start("archive", s)
      BY <1>1
    <2>2. s \in Seq(Visibilities) /\ s # <<>> /\ IsInjective(s)
      BY SelectionAssumption DEF Visibilities
    <2>3. QuietAt(server', members', inv', plan')
      BY <2>1, <2>2, QuietStart
    <2>4. members' = members
      BY <2>1 DEF Start
    <2> QED
      BY <2>3, <2>4 DEF MembersOK, QuietOK
  <1>2. CASE \E m \in {"migrate", "verify"} : Start(m, <<"timeline">>)
    <2>1. PICK m \in {"migrate", "verify"} : Start(m, <<"timeline">>)
      BY <1>2
    <2> DEFINE s == <<"timeline">>
    <2>2. s \in Seq(Visibilities) /\ s # <<>> /\ IsInjective(s)
      BY DEF Visibilities, IsInjective
    <2>3. Start(m, s)
      BY <2>1
    <2>4. m # "archive" => s = <<"timeline">>
      OBVIOUS
    <2> HIDE DEF s
    <2>5. QuietAt(server', members', inv', plan')
      BY <2>2, <2>3, <2>4, QuietStart
    <2>6. members' = members
      BY <2>1 DEF Start
    <2> QED
      BY <2>5, <2>6 DEF MembersOK, QuietOK
  <1>3. CASE InventoryStep
    BY <1>3, QuietStep
  <1>4. CASE ServerStep
    BY <1>4, QuietEnds
  <1>5. CASE UNCHANGED <<server, inv, plan, members, touched>>
    BY <1>5 DEF MembersOK, QuietOK
  <1>6. PowerLoss => UNCHANGED <<server, inv, plan, members, touched>>
    BY DEF PowerLoss, inventoryVars
  <1>7. UNCHANGED vars => UNCHANGED <<server, inv, plan, members, touched>>
    BY DEF vars
  <1> QED
    BY <1>1, <1>2, <1>3, <1>4, <1>5, <1>6, <1>7, RunsReadOnly, Zenon DEF Next, Planning

\* While the server holds still, every place of an inventory knows exactly
\* what was read: the first pages of the result at hand, the visibilities
\* before it, the lookups and the albums that are done.
THEOREM QuietInvariance == Spec => [](MembersOK /\ QuietOK)
  <1>1. Init => MembersOK /\ QuietOK
    BY QuietInit
  <1>2. PlanningOK /\ PlanningOK' /\ MembersOK /\ QuietOK /\ [Next]_vars
            => MembersOK' /\ QuietOK'
    BY QuietNext
  <1> QED
    BY <1>1, <1>2, PlanningInvariance, PTL DEF Spec

\* Then a plan that was made is exact, and a failure has a reason.
LEMMA QuietShows ==
    ASSUME QuietOK
    PROVE  QuietIsExact
  <1> DEFINE sel == ToSet(inv.selection)
  <1>1. \A v : Closed(v) = ClosedIn(server, v)
    BY InState, Zenon DEF Closed, ClosedIn
  <1>2. Wanted = WantedIn(server, sel)
    BY <1>1, Zenon DEF Wanted, WantedIn
  <1>3. {Fact(a) : a \in Wanted} = {FactIn(server, a) : a \in WantedIn(server, sel)}
    BY <1>2, InState
  <1>4. {MigrationFact(a) : a \in Wanted}
            = {MigrationFactIn(server, a) : a \in WantedIn(server, sel)}
    BY <1>2, InState
  <1>5. {[id |-> b, members |-> members[b] \cap Selected("timeline")] :
            b \in {c \in Albums : members[c] \cap Selected("timeline") # {}}}
          = AlbumsIn(server, members, Albums)
    BY InState DEF AlbumsIn, Inside
  <1>6. Reference = ReferenceIn(server, members, inv.mode, sel)
    BY <1>3, <1>4, <1>5, Zenon DEF Reference, ReferenceIn
  <1>7. Cardinality({p \in sel \X Assets : p[2] \in Closed(p[1])}) = Weight(server, sel)
    BY <1>1 DEF Weight
  <1>8. Refusable <=> RefusableIn(server, members, inv.mode, sel, plan)
    BY <1>2, <1>4, <1>6, <1>7, Zenon DEF Refusable, RefusableIn
  <1> QED
    BY <1>6, <1>8 DEF QuietOK, QuietAt, QuietIsExact

\* While the server holds still, an inventory of any page size, with any
\* limits, finds exactly the selected assets with the videos of their Live
\* Photos and the albums on them, it fails only for a reason, and a plan that
\* is verified is what the server holds (archive.rs:86-161,
\* migration.rs:96-262, migration_plan.rs:122-190, migration_apply.rs:187-214).
THEOREM QuietInventoriesAreExact == Spec => []QuietIsExact
  <1>1. QuietOK => QuietIsExact
    BY QuietShows
  <1> QED
    BY <1>1, QuietInvariance, PTL
=============================================================================
