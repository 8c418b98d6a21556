--------------------------- MODULE MCArchiveApply ---------------------------
EXTENDS ArchiveApply
CONSTANTS b1

\* 1 is a Live Photo image whose video is 3; 2 is a single image.
MCRank == <<1, 2, 3>>
MCKind == <<"image", "image", "video">>

Asset(facts, vis, live) == [facts |-> facts, meta |-> facts, vis |-> vis, live |-> live]

MCVersions == <<
    {None, Asset("f1", "timeline", 3), Asset("f1", "timeline", None), Asset("f1", "hidden", 3)},
    {None, Asset("f2", "timeline", None), Asset("g2", "timeline", None)},
    {None, Asset("f3", "timeline", None), Asset("f3", "hidden", None)} >>

\* The video is hidden, as the server keeps it, or on the timeline.  With the
\* single image the library is at the limit of one listing and over that of
\* all visibilities; without it there is room for all of them.
Single == Asset("f2", "timeline", None)
MCLibraries ==
    {[assets |-> <<Asset("f1", "timeline", 3), single, Asset("f3", v, None)>>,
      members |-> [b \in Albums |-> {1} \cup (IF single = None THEN {} ELSE {2})]] :
        v \in {"timeline", "hidden"}, single \in {Single, None}}

MCAlbumName == [b \in Albums |-> b]
MCSelections == {<<"timeline">>, <<"timeline", "archive", "hidden">>}
=============================================================================
