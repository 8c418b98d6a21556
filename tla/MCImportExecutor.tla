-------------------------- MODULE MCImportExecutor --------------------------
(* Instances of ImportExecutor for TLC: a live-photo pair and a single       *)
(* asset, staged from an archive, with one album.                            *)
EXTENDS ImportExecutor

CONSTANTS video, image, single, sumV, sumI, sumS

MCOps == {video, image, single}
MCImages == {image}
MCVideoOf == [i \in {image} |-> video]
MCPath == [op \in MCOps |-> IF op = image THEN 0 ELSE IF op = video THEN 1 ELSE 2]
MCChecksums == {sumV, sumI, sumS}
MCSha1 == [op \in MCOps |->
    IF op = image THEN sumI ELSE IF op = video THEN sumV ELSE sumS]
MCDescribed == {image, single}
MCArchived == {image, single}

MCAlbums == {1}
MCAlbumsOf == [op \in MCOps |-> IF op = video THEN {} ELSE {1}]

\* One single asset in one album, for the question about its creation.
MCOneOp == {single}
MCNone == {}
MCNoVideo == [i \in {} |-> single]
MCOnePath == [op \in MCOneOp |-> 0]
MCOneSum == {sumS}
MCOneSha1 == [op \in MCOneOp |-> sumS]
MCOneAlbumsOf == [op \in MCOneOp |-> {1}]
=============================================================================
