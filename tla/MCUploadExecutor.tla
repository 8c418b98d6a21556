-------------------------- MODULE MCUploadExecutor --------------------------
(* An instance of UploadExecutor for TLC: one live-photo pair and one        *)
(* standalone file with the same bytes as the still image of the pair.       *)
EXTENDS UploadExecutor

CONSTANTS video, image, single, sumV, sumI

MCOps == {video, image, single}
MCImages == {image}
MCVideoOf == [i \in {image} |-> video]
MCPath == [op \in MCOps |-> IF op = image THEN 0 ELSE IF op = video THEN 1 ELSE 2]
MCSharedChecksums == {sumV, sumI}
MCSharedSha1 == [op \in MCOps |-> IF op = video THEN sumV ELSE sumI]
=============================================================================
