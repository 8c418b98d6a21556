---------------------------- MODULE UploadLedger ----------------------------
(***************************************************************************)
(* What one upload plan promises, whatever happens on the way: an          *)
(* operation is written off as complete at most once, with the identity    *)
(* of an asset the server holds, and a live-photo image only after its     *)
(* video.  UploadExecutor and ImportExecutor implement this specification. *)
(***************************************************************************)
CONSTANTS Ops,       \* the operations of the plan
          Images,    \* the operations whose role is LivePhotoImage
          VideoOf,   \* the video operation an image operation depends on
          Checksums, \* the SHA-1 values of media contents
          Sha1,      \* the checksum of an operation's media
          None       \* absence of a value

VARIABLES stored,    \* the checksums for which the server holds an asset
          recorded   \* the asset the checkpoint names for a completed operation

vars == <<stored, recorded>>

Init ==
    /\ stored \in SUBSET Checksums
    /\ recorded = [op \in Ops |-> None]

\* The server comes to hold an asset; it never loses one.
Store(c) ==
    /\ stored' = stored \cup {c}
    /\ UNCHANGED recorded

\* An operation is recorded once, for its own media, after its dependency.
Record(op) ==
    /\ recorded[op] = None
    /\ Sha1[op] \in stored
    /\ op \in Images => recorded[VideoOf[op]] # None
    /\ recorded' = [recorded EXCEPT ![op] = Sha1[op]]
    /\ UNCHANGED stored

Next ==
    \/ \E c \in Checksums : Store(c)
    \/ \E op \in Ops : Record(op)

Spec == Init /\ [][Next]_vars
=============================================================================
