----------------------------- MODULE MCJobEvents -----------------------------
EXTENDS JobEvents
CONSTANTS c1, c2, c3, j1, j2, o1, o2

\* Two clients watch one job, so the limit per session bites; a third one
\* belongs to another session.
MCJobOf == [c \in Clients |-> IF c = c3 THEN j2 ELSE j1]
MCJobOwner == [j \in Jobs |-> IF j = j2 THEN o2 ELSE o1]
=============================================================================
