----------------------------- MODULE MCConsole -----------------------------
EXTENDS Console, TLC

\* Bindings and logins are alike.
MCSymmetry == Permutations(Owners) \cup Permutations(Logins)
============================================================================
