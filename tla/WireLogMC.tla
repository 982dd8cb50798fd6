----------------------------- MODULE WireLogMC -----------------------------
\* Two sessions, two processes at a time: a session may check its messages twice at once.
EXTENDS WireLog
MCSymmetry == Permutations(Procs) \cup Permutations(Sessions) \cup Permutations(Scopes)
=============================================================================
