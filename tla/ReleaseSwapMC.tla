--------------------------- MODULE ReleaseSwapMC ---------------------------
\* Three invocations, one release to update to after the installed one.
EXTENDS ReleaseSwap, TLC
MCSymmetry == Permutations(Procs)
=============================================================================
