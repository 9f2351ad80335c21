---------------------------- MODULE MC_PathStore ----------------------------
EXTENDS PathStore, TLC
CONSTANTS a, b

\* Request threads are alike.
MCSymmetry == Permutations({a, b})
=============================================================================
