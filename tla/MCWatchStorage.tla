---------------------------- MODULE MCWatchStorage ----------------------------
EXTENDS WatchStorage

Symmetry == Permutations(Paths) \cup Permutations(Objects)
=============================================================================
