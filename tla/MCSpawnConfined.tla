--------------------------- MODULE MCSpawnConfined ---------------------------
(* SpawnConfined for TLC: the descendants are interchangeable.              *)
EXTENDS SpawnConfined, TLC

Symmetry == Permutations(Descendants)
===============================================================================
