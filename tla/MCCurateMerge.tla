--------------------------- MODULE MCCurateMerge ---------------------------
(* CurateMerge on small instances. *)
EXTENDS CurateMerge, TLC

CONSTANTS c1, c2, m1, m2, f1, f2
Symmetric == Permutations(Curator) \cup Permutations(Merger) \cup Permutations(Fact)
=============================================================================
