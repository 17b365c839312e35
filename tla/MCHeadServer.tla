---------------------------- MODULE MCHeadServer ----------------------------
(* HeadServer on small instances. *)
EXTENDS HeadServer, TLC

CONSTANTS w1, w2, s1, f1, f2
Symmetric == Permutations(Server) \cup Permutations(Fact)
=============================================================================
