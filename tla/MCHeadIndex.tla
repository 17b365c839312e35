---------------------------- MODULE MCHeadIndex ----------------------------
(* HeadIndex on small instances. *)
EXTENDS HeadIndex

CONSTANTS a1, a2, a3
=============================================================================
