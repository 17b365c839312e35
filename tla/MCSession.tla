----------------------------- MODULE MCSession -----------------------------
EXTENDS SessionCommit, TLC

CONSTANTS s1, s2, s3, main, curate
OneRef == [s \in Session |-> main]
TwoRefs == [s \in Session |-> IF s = s3 THEN curate ELSE main]
Symmetric == Permutations(Fact) \cup Permutations(Proc)
\* s1 and s2 are both on the checked-out ref
SoloSymmetric == Permutations(Fact) \cup Permutations({s1, s2})
=============================================================================
