------------------------------ MODULE MCStore ------------------------------
(* Store on small instances. *)
EXTENDS Store, TLC

CONSTANTS c1, c2, a1, a2
Nth(n) == [title |-> 1, ordinal |-> n, generation |-> 0]
Record(n, x) == Nth(n) :> New(x, {})
\* an empty corpus, and corpora of one and of two records
SmallSeeds == {<<>>} \cup {Record(1, x) : x \in Art}
                    \cup {Record(1, x) @@ Record(2, y) : <<x, y>> \in {<<u, v>> \in Art \X Art : u # v}}
Empty == {<<>>}
Symmetric == Permutations(Caller) \cup Permutations(Art)
=============================================================================
