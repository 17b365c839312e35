---------------------------- MODULE MCOverlayLog ----------------------------
EXTENDS OverlayLog, TLC

CONSTANTS a, b, c, d, w, x, y, z, e1

Rec(article, links, entities) == [article |-> article, links |-> links, entities |-> entities]
Slot(n, g) == [name |-> n, generation |-> g]

\* x was archived from a, where it lives again; z names it, and so does a curated record.
Cited ==
    Live(a) :> Rec(x, {}, {e1}) @@ Slot(a, 1) :> Rec(x, {}, {}) @@
    Live(b) :> Rec(z, {Live(a)}, {e1}) @@ Live(d) :> Rec(w, {Live(a)}, {e1})
\* Two records that nothing names; no article was archived before, and two are free.
Alone == Live(a) :> Rec(x, {}, {e1}) @@ Live(d) :> Rec(w, {}, {e1})
SomeSlots == {Slot(a, 1)}
NoSlots == {}
SomeHeads == {Cited, Alone}
Contradicts == [article \in Article |-> IF article = y THEN {x} ELSE {}]
=============================================================================
