--------------------------- MODULE MCCheckoutLock ---------------------------
EXTENDS CheckoutLock, TLC

CONSTANTS w1, w2, d, p1, p2

\* Two store writes in one process, and a session commit in another.
Together == w1 :> p1 @@ w2 :> p1 @@ d :> p2
=============================================================================
