--------------------------- MODULE MCSubscription ---------------------------
(* Two requests at a time and two rows for one checkout. *)
EXTENDS Subscription

CONSTANTS w1, w2

TwoWorkers == {w1, w2}
TwoRows    == {1, 2}
NoKey      == 0
=============================================================================
