---------------------------- MODULE MCThroughput ----------------------------
\* Finite instances of Throughput for TLC.
EXTENDS Throughput, TLC

CONSTANTS q1, q2, free, pro

TwoRequests == {q1, q2}
Plans == {free, pro}

Offer(limit, window) == [limit |-> limit, window |-> window]

\* A limit of one and of two, and none.
OneWindow == {Offer(1, 2), Offer(2, 2), Offer(0, 2)}
Env == Offer(1, 2)
Start == free :> Offer(1, 2) @@ pro :> Offer(2, 2)
Members == {"api", "upgrade"}
Everybody == {"api", "upgrade", "callback", "delivery"}
Heavier == {2}

Symmetry == Permutations({q1, q2})
=============================================================================
