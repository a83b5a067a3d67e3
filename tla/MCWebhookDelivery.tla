------------------------- MODULE MCWebhookDelivery -------------------------
\* Finite instances of WebhookDelivery for TLC.
EXTENDS WebhookDelivery, TLC

CONSTANTS i1, i2, d1, d2

OneInstance == {i1}
TwoInstances == {i1, i2}
OneDelivery == {d1}
TwoDeliveries == {d1, d2}

\* Instances and deliveries are interchangeable.
Symmetry == Permutations({i1, i2}) \cup Permutations({d1, d2})
=============================================================================
