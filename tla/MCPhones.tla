------------------------------- MODULE MCPhones ------------------------------
\* Finite instances of Phones for TLC.
EXTENDS Phones, TLC

CONSTANTS home, shop, n1, n2, t1, t2, x1, x2

Workspaces == {home, shop}
Numbers == {n1, n2}
Tokens == {t1, t2}
\* The one token may use both numbers, the other one of them.
Accepted == {<<t1, n1>>, <<t1, n2>>, <<t2, n1>>}
Workers == {x1, x2}
Same == Permutations(Workers)
=============================================================================
