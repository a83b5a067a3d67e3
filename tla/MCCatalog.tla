------------------------------ MODULE MCCatalog ------------------------------
\* Finite instances of Catalog for TLC.
EXTENDS Catalog, TLC

CONSTANTS basic, pro, usd, brl, a1, a2, c1, c2

TwoPlans == {basic, pro}
Currencies == {usd, brl}
Offers == 1 :> PriceRow(basic, usd, 1, TRUE)
TwoAdmins == {a1, a2}
TwoCustomers == {c1, c2}
Same == Permutations(TwoAdmins) \cup Permutations(TwoCustomers)
=============================================================================
