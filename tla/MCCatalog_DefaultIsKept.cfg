SPECIFICATION ShopSpec
CONSTANTS
  basic = basic pro = pro usd = usd brl = brl a1 = a1 a2 = a2 c1 = c1 c2 = c2
  None = None
  Plan <- TwoPlans
  Currency <- Currencies
  Cents = {1, 2}
  Price = {1, 2, 3}
  Offer <- Offers
  Admin <- TwoAdmins
  Customer <- TwoCustomers
  MaxEdits = 2
  MaxFailures = 0
SYMMETRY Same
INVARIANT DefaultIsKept
CHECK_DEADLOCK FALSE
