SPECIFICATION Spec
CONSTANTS
  home = home shop = shop n1 = n1 n2 = n2 t1 = t1 t2 = t2 x1 = x1 x2 = x2
  None = None
  Key = {1, 2, 3}
  Workspace <- Workspaces
  Default = home
  Number <- Numbers
  Token <- Tokens
  Access <- Accepted
  OwnNumber = n1
  OwnToken = t2
  Worker <- Workers
  MaxRequests = 3
  MaxFaults = 1
SYMMETRY Same
INVARIANTS NumberIsServed ConfigIsVouched OnePhone
CHECK_DEADLOCK FALSE
