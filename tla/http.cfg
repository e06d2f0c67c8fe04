SPECIFICATION Spec
CONSTANTS
  p1 = p1
  p2 = p2
  p3 = p3
  s1 = s1
  s2 = s2
  u1 = u1
  Product = {p1, p2, p3}
  Seller = {s1, s2}
  Gone = Gone
  Uuid = {p1, p2, s1, s2}
  Nil = Nil
  Parts = 3
  MaxPrice = 2
  MaxTotal = 9
  Request = {r1, r2, r3}
  User = {u1, u2}
  Inputs <- MCInputs
  Carts <- MCCarts
  Offers <- MCOffers
  InitCatalog <- MCCatalog
  None = None
  MaxChanges = 1
INVARIANTS TypeOK ViewsAddUp MissingHasCause WrongSellerHasCause StockBothWays
INVARIANTS SuccessIsTrue RefusedMeansUntouched ServingIsReady
PROPERTY SilenceHasCause
SYMMETRY Alike
