SPECIFICATION FairSpec
CONSTANTS
  p1 = p1
  p2 = p2
  Product = {p1, p2}
  User = {u1}
  NoUser = NoUser
  Request = {r1, r2, r3, r4}
  OrderID = {o1, o2}
  NoOrder = NoOrder
  Carts <- MCCarts
  InitStock <- MCStock
  AdminStatus = {"SHIPPED"}
  MaxOpenConns = 2
  Faults = {}
INVARIANT StockConserved
PROPERTY EveryRequestEnds
