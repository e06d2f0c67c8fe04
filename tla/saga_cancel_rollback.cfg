SPECIFICATION Spec
CONSTANTS
  p1 = p1
  p2 = p2
  Product = {p1, p2}
  User = {u1}
  NoUser = NoUser
  Request = {r1, r2, r3}
  OrderID = {o1}
  NoOrder = NoOrder
  Carts <- MCCarts
  InitStock <- MCStock
  AdminStatus = {"SHIPPED"}
  MaxOpenConns = 2
  Faults = {"cancel"}
INVARIANT CancelRollbackIsComplete
