SPECIFICATION Spec
CONSTANTS
  p1 = p1
  p2 = p2
  Product = {p1, p2}
  User = {u1, u2}
  NoUser = NoUser
  Request = {r1, r2, r3, r4}
  OrderID = {o1, o2}
  NoOrder = NoOrder
  Carts <- MCCarts
  InitStock <- MCStock
  AdminStatus = {"SHIPPED", "PENDING_PAYMENT", "paid"}
  MaxOpenConns = 2
  Faults = {"create", "cancel", "update"}
SYMMETRY MCSymmetry
INVARIANTS TypeOK StockBacked CancelledMeansRestocked
PROPERTIES RefinesLifecycle OrdersOnlyMoveForward CancelsOnlyPendingOrderOfCaller
