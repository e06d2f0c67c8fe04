SPECIFICATION FairServiceSpec
CONSTANTS
  p1 = p1
  p2 = p2
  Product = {p1, p2}
  User = {u1}
  NoUser = NoUser
  Request = {r1, r2, r3}
  OrderID = {o1, o2}
  NoOrder = NoOrder
  Carts <- MCCarts
  InitStock <- MCStock
  AdminStatus = {"SHIPPED"}
  MaxOpenConns = 3
  Faults = {"create", "cancel", "update"}
  Losses = {"crash", "publish"}
INVARIANTS ServiceTypeOK AnnouncedIsDone RefundsAccounted
PROPERTIES RefinesEvents CancelEnds ChangesAreAnnounced
