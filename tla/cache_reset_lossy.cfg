SPECIFICATION Spec
CHECK_DEADLOCK FALSE
CONSTANTS
  Product = {p1}
  User = {u1}
  NoUser = NoUser
  OrderID = {o1}
  Writer = {w1}
  Reader = {r1}
  AdminStatus = {}
  Lossy = TRUE
  NoEntry = NoEntry
INVARIANT ResetEvicts
