SPECIFICATION Spec
CHECK_DEADLOCK FALSE
CONSTANTS
  Product = {p1}
  User = {u1}
  NoUser = NoUser
  OrderID = {o1, o2}
  Writer = {w1, w2}
  Reader = {r1, r2}
  AdminStatus = {}
  Lossy = FALSE
  NoEntry = NoEntry
SYMMETRY MCSymmetry
INVARIANTS StaleHasCause ResetEvicts
