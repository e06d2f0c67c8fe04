SPECIFICATION FairSpec
CHECK_DEADLOCK FALSE
CONSTANTS
  Product = {p1}
  User = {u1, u2}
  NoUser = NoUser
  OrderID = {o1}
  Writer = {w1, w2, w3}
  Reader = {r1}
  AdminStatus = {"SHIPPED"}
  Lossy = TRUE
  NoEntry = NoEntry
INVARIANTS TypeOK CacheShowsThePast
PROPERTY CachesCatchUp
