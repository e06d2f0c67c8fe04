SPECIFICATION Spec
CHECK_DEADLOCK FALSE
CONSTANTS
  Product = {p1}
  User = {u1}
  NoUser = NoUser
  OrderID = {o1}
  Request = {r1, r2}
  EmailWorker = {e1}
  HistoryWorker = {h1}
  AdminStatus = {"SHIPPED"}
  Faults = {}
  MaxDeaths = 0
PROPERTY PendingOrderCanBePaid
