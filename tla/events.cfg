SPECIFICATION FairSpec
CHECK_DEADLOCK FALSE
CONSTANTS
  Product = {p1}
  User = {u1}
  NoUser = NoUser
  OrderID = {o1, o2}
  Request = {r1, r2, r3}
  EmailWorker = {e1, e2}
  HistoryWorker = {h1}
  AdminStatus = {"SHIPPED", "CANCELED", "paid"}
  Faults = {"crash", "publish", "answer"}
  MaxDeaths = 1
INVARIANTS TypeOK EventsTellCommitted RefundedAtMostOnce NewsAccounted RepeatedOnlyByDeath
INVARIANTS FailedCallsAreSilent HistoryHearsNothing
PROPERTY EveryChangeIsEmailed
