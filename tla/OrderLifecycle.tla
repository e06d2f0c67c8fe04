--------------------------- MODULE OrderLifecycle ---------------------------
(***************************************************************************)
(* What anybody who reads committed rows may see of an order, with no      *)
(* transactions, locks, requests, caches or events: it is placed once, by  *)
(* a user, and waits for its payment; while it waits its owner may cancel  *)
(* it; the status of an order that is not cancelled may be set; nothing    *)
(* else ever happens to it, and a step touches one order only.             *)
(***************************************************************************)
CONSTANTS
  OrderID, User,
  NoUser,     \* the owner of an order that was not placed
  Settable    \* the statuses that may be set

VARIABLES
  status,     \* of each order; "absent" before it is placed
  owner       \* of each order

orderVars == <<status, owner>>

Init ==
  /\ status = [o \in OrderID |-> "absent"]
  /\ owner = [o \in OrderID |-> NoUser]

Place(o, u) ==
  /\ status[o] = "absent"
  /\ status' = [status EXCEPT ![o] = "PENDING_PAYMENT"]
  /\ owner' = [owner EXCEPT ![o] = u]

\* By u, who must own the order.
CancelBy(o, u) ==
  /\ status[o] = "PENDING_PAYMENT"
  /\ owner[o] = u
  /\ status' = [status EXCEPT ![o] = "CANCELED"]
  /\ UNCHANGED owner

Set(o, s) ==
  /\ status[o] \notin {"absent", "CANCELED"}
  /\ status' = [status EXCEPT ![o] = s]
  /\ UNCHANGED owner

Next ==
  \E o \in OrderID :
    \/ \E u \in User : Place(o, u) \/ CancelBy(o, u)
    \/ \E s \in Settable : Set(o, s)

Spec == Init /\ [][Next]_orderVars
=============================================================================
