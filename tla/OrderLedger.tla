---------------------------- MODULE OrderLedger -----------------------------
(***************************************************************************)
(* What placing and cancelling orders promises about stock, with no        *)
(* database, no catalog calls and no requests: an order first sets its     *)
(* units aside, then becomes visible; a cancellation gives the same units  *)
(* back, once, before the order stops being live.  An order that sets      *)
(* units aside may also never become visible (the units stay with it).     *)
(***************************************************************************)
EXTENDS Naturals

CONSTANTS Product, OrderID, InitStock

VARIABLES
  available,   \* units on sale, per product
  phase,       \* where each order is
  content      \* the units each order set aside

ledgerVars == <<available, phase, content>>

Phase == {"none", "held", "open", "released", "closed"}

\* The quantities that what is on sale covers.
Covered ==
  {units \in [Product -> UNION {0 .. available[p] : p \in Product}] :
     \A p \in Product : units[p] <= available[p]}

Init ==
  /\ available = InitStock
  /\ phase = [o \in OrderID |-> "none"]
  /\ content = [o \in OrderID |-> [p \in Product |-> 0]]

\* Order o sets units aside; there must be enough on sale.
Hold(o) ==
  /\ phase[o] = "none"
  /\ \E units \in Covered :
       /\ available' = [p \in Product |-> available[p] - units[p]]
       /\ content' = [content EXCEPT ![o] = units]
  /\ phase' = [phase EXCEPT ![o] = "held"]

Open(o) ==
  /\ phase[o] = "held"
  /\ phase' = [phase EXCEPT ![o] = "open"]
  /\ UNCHANGED <<available, content>>

\* The units of an open order go back on sale, all of them and only once.
Release(o) ==
  /\ phase[o] = "open"
  /\ available' = [p \in Product |-> available[p] + content[o][p]]
  /\ phase' = [phase EXCEPT ![o] = "released"]
  /\ UNCHANGED content

Close(o) ==
  /\ phase[o] = "released"
  /\ phase' = [phase EXCEPT ![o] = "closed"]
  /\ UNCHANGED <<available, content>>

Next == \E o \in OrderID : Hold(o) \/ Open(o) \/ Release(o) \/ Close(o)

Spec == Init /\ [][Next]_ledgerVars
=============================================================================
