---------------------------- MODULE MCOrderSaga -----------------------------
(***************************************************************************)
(* OrderSaga on small instances.  Two products, so that an order may be    *)
(* covered for one of its products and not for another; a stock that the   *)
(* second order exhausts; carts that overlap.                              *)
(***************************************************************************)
EXTENDS OrderSaga, TLC

CONSTANTS p1, p2

\* Two units of p1 and one of p2: the larger cart can be served once, and then
\* one unit of p1 is left.
MCStock == p1 :> 2 @@ p2 :> 1
MCCarts == {p1 :> 1 @@ p2 :> 1, p1 :> 2 @@ p2 :> 0}

\* Requests and orders are interchangeable.
MCSymmetry == Permutations(Request) \cup Permutations(OrderID)
=============================================================================
