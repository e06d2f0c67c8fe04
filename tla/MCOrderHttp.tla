---------------------------- MODULE MCOrderHttp -----------------------------
(***************************************************************************)
(* OrderHttp on a small instance: three products of two sellers, each of   *)
(* which may change its price, its seller or disappear, one with an id     *)
(* that is no uuid; prices in thirds of a cent, rounded up or down; carts  *)
(* with no item, with a product twice, with two sellers, with an amount    *)
(* too large; sensible requests, and requests with one thing wrong.        *)
(***************************************************************************)
EXTENDS OrderHttp, TLC

CONSTANTS p1, p2, p3, s1, s2, u1

Line(p, n) == [product |-> p, quantity |-> n]
Twice == <<Line(p1, 1), Line(p1, 2)>>
Each == <<Line(p1, 1), Line(p2, 1), Line(p3, 1)>>
BadCarts == {<<Line(p2, 0)>>, <<Line(p2, 9)>>}
MCCarts == {<<>>, Twice, Each} \cup BadCarts
MCOffers ==
  {[price |-> 4, seller |-> s1], [price |-> 5, seller |-> s1], [price |-> 5, seller |-> s2]}
MCCatalog ==
  p1 :> [price |-> 4, seller |-> s1] @@ p2 :> [price |-> 5, seller |-> s2]
    @@ p3 :> [price |-> 4, seller |-> s1]

Asked(route, user, order, cart) ==
  [route |-> route, token |-> "valid", user |-> user, order |-> order, path |-> TRUE,
   form |-> "well", cart |-> cart]
Sensible ==
  {Asked("create", u1, None, cart) : cart \in MCCarts}
    \cup {Asked("list", u, None, <<>>) : u \in User}
    \cup {Asked("items", u1, o, <<>>) : o \in Request \cup {None}}
    \cup {Asked("cancel", u, o, <<>>) : u \in User, o \in Request}
    \cup {Asked("reset", u1, None, <<>>)}
Faulty ==
  {[Asked("cancel", u1, o, <<>>) EXCEPT !.token = token] : o \in Request, token \in Token}
    \cup {[Asked("create", u1, None, Each) EXCEPT !.token = "noUser"]}
    \cup {[Asked("cancel", u1, o, <<>>) EXCEPT !.path = FALSE] : o \in Request}
    \cup {[Asked("create", u1, None, Each) EXCEPT !.form = form] : form \in Form}
MCInputs == Sensible \cup Faulty

Alike == Permutations(Request)
=============================================================================
