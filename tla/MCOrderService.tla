--------------------------- MODULE MCOrderService ---------------------------
(***************************************************************************)
(* OrderService on the products, the stock and the carts of MCOrderSaga.   *)
(***************************************************************************)
EXTENDS OrderService, MCOrderSaga
=============================================================================
