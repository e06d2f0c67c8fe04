---------------------------- MODULE MCOrderCache ----------------------------
(***************************************************************************)
(* OrderCache on small instances.                                          *)
(***************************************************************************)
EXTENDS OrderCache, TLC

\* Writers, readers, orders and users are interchangeable.
MCSymmetry ==
  Permutations(Writer) \cup Permutations(Reader)
    \cup Permutations(OrderID) \cup Permutations(User)
=============================================================================
