----------------------------- MODULE MCRiskManager -----------------------------
(***************************************************************************)
(* Instances of RiskManager for TLC: one symbol, two kinds of order of it. *)
(***************************************************************************)
EXTENDS RiskManager

CONSTANT X

Limits(n, l, p) ==
  [k \in {"max_orders", "max_loss", "max_position"} |->
     CASE k = "max_orders" -> n [] k = "max_loss" -> l [] OTHER -> p]

MCDefaults == Limits(2, 1, 4)

MCSettings == {MCDefaults, Limits(1, 1, 2)}

MCOrders ==
  {[symbol |-> X, side |-> "BUY", quantity |-> 1, limit |-> 1],
   [symbol |-> X, side |-> "SELL", quantity |-> 1, limit |-> 0]}
================================================================================
