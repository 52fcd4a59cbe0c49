--------------------------- MODULE MCOrderLifecycle ----------------------------
(***************************************************************************)
(* Instances of OrderLifecycle for TLC: up to three signals on one symbol, *)
(* so that buys and sells meet in one position.                            *)
(***************************************************************************)
EXTENDS OrderLifecycle

CONSTANTS o1, o2, o3, X

MCSymbolOf == [o \in Orders |-> X]

\* o1 buys two, o2 sells one, o3 buys one: the sell clips or not, depending on the order.
MCSideOf == [o \in Orders |-> IF o = o2 THEN "sell" ELSE "buy"]

MCQuantity == [o \in Orders |-> IF o = o1 THEN 2 ELSE 1]

MCTypeOf == [o \in Orders |-> IF o = o2 THEN "limit" ELSE "market"]

AllMarket == [o \in Orders |-> "market"]
================================================================================
