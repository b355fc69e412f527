-------------------------- MODULE MCTradeCollector --------------------------
(***************************************************************************)
(* Small instances of TradeCollector for TLC.  Orders o1 and o2 are placed *)
(* by SubmitOrders, order f1 by another program on the same account.       *)
(***************************************************************************)
EXTENDS TradeCollector, TLC

CONSTANTS o1, o2, f1

OneExchange == [o \in Orders |-> "x"]

Trade(id, o, side, qty) == [id |-> id, order |-> o, ex |-> "x", side |-> side, qty |-> qty]

(* One trade per order, its ID named after the order: the orders are interchangeable. *)
OneEach == {Trade(o, o, "BUY", 1) : o \in Orders}

WithForeign == {Trade(1, o1, "BUY", 2), Trade(2, o1, "BUY", 1), Trade(3, f1, "SELL", 1)}

Symmetry == Permutations(Orders)
=============================================================================
