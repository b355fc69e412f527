-------------------------- MODULE MCActiveOrderBook -------------------------
(***************************************************************************)
(* ActiveOrderBook for TLC: one or two orders of quantity 1 or 2, one      *)
(* stream, and at most one canceler of each kind and one syncer.  Each     *)
(* setting has the goroutines and the faults its properties need and no    *)
(* other.                                                                  *)
(***************************************************************************)
EXTENDS ActiveOrderBook

CONSTANTS o1, o2, stream, cancel

(* Without any fault. *)
Among(used, quantity) == [present |-> used, held |-> {}, backtest |-> FALSE, qty |-> quantity,
                          queryFails |-> FALSE, loses |-> FALSE, dups |-> 0, max |-> FALSE]

(* One order among all goroutines, with every fault. *)
OneOrder == {[Among({o1} \cup (Threads \ Orders), 2)
              EXCEPT !.queryFails = TRUE, !.loses = TRUE, !.dups = 1]}

(* Two orders in back-testing. *)
Backtesting == {[Among(Orders \cup Streams, 2) EXCEPT !.backtest = TRUE, !.dups = 1]}

(* A canceler, one order in the book and one that is added, or both in it. *)
Cancelling == {[Among(Orders \cup Streams \cup Cancelers, 1) EXCEPT !.held = held]
                  : held \in {{o1}, {o1, o2}}}

Several == OneOrder \cup Backtesting \cup Cancelling

(* All the goroutines of the run; creation responses may be lost. *)
Plain == {[Among(Threads, FullQty) EXCEPT !.loses = TRUE]}

(* And queries fail, at any exchange or at MAX. *)
Failing == {[Among(Threads, FullQty) EXCEPT !.loses = TRUE, !.queryFails = TRUE, !.max = max] : max \in BOOLEAN}
=============================================================================
