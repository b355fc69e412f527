----------------------------- MODULE TradeLedger ----------------------------
(***************************************************************************)
(* What a trade collector promises, with no threads, stores or messages:   *)
(* the exchange executes trades, and the position absorbs each trade of a  *)
(* bookable order at most once, and no other trade.  TradeCollector is     *)
(* shown to implement this specification.                                  *)
(***************************************************************************)
EXTENDS Integers

CONSTANTS
    Trades,    \* the trades the exchange may execute, records with `order', `side' and `qty'
    Bookable   \* the order IDs whose trades belong to this position

VARIABLES
    executed,  \* the trades the exchange has executed
    booked,    \* the trades the position has absorbed
    base       \* the base amount of the position

vars == <<executed, booked, base>>

(* The signed quantity a trade contributes to the base position. *)
Delta(t) == IF t.side = "BUY" THEN t.qty ELSE -t.qty

Init ==
    /\ executed = {}
    /\ booked = {}
    /\ base = 0

Execute(t) ==
    /\ t \in Trades \ executed
    /\ executed' = executed \cup {t}
    /\ UNCHANGED <<booked, base>>

Book(t) ==
    /\ t \in executed \ booked
    /\ t.order \in Bookable
    /\ booked' = booked \cup {t}
    /\ base' = base + Delta(t)
    /\ UNCHANGED executed

Next == \E t \in Trades : Execute(t) \/ Book(t)

Spec == Init /\ [][Next]_vars
=============================================================================
