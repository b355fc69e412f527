------------------------------ MODULE Position ------------------------------
(***************************************************************************)
(* Position.AddTrade (pkg/types/position.go).  The average cost and the    *)
(* accumulated profit are exact fractions <<numerator, denominator>>.      *)
(***************************************************************************)
EXTENDS Integers, FiniteSetsExt

Abs(n) == IF n < 0 THEN -n ELSE n

Sign(n) == IF n < 0 THEN -1 ELSE 1

Reduced(n, d) ==
    LET g == Max({k \in 1..d : n % k = 0 /\ d % k = 0})
    IN  <<n \div g, d \div g>>

Plus(a, b) == Reduced(a[1] * b[2] + b[1] * a[2], a[2] * b[2])

Times(a, n) == Reduced(a[1] * n, a[2])

Over(a, n) == Reduced(a[1], a[2] * n)

Equal(a, b) == a[1] * b[2] = b[1] * a[2]

NewPosition == [base |-> 0, quote |-> 0, cost |-> <<0, 1>>, profit |-> <<0, 1>>]

(* What the trade changes, its fee taken off: base, then quote. *)
BaseOf(t) == t.quantity - IF t.feeCurrency = "BASE" THEN t.fee ELSE 0
QuoteOf(t) == t.quoteQuantity - IF t.feeCurrency = "QUOTE" THEN t.fee ELSE 0

(* The trade opens or enlarges the position: its cost is averaged. *)
Enlarge(p, t) ==
    [p EXCEPT !.cost = Over(Plus(Times(p.cost, Abs(p.base)), <<QuoteOf(t), 1>>),
                            Abs(p.base) + BaseOf(t))]

(* Mutant: a trade that turns the position keeps the old average cost. *)
ReduceKeepingCost(p, t) ==
    LET covered == IF BaseOf(t) > Abs(p.base) THEN Abs(p.base) ELSE BaseOf(t)
        margin == Plus(<<t.price, 1>>, Times(p.cost, -1))
    IN  [p EXCEPT !.profit = Plus(@, Times(margin, Sign(p.base) * covered))]

(* It reduces, closes or turns the position: what it covers makes profit. *)
Reduce(p, t) ==
    LET turns == BaseOf(t) > Abs(p.base)
        covered == IF turns THEN Abs(p.base) ELSE BaseOf(t)
        margin == Plus(<<t.price, 1>>, Times(p.cost, -1))
    IN  [p EXCEPT !.profit = Plus(@, Times(margin, Sign(p.base) * covered)),
                  !.cost = IF turns THEN <<t.price, 1>> ELSE @]

AddTrade(p, t) ==
    LET side == IF t.side = "BUY" THEN 1 ELSE -1
        next == IF p.base = 0 \/ Sign(p.base) = side THEN Enlarge(p, t) ELSE Reduce(p, t)
    IN  [next EXCEPT !.base = @ + side * BaseOf(t), !.quote = @ - side * QuoteOf(t)]

(* What was earned and what is held at its cost. *)
Worth(p) == Plus(<<p.quote, 1>>, Times(p.cost, p.base))
=============================================================================
