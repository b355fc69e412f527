------------------------------ MODULE MCParts ------------------------------
(***************************************************************************)
(* Four parts of the program that have nothing to do with each other,      *)
(* checked in one run: the initial state chooses the part that moves, and  *)
(* the others stay as they begin.  They are the matching of a backtest,    *)
(* the dca2 strategy, the TWAP executor, and one side of an RBTOrderBook.  *)
(***************************************************************************)
EXTENDS SimplePriceMatching

CONSTANTS
    MaxOrderCount, Qty, MaxRounds, MaxFaults, MaxCrashes,   \* Dca2
    BookPrices, Volumes, Depths,                            \* RBTree
    Executions, MaxOrders                                   \* TwapExecution

VARIABLES
    part,
    orders, feed, state, nextStateC, pc, ticked, out, left, failed, quantity, active, store, waiting,
    base, stats, saved, opened, target, stale, late, faults, crashes,
    tree,
    execution, made, reports, followed, pending, known, traded, cancelled, listening, updater,
    created, expired, lost, blind

dca2Vars == <<orders, feed, state, nextStateC, pc, ticked, out, left, failed, quantity, active, store,
              waiting, base, stats, saved, opened, target, stale, late, faults, crashes>>

twapVars == <<execution, made, reports, followed, pending, known, traded, cancelled, listening, updater,
              created, expired, lost, blind>>

Dca == INSTANCE Dca2 WITH kline <- target

Book == INSTANCE RBTree WITH Prices <- BookPrices

Twap == INSTANCE TwapExecution
     WITH orders <- made, feed <- reports, active <- followed, store <- known, position <- traded,
          pc <- updater

Line(o, h, l, c) == [open |-> o, high |-> h, low |-> l, close |-> c]

(* Flat, falling with and without a rise at its end, rising the same. *)
FewKLines == {Line(2, 3, 1, 2), Line(3, 3, 1, 2), Line(3, 3, 1, 1), Line(1, 3, 1, 3), Line(1, 3, 1, 2)}

Use(types, quantities, feeMode, number) ==
    [types |-> types, quantities |-> quantities, feeMode |-> feeMode, orders |-> number]

Each ==
    {Use({"MARKET"}, {2, 4}, "TOKEN", 4),
     Use({"LIMIT"}, {2}, "TOKEN", 3),
     Use({"LIMIT", "MARKET"}, {2, 4}, "QUOTE", 2),
     Use({"LIMIT", "LIMIT_MAKER"}, {2, 4}, "NATIVE", 2),
     Use({"LIMIT", "STOP_LIMIT"}, {2}, "TOKEN", 2),
     Use({"STOP_MARKET", "LIMIT_MAKER"}, {2}, "TOKEN", 2)}

Aim(aim, slice, minQuantity, minNotional, tradeFirst) ==
    [target |-> aim, slice |-> slice, minQuantity |-> minQuantity, minNotional |-> minNotional,
     tradeFirst |-> tradeFirst]

(* One that adds its remainder to a slice, one that raises its last order. *)
TwoExecutions == {Aim(3, 2, 2, 0, TRUE), Aim(3, 1, 1, 2, FALSE)}

(* What the theorems of Dca2Proofs and PartsProofs suppose of the constants. *)
ASSUME PartsAssumption == Dca!Parameters /\ Executions \subseteq Twap!Execution /\ Book!Parameters

-----------------------------------------------------------------------------
PartsInit ==
    /\ part \in {"matching", "dca2", "tree", "twap"}
    /\ Init /\ Dca!Init /\ Book!Init /\ Twap!Init
    /\ part # "matching" => setting = CHOOSE s \in Settings : TRUE
    /\ part # "twap" => execution = CHOOSE x \in Executions : TRUE

PartsNext ==
    \/ part = "matching" /\ Next /\ UNCHANGED <<part, dca2Vars, tree, twapVars>>
    \/ part = "dca2" /\ Dca!Next /\ UNCHANGED <<part, vars, tree, twapVars>>
    \/ part = "tree" /\ Book!Next /\ UNCHANGED <<part, vars, dca2Vars, twapVars>>
    \/ part = "twap" /\ Twap!Next /\ UNCHANGED <<part, vars, dca2Vars, tree>>

PartsSpec == PartsInit /\ [][PartsNext]_<<part, vars, dca2Vars, tree, twapVars>>

-----------------------------------------------------------------------------
(* The type invariants of the four parts. *)
AllTypesOK == TypeOK /\ Dca!TypeOK /\ Book!TypeOK /\ Twap!TypeOK

(* dca2: a round ends settled: when the strategy waits for the next one, what
   was bought has been sold, unless a fill was on its way to the strategy as the
   take-profit order was placed or a late K-line signal was received for its fill,
   and the profit counts every order once. *)
RoundSettled == Dca!RoundSettled

(* dca2: no buy order the strategy follows is open beside a take-profit order,
   and none is placed, until a late K-line signal is received for the fill of the
   take-profit order. *)
SellsAlone == Dca!SellsAlone

(* dca2: the start after the first crash finds the position the exchange has, and
   follows every open order, unless something trades between its two queries, or
   before it a fill was late or a K-line signal was left for TakeProfitReady. *)
RecoveredRight == Dca!RecoveredRight

(* RBTree: after every sequence of updates each level is found, first, last,
   next and by its price, in a tree that is still balanced, and the copies of
   one side of the book hold its best levels. *)
SearchTree == part = "tree" => Book!SearchTree

(* RBTree: setting and deleting nodes changes the volume at one price. *)
ImplementsLevels == Book!ImplementsLevels

(* TwapExecution: what was traded and is open stays within the target, unless an
   order was made without knowing all that was traded. *)
TargetKept == part = "twap" => Twap!TargetKept
=============================================================================
