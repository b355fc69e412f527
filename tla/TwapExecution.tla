---------------------------- MODULE TwapExecution ----------------------------
(***************************************************************************)
(* The TWAP order executor (pkg/bbgo/twap_order_executor.go): an updater   *)
(* goroutine that keeps one maker order of a slice at the best price until *)
(* the target is traded, and the user data stream that reports what the    *)
(* order trades.                                                           *)
(*                                                                         *)
(* The updater wakes up when the order book changes, or once by its timer; *)
(* the rate limiter only makes it do so less often.  The price is one, so  *)
(* that a quantity is its notional, and where the best price is decides    *)
(* only whether an order is moved, which is left open.  The account holds  *)
(* enough.  ActiveOrderBook models what is a step here: GracefulCancel,    *)
(* and the addition of an order with its pending update.                   *)
(***************************************************************************)
EXTENDS Naturals, Sequences, Functions, FiniteSetsExt

CONSTANTS
    Executions,   \* the executions that are looked at: a set of Execution
    MaxOrders     \* bound: orders created

Execution == [target : Nat, slice : Nat \ {0}, minQuantity : Nat \ {0}, minNotional : Nat,
              tradeFirst : BOOLEAN]   \* the exchange reports a trade before the order update

VARIABLES
    execution,  \* fields of the TwapExecution
    (* the exchange *)
    orders,     \* our orders, by OrderID, in the order of their creation
    feed,       \* trades and order updates in flight on the user data stream
    (* the execution *)
    active,     \* activeMakerOrders: [order IDs -> executed quantity it knows of]
    pending,    \* its pending updates: [order IDs -> executed quantity]
    store,      \* orderStore: order IDs
    position,   \* what it has traded, by the trades it was told of
    cancelled,  \* the context of the execution is cancelled
    listening,  \* the user data stream is not closed
    pc,         \* where the updater is
    created,    \* the order it has created and not put everywhere yet, or 0
    (* the environment *)
    expired,    \* DeadlineTime has passed
    (* history *)
    lost,       \* orders created by a request whose answer was lost
    blind       \* an order was created when the position was not what had been traded

exchangeVars == <<orders, feed>>
bookVars == <<active, pending, store, position>>
updaterVars == <<pc, created>>
vars == <<execution, exchangeVars, bookVars, updaterVars, cancelled, listening, expired, lost, blind>>

IDs == DOMAIN orders

OpenIDs == {i \in IDs : orders[i].open}

Left(i) == orders[i].qty - orders[i].executed

Traded == SumFunctionOnSet([i \in IDs |-> orders[i].executed], IDs)

(* What can be traded by the orders made so far. *)
Committed == [i \in IDs |-> IF orders[i].open THEN orders[i].qty ELSE orders[i].executed]

Init ==
    /\ execution \in Executions
    /\ orders = <<>> /\ feed = <<>>
    /\ active = <<>> /\ pending = <<>> /\ store = {} /\ position = 0
    /\ cancelled = FALSE /\ listening = TRUE
    /\ pc = "select" /\ created = 0
    /\ expired = FALSE
    /\ lost = {} /\ blind = FALSE

-----------------------------------------------------------------------------
(***************************************************************************)
(* The exchange (external), and the time                                   *)
(***************************************************************************)
Report(i, qty, executed) ==
    LET trade == [kind |-> "trade", order |-> i, qty |-> qty]
        update == [kind |-> "update", order |-> i, qty |-> executed]
    IN  IF execution.tradeFirst THEN <<trade, update>> ELSE <<update, trade>>

Fill(i, qty) ==
    /\ i \in OpenIDs
    /\ qty \in 1 .. Left(i)
    /\ orders' = [orders EXCEPT ![i].executed = @ + qty, ![i].open = qty < Left(i)]
    /\ feed' = IF listening THEN feed \o Report(i, qty, orders'[i].executed) ELSE feed
    /\ UNCHANGED <<execution, bookVars, updaterVars, cancelled, listening, expired, lost, blind>>

Expire ==
    /\ ~expired
    /\ expired' = TRUE
    /\ UNCHANGED <<execution, exchangeVars, bookVars, updaterVars, cancelled, listening, lost, blind>>

-----------------------------------------------------------------------------
(***************************************************************************)
(* The user data stream                                                    *)
(***************************************************************************)
(* cancelContextIfTargetQuantityFilled *)
TargetFilled == position >= execution.target

(* handleTradeUpdate *)
HandleTrade(t) ==
    /\ position' = IF t.order \in store THEN position + t.qty ELSE position
    /\ UNCHANGED <<active, pending, cancelled>>

(* f, and x with the value y. *)
With(f, x, y) == [z \in DOMAIN f \cup {x} |-> IF z = x THEN y ELSE f[z]]

(* The active order book learns of i's executed quantity: a filled order leaves
   it, and handleFilledOrder looks at the target. *)
Learn(book, i, executed) ==
    IF executed = orders[i].qty
    THEN active' = Restrict(book, DOMAIN book \ {i}) /\ cancelled' = (cancelled \/ TargetFilled)
    ELSE active' = [book EXCEPT ![i] = executed] /\ UNCHANGED cancelled

HandleUpdate(u) ==
    /\ IF u.order \in DOMAIN active
       THEN Learn(active, u.order, u.qty) /\ UNCHANGED pending
       ELSE pending' = With(pending, u.order, u.qty) /\ UNCHANGED <<active, cancelled>>
    /\ UNCHANGED position

Receive ==
    /\ listening
    /\ feed # <<>>
    /\ feed' = Tail(feed)
    /\ IF Head(feed).kind = "trade" THEN HandleTrade(Head(feed)) ELSE HandleUpdate(Head(feed))
    /\ UNCHANGED <<execution, orders, store, updaterVars, listening, expired, lost, blind>>

-----------------------------------------------------------------------------
(***************************************************************************)
(* The updater                                                             *)
(***************************************************************************)
Goto(label) == pc' = label

(* The book changed, or the timer fired. *)
WakeUp ==
    /\ pc = "select"
    /\ Goto(IF TargetFilled THEN "cleanup" ELSE "check")
    /\ cancelled' = (cancelled \/ TargetFilled)
    /\ UNCHANGED <<execution, exchangeVars, bookVars, created, listening, expired, lost, blind>>

ContextDone ==
    /\ pc = "select"
    /\ cancelled
    /\ Goto("cleanup")
    /\ UNCHANGED <<execution, exchangeVars, bookVars, created, cancelled, listening, expired, lost, blind>>

(* The order is where it should be or too small to be moved, the order book is
   too short, or there is too little left to order. *)
LeaveAsIs ==
    /\ pc \in {"check", "place"}
    /\ Goto("select")
    /\ UNCHANGED <<execution, exchangeVars, bookVars, created, cancelled, listening, expired, lost, blind>>

(* Mutant: the order is left open beside the one that replaces it. *)
NoneBroken == pc = "check"

NoneActive == pc = "check" /\ active = <<>>

PrepareOrder ==
    /\ NoneActive
    /\ Goto("place")
    /\ UNCHANGED <<execution, exchangeVars, bookVars, created, cancelled, listening, expired, lost, blind>>

Movable(i) == orders[i].qty - active[i] > execution.minQuantity

Closed == [i \in IDs |-> [orders[i] EXCEPT !.open = @ /\ i \notin DOMAIN active]]

(* GracefulCancel; when its time is over, the loop calls it again. *)
CancelActiveOrders ==
    /\ pc = "check"
    /\ \E i \in DOMAIN active : Movable(i)
    /\ orders' = Closed
    /\ active' = <<>>
    /\ UNCHANGED <<execution, feed, pending, store, position, updaterVars, cancelled, listening, expired, lost, blind>>

RestQuantity == execution.target - position

(* A slice, together with a remainder too small for an order of its own. *)
SliceOf(rest) ==
    IF rest > execution.slice /\ rest - execution.slice < execution.minQuantity
    THEN rest ELSE Min({execution.slice, rest})

(* newBestPriceOrder: a market order of the rest after the deadline. *)
NewOrder ==
    IF expired THEN [type |-> "MARKET", qty |-> RestQuantity]
    ELSE [type |-> "LIMIT_MAKER", qty |-> Max({SliceOf(RestQuantity), execution.minNotional})]

(* The exchange executes a market order at once. *)
Create(form) ==
    LET i == Len(orders) + 1
        market == form.type = "MARKET"
    IN  /\ orders' = Append(orders, [qty |-> form.qty, open |-> ~market,
                                     executed |-> IF market THEN form.qty ELSE 0])
        /\ feed' = IF market THEN feed \o Report(i, form.qty, form.qty) ELSE feed

SubmitOrder(answered) ==
    /\ pc = "place"
    /\ ~TargetFilled
    /\ RestQuantity >= execution.minQuantity
    /\ Len(orders) < MaxOrders
    /\ Create(NewOrder)
    /\ blind' = (blind \/ position # Traded \/ OpenIDs \cap lost # {})
    /\ IF answered THEN created' = Len(orders') /\ Goto("add") /\ UNCHANGED lost
       ELSE lost' = lost \cup {Len(orders')} /\ Goto("select") /\ UNCHANGED created
    /\ UNCHANGED <<execution, bookVars, cancelled, listening, expired>>

(* What was cancelled had traded the rest: an order without a type, a quantity
   and a symbol is submitted, and refused. *)
SubmitNothing ==
    /\ pc = "place"
    /\ TargetFilled
    /\ cancelled' = TRUE
    /\ Goto("select")
    /\ UNCHANGED <<execution, exchangeVars, bookVars, created, listening, expired, lost, blind>>

AddActive ==
    /\ pc = "add"
    /\ Learn(With(active, created, 0), created, IF created \in DOMAIN pending THEN pending[created] ELSE 0)
    /\ pending' = Restrict(pending, DOMAIN pending \ {created})
    /\ Goto("store")
    /\ UNCHANGED <<execution, exchangeVars, store, position, created, listening, expired, lost, blind>>

AddStored ==
    /\ pc = "store"
    /\ store' = store \cup {created}
    /\ created' = 0
    /\ Goto("select")
    /\ UNCHANGED <<execution, exchangeVars, active, pending, position, cancelled, listening, expired, lost, blind>>

(* The updater returns: what is active is cancelled, unless that takes too
   long, the stream is closed, and Done tells its caller. *)
CleanUp(inTime) ==
    /\ pc = "cleanup"
    /\ IF inTime THEN orders' = Closed /\ active' = <<>> ELSE UNCHANGED <<orders, active>>
    /\ listening' = FALSE
    /\ feed' = <<>>
    /\ Goto("stopped")
    /\ UNCHANGED <<execution, pending, store, position, created, cancelled, expired, lost, blind>>

(* Shutdown, or the end of the context given to Run. *)
Shutdown ==
    /\ ~cancelled
    /\ cancelled' = TRUE
    /\ UNCHANGED <<execution, exchangeVars, bookVars, updaterVars, listening, expired, lost, blind>>

-----------------------------------------------------------------------------
Updater ==
    \/ WakeUp \/ ContextDone \/ LeaveAsIs \/ PrepareOrder \/ CancelActiveOrders
    \/ \E answered \in BOOLEAN : SubmitOrder(answered)
    \/ SubmitNothing \/ AddActive \/ AddStored
    \/ \E inTime \in BOOLEAN : CleanUp(inTime)

Next ==
    \/ \E i \in IDs : \E qty \in 1 .. Left(i) : Fill(i, qty)
    \/ Expire
    \/ Receive
    \/ Updater
    \/ Shutdown

Spec == Init /\ [][Next]_vars

-----------------------------------------------------------------------------
(***************************************************************************)
(* Properties                                                              *)
(***************************************************************************)
TypeOK ==
    /\ execution \in Execution
    /\ \A i \in IDs : orders[i].executed <= orders[i].qty /\ (orders[i].open => Left(i) > 0)
    /\ \A i \in DOMAIN feed : feed[i].order \in IDs
    /\ DOMAIN active \subseteq IDs /\ \A i \in DOMAIN active : active[i] <= orders[i].executed
    /\ DOMAIN pending \subseteq IDs
    /\ store \cup lost \subseteq IDs
    /\ position <= Traded
    /\ {cancelled, listening, expired, blind} \subseteq BOOLEAN
    /\ pc \in {"select", "check", "place", "add", "store", "cleanup", "stopped"}
    /\ created \in IDs \cup {0}

Excess == IF execution.minNotional > execution.minQuantity
          THEN execution.minNotional - execution.minQuantity ELSE 0

(* What was traded and what can still be traded stays within the target, or
   beyond it by no more than what raises the last order to the minimal
   notional: whenever orders are filled, moved, or sold out at the deadline.
   The execution cannot see a trade that came before its order was stored
   (handleTradeUpdate drops it), that is still on the stream when the next
   order is made, or of an order whose creation was not answered; then nothing
   is claimed. *)
TargetKept ==
    \/ blind
    \/ SumFunctionOnSet(Committed, IDs) <= execution.target + Excess
=============================================================================
