-------------------------------- MODULE Dca2 --------------------------------
(***************************************************************************)
(* The dca2 strategy (pkg/strategy/dca2): rounds of buy orders and one     *)
(* take-profit order, driven by a state goroutine (runState) that receives *)
(* from nextStateC, a channel for one state, and sometimes sends to it.    *)
(* Around it: the user data stream (OnFilled, OnPositionUpdate), the       *)
(* market data stream (OnKLine), and crashes with recovery at the start.   *)
(*                                                                         *)
(* Buying a unit costs 1, selling it brings 2.  An order that was          *)
(* submitted is in the active order book and the order store at once, and  *)
(* GracefulCancel leaves none of the active orders open (ActiveOrderBook). *)
(* Orders are kept when the program ends, and recoverWhenStart is set.     *)
(***************************************************************************)
EXTENDS Integers, Sequences, Functions, FiniteSetsExt

CONSTANTS
    MaxOrderCount,   \* buy orders of a round, at least one
    Qty,             \* units of a buy order, at least one
    MaxRounds,       \* bound: rounds that are opened
    MaxFaults,       \* bound: failed submissions and profit queries, with the crashes before them
    MaxCrashes       \* bound: crashes

(* What the theorems suppose of them. *)
Parameters ==
    /\ MaxOrderCount \in Nat \ {0} /\ Qty \in Nat
    /\ MaxRounds \in Nat /\ MaxFaults \in Nat /\ MaxCrashes \in Nat

State == {"None", "WaitToOpenPosition", "PositionOpening", "OpenPositionReady",
          "OpenPositionOrderFilled", "OpenPositionOrdersCancelling",
          "OpenPositionOrdersCancelled", "TakeProfitReady"}

StateTransition ==
    [WaitToOpenPosition           |-> "PositionOpening",
     PositionOpening              |-> "OpenPositionReady",
     OpenPositionReady            |-> "OpenPositionOrderFilled",
     OpenPositionOrderFilled      |-> "OpenPositionOrdersCancelling",
     OpenPositionOrdersCancelling |-> "OpenPositionOrdersCancelled",
     OpenPositionOrdersCancelled  |-> "TakeProfitReady",
     TakeProfitReady              |-> "WaitToOpenPosition"]

VARIABLES
    (* the exchange *)
    orders,       \* the orders, by OrderID, in the order of their creation
    feed,         \* fills under way on the user data stream
    (* the strategy *)
    state,        \* s.state
    nextStateC,   \* s.nextStateC
    pc,           \* where the state goroutine is
    ticked,       \* ticker.C holds a tick
    out,          \* the state it is sending
    left,         \* submissions left of placeOpenPositionOrders
    quantity,     \* of the take-profit order it is submitting
    failed,       \* one of them failed
    active,       \* ActiveMakerOrders: order IDs
    store,        \* OrderStore: order IDs
    waiting,      \* what was traded of orders the order store does not know: [order IDs -> quantity]
    base,         \* s.Position.Base
    stats,        \* s.ProfitStats
    saved,        \* ProfitStats as persisted by the last Sync
    opened,       \* recover: IDs of the open orders it was told of
    kline,        \* OnKLine found the target reached, and will say so
    (* history and bounds *)
    stale,        \* such a signal was in nextStateC before the fill of a take-profit order
    late,         \* a take-profit order was placed with fills not counted in its quantity
    faults,
    crashes

exchangeVars == <<orders, feed>>
loop == <<pc, ticked, out>>
work == <<left, failed, quantity, opened>>
stateVars == <<state, nextStateC, loop, work>>
bookVars == <<active, store, waiting, base>>
statsVars == <<stats, saved>>
bounds == <<stale, late, faults, crashes>>
vars == <<exchangeVars, stateVars, bookVars, statsVars, kline, bounds>>

IDs == DOMAIN orders

Init ==
    /\ orders = <<>> /\ feed = <<>>
    /\ state = "None" /\ nextStateC = <<>> /\ pc = "off" /\ ticked = FALSE
    /\ out = "None" /\ left = 0 /\ failed = FALSE /\ quantity = 0 /\ opened = {}
    /\ active = {} /\ store = {} /\ waiting = <<>> /\ base = 0
    /\ stats = [from |-> 0, investment |-> 0, round |-> 0, current |-> 0, total |-> 0]
    /\ saved = stats
    /\ kline = FALSE
    /\ stale = FALSE /\ late = FALSE /\ faults = 0 /\ crashes = 0

(* Bounds: failures and crashes together; and once a signal was stale, after which
   the properties claim nothing, no K-line reaches the target any more, no request
   fails and the program does not crash. *)
NoneStale == ~stale

CanFail == faults + crashes < MaxFaults /\ NoneStale

IsOpen(i) == orders[i].status = "New"

Of(side) == {i \in IDs : orders[i].side = side}

OpenOf(side) == {i \in Of(side) : IsOpen(i)}

(* emitNextState: gives up when the channel is full, or not yet made. *)
Emit(s) == nextStateC' = IF pc = "off" \/ nextStateC # <<>> THEN nextStateC ELSE <<s>>

-----------------------------------------------------------------------------
(***************************************************************************)
(* The exchange (external)                                                 *)
(***************************************************************************)
New(side, qty) == [side |-> side, qty |-> qty, executed |-> 0, status |-> "New"]

Traded(i, qty) ==
    [orders EXCEPT ![i].executed = @ + qty,
                   ![i].status = IF orders[i].executed + qty = orders[i].qty THEN "Filled" ELSE "New"]

(* The prices of the buy orders fall in the order of their submission. *)
Best(i) == orders[i].side = "BUY" => \A j \in OpenOf("BUY") : i <= j

(* A buy order is filled unit by unit, the take-profit order at once. *)
Fill(i) ==
    LET qty == IF orders[i].side = "BUY" THEN 1 ELSE orders[i].qty
    IN  /\ IsOpen(i)
        /\ Best(i)
        /\ orders' = Traded(i, qty)
        /\ feed' = IF pc = "down" THEN feed
                   ELSE Append(feed, [order |-> i, qty |-> qty, filled |-> orders'[i].status = "Filled"])
        /\ UNCHANGED <<stateVars, bookVars, statsVars, kline, bounds>>

(***************************************************************************)
(* The user data stream: the trade, then the order update.                 *)
(***************************************************************************)
Change(i, qty) == IF orders[i].side = "BUY" THEN qty ELSE -qty

Wait(t) ==
    [i \in DOMAIN waiting \cup {t.order} |->
        (IF i \in DOMAIN waiting THEN waiting[i] ELSE 0) + (IF i = t.order THEN t.qty ELSE 0)]

(* The trade collector adds it to the position when the order is known, and
   OnPositionUpdate persists the strategy. *)
ProcessTrade(t) ==
    IF t.order \in store
    THEN base' = base + Change(t.order, t.qty) /\ saved' = stats /\ UNCHANGED waiting
    ELSE waiting' = Wait(t) /\ UNCHANGED <<base, saved>>

(* OnFilled *)
FilledState(i) == IF orders[i].side = "BUY" THEN "OpenPositionOrderFilled" ELSE "WaitToOpenPosition"

HandleFill ==
    /\ pc # "down"
    /\ feed # <<>>
    /\ feed' = Tail(feed)
    /\ ProcessTrade(Head(feed))
    /\ IF Head(feed).filled /\ Head(feed).order \in active
       THEN /\ active' = active \ {Head(feed).order}
            /\ Emit(FilledState(Head(feed).order))
       ELSE UNCHANGED <<active, nextStateC>>
    /\ UNCHANGED <<orders, state, loop, work, store, stats, kline, bounds>>

(***************************************************************************)
(* The market data stream: s.state is read, then the signal is sent.       *)
(***************************************************************************)
OnKLine ==
    /\ state = "OpenPositionOrderFilled"
    /\ ~kline
    /\ NoneStale
    /\ kline' = TRUE
    /\ UNCHANGED <<exchangeVars, stateVars, bookVars, statsVars, bounds>>

(* The fill of the take-profit order is what TakeProfitReady is to receive next. *)
AwaitsFill == state = "TakeProfitReady" /\ active # {}

KLineEmits ==
    /\ kline
    /\ kline' = FALSE
    /\ Emit("OpenPositionOrdersCancelling")
    /\ stale' = (stale \/ (AwaitsFill /\ nextStateC = <<>>))
    /\ UNCHANGED <<exchangeVars, state, loop, work, bookVars, statsVars, late, faults, crashes>>

-----------------------------------------------------------------------------
(***************************************************************************)
(* runState                                                                *)
(***************************************************************************)
Triggered == {"WaitToOpenPosition", "PositionOpening", "OpenPositionOrdersCancelling",
              "OpenPositionOrdersCancelled"}

(* The ticker, every five seconds; an idle goroutine receives a state that is
   there sooner than that. *)
Ticks ==
    /\ ~ticked
    /\ \/ pc = "select" /\ state \in Triggered /\ nextStateC = <<>>
       \/ pc \in {"place", "cancel", "sell"}
    /\ ticked' = TRUE
    /\ UNCHANGED <<exchangeVars, state, nextStateC, pc, out, work, bookVars, statsVars, kline, bounds>>

(* triggerNextState sends the next state, and waits for room. *)
Tick ==
    /\ pc = "select"
    /\ ticked
    /\ ticked' = FALSE
    /\ IF state \in Triggered
       THEN pc' = "send" /\ out' = StateTransition[state]
       ELSE UNCHANGED <<pc, out>>
    /\ UNCHANGED <<exchangeVars, state, nextStateC, work, bookVars, statsVars, kline, bounds>>

Send ==
    /\ pc = "send"
    /\ nextStateC = <<>>
    /\ nextStateC' = <<out>>
    /\ pc' = "select"
    /\ out' = "None"
    /\ UNCHANGED <<exchangeVars, state, ticked, work, bookVars, statsVars, kline, bounds>>

(* A state is received; whether it is the next one is only logged. *)
Receive(s) ==
    /\ pc = "select"
    /\ nextStateC # <<>>
    /\ nextStateC' = <<>>
    /\ state = s

(* runWaitToOpenPositionState, before and after startTimeOfNextRound *)
TooEarly ==
    /\ Receive("WaitToOpenPosition")
    /\ UNCHANGED <<exchangeVars, state, loop, work, bookVars, statsVars, kline, bounds>>

OpenRound ==
    /\ Receive("WaitToOpenPosition")
    /\ stats.round < MaxRounds
    /\ base' = 0
    /\ stats' = [stats EXCEPT !.round = @ + 1, !.current = 0]
    /\ saved' = stats'
    /\ state' = "PositionOpening"
    /\ UNCHANGED <<exchangeVars, loop, work, active, store, waiting, kline, bounds>>

(* runPositionOpening: placeOpenPositionOrders submits the orders one by one. *)
BeginPlacing ==
    /\ Receive("PositionOpening")
    /\ pc' = "place"
    /\ left' = MaxOrderCount
    /\ failed' = FALSE
    /\ UNCHANGED <<exchangeVars, state, ticked, out, quantity, opened, bookVars, statsVars, kline, bounds>>

(* Submitted orders are known at once; SubmitOrders ends with a Process of the
   trades that waited for them. *)
Known(i) == active' = active \cup {i} /\ store' = store \cup {i}

Place ==
    /\ pc = "place"
    /\ left > 0
    /\ left' = left - 1
    /\ orders' = Append(orders, New("BUY", Qty))
    /\ Known(Len(orders'))
    /\ UNCHANGED <<feed, state, nextStateC, loop, failed, quantity, opened, waiting, base, statsVars,
                   kline, bounds>>

PlaceFails ==
    /\ pc = "place"
    /\ left > 0
    /\ CanFail
    /\ faults' = faults + 1
    /\ left' = left - 1
    /\ failed' = TRUE
    /\ UNCHANGED <<exchangeVars, state, nextStateC, loop, quantity, opened, bookVars, statsVars, kline,
                   stale, late, crashes>>

(* tradeCollector.Process *)
Process(known) ==
    /\ base' = base + SumFunctionOnSet([i \in DOMAIN waiting |-> Change(i, waiting[i])],
                                       DOMAIN waiting \cap known)
    /\ waiting' = Restrict(waiting, DOMAIN waiting \ known)

ReadyUnlessFailed == IF failed THEN state ELSE "OpenPositionReady"

Placed ==
    /\ pc = "place"
    /\ left = 0
    /\ Process(store)
    /\ state' = ReadyUnlessFailed
    /\ pc' = "select"
    /\ UNCHANGED <<exchangeVars, nextStateC, ticked, out, work, active, store, statsVars, kline, bounds>>

(* runOpenPositionReady *)
OrderFilled ==
    /\ Receive("OpenPositionReady")
    /\ state' = "OpenPositionOrderFilled"
    /\ UNCHANGED <<exchangeVars, loop, work, bookVars, statsVars, kline, bounds>>

(* Mutant: the other orders are not cancelled. *)
TargetReachedAtOnce ==
    /\ Receive("OpenPositionOrderFilled")
    /\ state' = "OpenPositionOrdersCancelled"
    /\ pc' = "send"
    /\ out' = "TakeProfitReady"
    /\ UNCHANGED <<exchangeVars, ticked, work, bookVars, statsVars, kline, bounds>>

(* runOpenPositionOrderFilled *)
TargetReached ==
    /\ Receive("OpenPositionOrderFilled")
    /\ state' = "OpenPositionOrdersCancelling"
    /\ pc' = "send"
    /\ out' = "OpenPositionOrdersCancelled"
    /\ UNCHANGED <<exchangeVars, ticked, work, bookVars, statsVars, kline, bounds>>

(* runOpenPositionOrdersCancelling: GracefulCancel *)
BeginCancelling ==
    /\ Receive("OpenPositionOrdersCancelling")
    /\ pc' = "cancel"
    /\ UNCHANGED <<exchangeVars, state, ticked, out, work, bookVars, statsVars, kline, bounds>>

CancelOne(i) ==
    /\ pc = "cancel"
    /\ i \in active
    /\ IsOpen(i)
    /\ orders' = [orders EXCEPT ![i].status = "Canceled"]
    /\ UNCHANGED <<feed, stateVars, bookVars, statsVars, kline, bounds>>

(* The order turns out to be filled when the cancelling asks for it. *)
FoundFilled(i) ==
    /\ pc = "cancel"
    /\ i \in active
    /\ orders[i].status = "Filled"
    /\ active' = active \ {i}
    /\ Emit(FilledState(i))
    /\ UNCHANGED <<exchangeVars, state, loop, work, store, waiting, base, statsVars, kline, bounds>>

(* Mutant: the cancelling is not waited for. *)
NotAwaited == TRUE

AllClosed == \A i \in active : orders[i].status = "Canceled"

Cancelled ==
    /\ pc = "cancel"
    /\ AllClosed
    /\ active' = {}
    /\ state' = "OpenPositionOrdersCancelled"
    /\ pc' = "send"
    /\ out' = "TakeProfitReady"
    /\ UNCHANGED <<exchangeVars, nextStateC, ticked, work, store, waiting, base, statsVars,
                   kline, bounds>>

(* runOpenPositionOrdersCancelled: placeTakeProfitOrders reads the position,
   submits an order that sells it, and when that is answered SubmitOrders ends
   with a Process and the state changes. *)
Absolute(b) == IF b < 0 THEN -b ELSE b

BeginSelling ==
    /\ Receive("OpenPositionOrdersCancelled")
    /\ pc' = "sell"
    /\ quantity' = Absolute(base)
    /\ UNCHANGED <<exchangeVars, state, ticked, out, left, failed, opened, bookVars, statsVars,
                   kline, bounds>>

PlaceTakeProfit ==
    /\ pc = "sell"
    /\ quantity # 0
    /\ orders' = Append(orders, New("SELL", quantity))
    /\ Known(Len(orders'))
    /\ Process(store')
    /\ state' = "TakeProfitReady"
    /\ pc' = "select"
    /\ quantity' = 0
    /\ late' = (late \/ feed # <<>> \/ quantity # Absolute(base))
    /\ stale' = (stale \/ nextStateC # <<>>)
    /\ UNCHANGED <<feed, nextStateC, ticked, out, left, failed, opened, statsVars, kline,
                   faults, crashes>>

(* The submission fails, as one of a quantity of zero always does. *)
PlaceTakeProfitFails ==
    /\ pc = "sell"
    /\ Process(store)
    /\ IF quantity = 0 THEN UNCHANGED faults ELSE CanFail /\ faults' = faults + 1
    /\ pc' = "select"
    /\ quantity' = 0
    /\ UNCHANGED <<exchangeVars, state, nextStateC, ticked, out, left, failed, opened, active, store,
                   statsVars, kline, stale, late, crashes>>

(***************************************************************************)
(* CalculateProfitOfCurrentRound                                           *)
(***************************************************************************)
Value(i) == IF orders[i].side = "BUY" THEN -orders[i].executed ELSE 2 * orders[i].executed

Sum(ids) == SumFunctionOnSet([i \in IDs |-> Value(i)], ids)

Closed == {i \in IDs : i >= stats.from /\ ~IsOpen(i)}

FromNext(ids) == Max(ids \cup {stats.from}) + 1

Calculated ==
    [stats EXCEPT !.from = FromNext(Closed),
                  !.current = @ + Sum(Closed),
                  !.total = @ + Sum(Closed),
                  !.investment = @ + stats.current + Sum(Closed)]

(* The query of the trades of order i fails. *)
CalculatedUpTo(i) ==
    LET before == {j \in Closed : j < i}
    IN  [stats EXCEPT !.from = i, !.current = @ + Sum(before), !.total = @ + Sum(before)]

CalculateProfit ==
    /\ \/ stats' = Calculated /\ UNCHANGED faults
       \/ /\ CanFail
          /\ faults' = faults + 1
          /\ \E i \in Closed : orders[i].executed > 0 /\ stats' = CalculatedUpTo(i)
    /\ saved' = stats'

(* runTakeProfitReady: what the streams do in its three seconds of waiting is
   as well done after it. *)
CloseRound ==
    /\ Receive("TakeProfitReady")
    /\ CalculateProfit
    /\ state' = "WaitToOpenPosition"
    /\ ticked' \in {ticked, TRUE}
    /\ UNCHANGED <<exchangeVars, pc, out, work, bookVars, kline, stale, late, crashes>>

-----------------------------------------------------------------------------
(***************************************************************************)
(* The start: recover                                                      *)
(***************************************************************************)
(* QueryOpenOrders; the channel has been made. *)
QueryOpenOrders ==
    /\ pc = "off"
    /\ opened' = {[id |-> i, executed |-> orders[i].executed] : i \in {j \in IDs : IsOpen(j)}}
    /\ pc' = "recover"
    /\ UNCHANGED <<exchangeVars, state, nextStateC, ticked, out, left, failed, quantity, bookVars,
                   statsVars, kline, bounds>>

OpenedIDs == {o.id : o \in opened}

(* Mutant: the rounds before are taken for the current one. *)
EveryRound == IDs

(* getCurrentRoundOrders: the orders after the last take-profit order that is
   followed by a buy order.  QueryClosedOrdersDesc comes after QueryOpenOrders:
   an order closed in between is in both answers, and counts twice. *)
CurrentRound == {i \in IDs : \A j \in Of("SELL") : j >= i => j + 1 \notin Of("BUY")}

Count(ids) == Cardinality(ids) + Cardinality({i \in ids \cap OpenedIDs : ~IsOpen(i)})

(* recoverState; "None" is an error. *)
StateOfBuys(buys) ==
    LET some(status) == \E i \in buys : orders[i].status = status
        anyOpened == buys \cap OpenedIDs # {}
    IN  IF Count(buys) # MaxOrderCount \/ Cardinality(opened) > MaxOrderCount THEN "None"
        ELSE IF Cardinality(opened) = MaxOrderCount THEN "OpenPositionReady"
        ELSE IF ~some("Filled") THEN "None"
        ELSE IF ~some("Canceled") THEN "OpenPositionOrderFilled"
        ELSE IF anyOpened THEN "OpenPositionOrdersCancelling" ELSE "OpenPositionOrdersCancelled"

RecoverState ==
    LET buys == Of("BUY") \cap CurrentRound
        sells == Of("SELL") \cap CurrentRound
    IN  IF Count(sells) > 1 THEN "None"
        ELSE IF buys = {} THEN "WaitToOpenPosition"
        ELSE IF sells = {} THEN StateOfBuys(buys)
        ELSE IF opened = {} THEN "WaitToOpenPosition"
        ELSE IF OpenedIDs = sells THEN "TakeProfitReady" ELSE "None"

(* recoverPosition: the trades of every record of the round with an execution;
   nothing when the take-profit order is closed. *)
RecoverPosition ==
    LET changes(ids) == SumFunctionOnSet([i \in IDs |-> Change(i, orders[i].executed)], ids)
        recorded == {o.id : o \in {r \in opened : r.executed > 0}} \cap CurrentRound
        closed == {i \in CurrentRound : ~IsOpen(i)}
    IN  IF \E i \in Of("SELL") \cap CurrentRound : ~IsOpen(i)
        THEN 0
        ELSE changes(recorded) + changes(closed)

(* The update of an order that is added late was put aside (ActiveOrderBook.add). *)
PutAside == {i \in OpenedIDs : orders[i].status = "Filled"
                               /\ \A n \in DOMAIN feed : feed[n].order # i \/ ~feed[n].filled}

(* The orders that are followed again. *)
Readopt(s) ==
    IF s \in {"OpenPositionReady", "OpenPositionOrderFilled", "TakeProfitReady"}
    THEN /\ active' = OpenedIDs \ PutAside
         /\ store' = IF s = "TakeProfitReady" THEN {} ELSE OpenedIDs
         /\ IF PutAside = {} THEN UNCHANGED nextStateC
            ELSE \E i \in PutAside : Emit(FilledState(i))
    ELSE UNCHANGED <<active, store, nextStateC>>

Recover ==
    /\ pc = "recover"
    /\ RecoverState # "None"
    /\ state' = RecoverState
    /\ Readopt(RecoverState)
    /\ base' = RecoverPosition
    /\ CalculateProfit
    /\ pc' = "select"
    /\ opened' = {}
    /\ UNCHANGED <<exchangeVars, ticked, out, left, failed, quantity, waiting, kline, stale, late, crashes>>

RecoverFails ==
    /\ pc = "recover"
    /\ RecoverState = "None"
    /\ pc' = "failed"
    /\ UNCHANGED <<exchangeVars, state, nextStateC, ticked, out, work, bookVars, statsVars,
                   kline, bounds>>

(* The program dies, and is started again. *)
Crash ==
    /\ pc # "down"
    /\ crashes < MaxCrashes /\ NoneStale
    /\ crashes' = crashes + 1
    /\ feed' = <<>>
    /\ state' = "None" /\ nextStateC' = <<>> /\ pc' = "down" /\ ticked' = FALSE
    /\ out' = "None" /\ left' = 0 /\ failed' = FALSE /\ quantity' = 0 /\ opened' = {}
    /\ active' = {} /\ store' = {} /\ waiting' = <<>> /\ base' = 0
    /\ stats' = saved
    /\ kline' = FALSE
    /\ UNCHANGED <<orders, saved, stale, late, faults>>

Restart ==
    /\ pc = "down"
    /\ pc' = "off"
    /\ UNCHANGED <<exchangeVars, state, nextStateC, ticked, out, work, bookVars, statsVars,
                   kline, bounds>>

-----------------------------------------------------------------------------
Placing == BeginPlacing \/ Place \/ PlaceFails \/ Placed

Cancelling == BeginCancelling \/ Cancelled \/ \E i \in IDs : CancelOne(i) \/ FoundFilled(i)

TakingProfit == BeginSelling \/ PlaceTakeProfit \/ PlaceTakeProfitFails \/ CloseRound

RunState == Ticks \/ Tick \/ Send \/ TooEarly \/ OpenRound \/ Placing \/ OrderFilled \/ TargetReached
            \/ Cancelling \/ TakingProfit

Next ==
    \/ \E i \in IDs : Fill(i)
    \/ HandleFill \/ OnKLine \/ KLineEmits
    \/ RunState
    \/ QueryOpenOrders \/ Recover \/ RecoverFails \/ Crash \/ Restart

Spec == Init /\ [][Next]_vars

-----------------------------------------------------------------------------
Order == [side : {"BUY", "SELL"}, qty : Nat, executed : Nat, status : {"New", "Filled", "Canceled"}]

Update == [order : Nat, qty : Nat, filled : BOOLEAN]

(* Types of the variables, and what each stage of the state goroutine leaves
   in them. *)
TypeOK ==
    /\ orders \in Seq(Order) /\ feed \in Seq(Update)
    /\ state \in State /\ out \in State
    /\ nextStateC \in Seq(State) /\ Len(nextStateC) <= 1
    /\ pc \in {"off", "recover", "select", "send", "place", "cancel", "sell", "failed", "down"}
    /\ ticked \in BOOLEAN /\ left \in 0..MaxOrderCount /\ failed \in BOOLEAN
    /\ quantity \in Nat
    /\ active \subseteq IDs /\ store \subseteq IDs
    /\ DOMAIN waiting \subseteq IDs /\ base \in Int
    /\ kline \in BOOLEAN /\ stale \in BOOLEAN /\ late \in BOOLEAN
    /\ faults \in 0..MaxFaults /\ crashes \in 0..MaxCrashes
    /\ stats.round \in 0..MaxRounds /\ stats.from \in Nat

Executed(side) == SumFunctionOnSet([i \in IDs |-> orders[i].executed], Of(side))

Idle(s) == pc = "select" /\ state = s

(* A round ends settled: when the strategy waits for the next one, what was
   bought has been sold, in spite of failed submissions and of fills that
   overtake the cancelling.  Then the profit counts every order of the strategy
   once and the investment of the next round has grown by it, when no request
   failed.
   Three things leave a remainder, and are excepted.  A crash.  A buy order that
   is cancelled after a partial fill, when the trade is still under way as the
   take-profit order is placed: nothing waits for it.  And a K-line callback that
   read OpenPositionOrderFilled and sends its signal only when the take-profit
   order is being submitted or waited for: runState takes it for the fill of that
   order and ends the round unsold. *)
RoundSettled ==
    crashes = 0 /\ ~late /\ ~stale /\ Idle("WaitToOpenPosition") =>
        /\ Executed("BUY") = Executed("SELL")
        /\ faults = 0 => /\ stats.total = Sum({i \in IDs : ~IsOpen(i)})
                         /\ stats.investment = stats.total

(* No buy order the strategy follows is open beside a take-profit order, which
   would sell less than it holds; and the orders of a round are placed when the
   take-profit order of the round before is out of the way.  Signals of earlier
   states may be in the channel, and be received, at any time but one: a late
   K-line signal that TakeProfitReady receives ends the round with its order open,
   so nothing is said of what follows that. *)
SellsAlone ==
    ~stale =>
        /\ OpenOf("SELL") # {} => OpenOf("BUY") \cap active = {}
        /\ pc = "place" => OpenOf("SELL") = {}

(* The start after the first crash finds the position the exchange has, and
   follows every open order, when nothing is traded between its two queries and
   before it no late fill was forgotten and no late K-line signal was left for
   TakeProfitReady, which may begin a round beside an open take-profit order; a
   recovery in the middle of the cancelling follows none.  (What one recovery
   counted twice or left open is sold or forgotten with its round, and the next
   one does not know of it.) *)
RecoveredRight ==
    [][(pc = "recover" /\ pc' = "select" /\ crashes <= 1 /\ ~late /\ ~stale
        /\ \A o \in opened : orders[o.id].executed = o.executed)
           => /\ base' = Executed("BUY") - Executed("SELL")
              /\ state' # "OpenPositionOrdersCancelling" => active' = {i \in IDs : IsOpen(i)}]_vars
=============================================================================
