------------------------- MODULE SimplePriceMatching -------------------------
(***************************************************************************)
(* The back-testing exchange (pkg/backtest): SimplePriceMatching walks the *)
(* price along each K-line and fills the orders it reaches, out of the     *)
(* locked balances of an Account.  Strategies place and cancel orders from *)
(* callbacks, also in the middle of a K-line, between the execution of two *)
(* orders that one move of the price closed.  Their trade collector adds   *)
(* each trade to a Position.                                               *)
(*                                                                         *)
(* Prices and quantities are whole multiples of the tick and the step of   *)
(* the market, so truncating them changes nothing; the minimum quantity    *)
(* and notional are below the quantities used.  A callback made in the     *)
(* middle of PlaceOrder or CancelOrder runs after it.                      *)
(***************************************************************************)
EXTENDS Account, Position, Sequences, SequencesExt

CONSTANTS
    Prices,      \* prices of orders and K-lines
    KLines,      \* K-lines the exchange may replay
    Settings,    \* order types and quantities in use, fee mode, and bound on the orders
    BaseFund,    \* initial balance of the base currency
    QuoteFund,   \* initial balance of the quote currency
    MaxKLines    \* bound: K-lines processed

OrderType == {"LIMIT", "LIMIT_MAKER", "MARKET", "STOP_LIMIT", "STOP_MARKET"}

KLine == [open : Prices, high : Prices, low : Prices, close : Prices]

Setting == [types : SUBSET OrderType, quantities : SUBSET (Nat \ {0}),
            feeMode : {"QUOTE", "NATIVE", "TOKEN"}, orders : Nat]

ASSUME MatchingAssumption ==
    /\ Prices \subseteq Nat \ {0} /\ KLines \subseteq KLine
    /\ \A s \in Settings : s \in Setting
    /\ \A k \in KLines : \A p \in {k.open, k.close} : k.low <= p /\ p <= k.high
    /\ BaseFund \in Nat /\ QuoteFund \in Nat /\ MaxKLines \in Nat

None == [none |-> TRUE]

VARIABLES
    setting,    \* one of Settings
    bidOrders,  \* m.bidOrders
    askOrders,  \* m.askOrders
    lastPrice,  \* m.lastPrice, 0 before the first K-line
    kline,      \* the K-line in m.klineCache
    nextKLine,  \* m.nextKLine
    path,       \* moves of the price left in processKLine
    closed,     \* closedOrders of the move under way, not yet executed
    account,    \* m.account, by currency
    position,   \* Position of the strategy
    calling,    \* a callback of the strategy runs
    panicked,   \* executeTrade wanted to use more than the locked balance
    placed,     \* orders created
    busy,       \* processKLine runs
    count,      \* K-lines processed
    (* history *)
    before,     \* orders created before the K-line that is or was processed
    drift       \* what the account gained in quote currency and the position did not

books == <<bidOrders, askOrders>>
walk == <<kline, nextKLine, path, busy, count, before>>
vars == <<setting, books, lastPrice, walk, closed, account, position, calling, panicked, drift, placed>>

Init ==
    /\ setting \in Settings
    /\ bidOrders = <<>> /\ askOrders = <<>>
    /\ lastPrice = 0
    /\ kline = None /\ nextKLine = None /\ path = <<>>
    /\ busy = FALSE /\ count = 0 /\ before = 0
    /\ closed = <<>>
    /\ account = [BASE |-> NewBalance(BaseFund), QUOTE |-> NewBalance(QuoteFund)]
    /\ position = NewPosition
    /\ calling = TRUE
    /\ panicked = FALSE /\ drift = 0
    /\ placed = 0

IsStop(type) == type \in {"STOP_LIMIT", "STOP_MARKET"}

-----------------------------------------------------------------------------
(***************************************************************************)
(* Executing an order                                                      *)
(***************************************************************************)
(* feeModeFunction, at a fee rate of one half, from the order's price. *)
Fee(o) ==
    LET paid == IF setting.feeMode = "NATIVE" /\ o.side = "BUY" THEN "BASE"
                ELSE IF setting.feeMode = "TOKEN" THEN "FEE" ELSE "QUOTE"
    IN  [currency |-> paid,
         amount |-> (IF paid = "BASE" THEN o.quantity ELSE o.quantity * o.price) \div 2]

NewTradeFromOrder(o, price) ==
    [side |-> o.side, price |-> price, quantity |-> o.quantity,
     quoteQuantity |-> o.quantity * price, fee |-> Fee(o).amount, feeCurrency |-> Fee(o).currency]

FeeIn(t, currency) == IF t.feeCurrency = currency THEN t.fee ELSE 0

Executable(a, t) ==
    IF t.side = "BUY" THEN CanUse(a.QUOTE, t.quoteQuantity) ELSE CanUse(a.BASE, t.quantity)

(* Mutant: a fee in the base currency is not paid. *)
ExecuteTradeFree(a, t) ==
    IF t.side = "BUY"
    THEN [QUOTE |-> AddBalance(UseLockedBalance(a.QUOTE, t.quoteQuantity), -FeeIn(t, "QUOTE")),
          BASE |-> AddBalance(a.BASE, t.quantity)]
    ELSE [BASE |-> UseLockedBalance(a.BASE, t.quantity),
          QUOTE |-> AddBalance(a.QUOTE, t.quoteQuantity - FeeIn(t, "QUOTE"))]

(* The account after executeTrade. *)
ExecuteTrade(a, t) ==
    IF t.side = "BUY"
    THEN [QUOTE |-> AddBalance(UseLockedBalance(a.QUOTE, t.quoteQuantity), -FeeIn(t, "QUOTE")),
          BASE |-> AddBalance(a.BASE, t.quantity - FeeIn(t, "BASE"))]
    ELSE [BASE |-> AddBalance(UseLockedBalance(a.BASE, t.quantity), -FeeIn(t, "BASE")),
          QUOTE |-> AddBalance(a.QUOTE, t.quoteQuantity - FeeIn(t, "QUOTE"))]

(* Position takes the quote fee of a buy trade off what was paid, the account adds it. *)
FeeGap(t) == IF t.side = "BUY" THEN -2 * FeeIn(t, "QUOTE") ELSE 0

-----------------------------------------------------------------------------
(***************************************************************************)
(* PlaceOrder and CancelOrder, called by the strategy                      *)
(***************************************************************************)
IsLimitTaker(o) ==
    /\ lastPrice # 0
    /\ o.type = "LIMIT"
    /\ IF o.side = "BUY" THEN o.price >= lastPrice ELSE o.price <= lastPrice

(* The price the balance is checked with. *)
CheckedPrice(o) ==
    CASE o.type = "MARKET" -> lastPrice
      [] o.type = "STOP_MARKET" -> o.stop
      [] OTHER -> o.price

Currency(side) == IF side = "BUY" THEN "QUOTE" ELSE "BASE"

Reserve(side, quantity, price) == IF side = "BUY" THEN quantity * price ELSE quantity

Lock(o) ==
    LET fund == Reserve(o.side, o.quantity, CheckedPrice(o))
    IN  /\ CanLock(account[Currency(o.side)], fund)
        /\ account' = [account EXCEPT ![Currency(o.side)] = LockBalance(@, fund)]

(* The price a limit order is taken at: its own when the next K-line goes past it. *)
TakenAt(o) ==
    IF /\ nextKLine # None
       /\ IF o.side = "BUY" THEN nextKLine.high > o.price ELSE nextKLine.low < o.price
    THEN o.price
    ELSE lastPrice

(* Mutant: the rest stays locked. *)
KeepRest(a, o, price) == a

(* What is left locked of a limit buy order, and what a sell order gets on top. *)
UnlockRest(a, o, price) ==
    IF o.type # "LIMIT" THEN a
    ELSE IF o.side = "BUY" THEN [a EXCEPT !.QUOTE = UnlockBalance(@, (o.price - price) * o.quantity)]
    ELSE [a EXCEPT !.QUOTE = AddBalance(@, (price - o.price) * o.quantity)]

(* A limit sell order taken above its price is paid twice for the difference. *)
PaidTwice(o, price) ==
    IF o.type = "LIMIT" /\ o.side = "SELL" THEN (price - o.price) * o.quantity ELSE 0

(* A market order, or a limit order that crosses the price, is executed at once. *)
Take(o) ==
    LET order == IF o.type = "MARKET" THEN [o EXCEPT !.price = lastPrice] ELSE o
        price == IF o.type = "MARKET" THEN lastPrice ELSE TakenAt(o)
        trade == NewTradeFromOrder(order, price)
        fund == Reserve(o.side, o.quantity, CheckedPrice(o))
        locked == [account EXCEPT ![Currency(o.side)] = LockBalance(@, fund)]
    IN  /\ CanLock(account[Currency(o.side)], fund)
        /\ account' = UnlockRest(ExecuteTrade(locked, trade), order, price)
        /\ position' = AddTrade(position, trade)
        /\ drift' = drift + FeeGap(trade) + PaidTwice(order, price)
        /\ UNCHANGED books

(* Any other order waits in the book. *)
Rest(o) ==
    /\ Lock(o)
    /\ IF o.side = "BUY"
       THEN bidOrders' = Append(bidOrders, o) /\ UNCHANGED askOrders
       ELSE askOrders' = Append(askOrders, o) /\ UNCHANGED bidOrders
    /\ UNCHANGED <<position, drift>>

PlaceOrder(type, side, quantity, price, stop) ==
    LET o == [id |-> placed + 1, type |-> type, side |-> side, quantity |-> quantity,
              price |-> price, stop |-> stop, avg |-> 0, filled |-> FALSE, priced |-> lastPrice # 0]
    IN  /\ calling /\ ~panicked
        /\ placed < setting.orders
        /\ type = "MARKET" => lastPrice # 0
        /\ IF type = "MARKET" \/ IsLimitTaker(o) THEN Take(o) ELSE Rest(o)
        /\ placed' = placed + 1
        /\ UNCHANGED <<setting, lastPrice, walk, closed, calling, panicked>>

(* Market orders have no price, only stop orders a stop price. *)
Place ==
    \E type \in setting.types, side \in {"BUY", "SELL"}, quantity \in setting.quantities :
    \E price \in IF type \in {"MARKET", "STOP_MARKET"} THEN {0} ELSE Prices :
    \E stop \in IF IsStop(type) THEN Prices ELSE {0} :
        PlaceOrder(type, side, quantity, price, stop)

(* The elements of s that are in S, in their order. *)
Filter(s, S) ==
    LET kept[i \in 0 .. Len(s)] ==
            IF i = 0 THEN <<>> ELSE IF s[i] \in S THEN Append(kept[i - 1], s[i]) ELSE kept[i - 1]
    IN  kept[Len(s)]

Without(orders, o) == Filter(orders, {b \in ToSet(orders) : b.id # o.id})

(* What CancelOrder unlocks. *)
Unlocked(o) == Reserve(o.side, o.quantity, o.price)

(* An order that cannot be unlocked has left the book all the same. *)
CancelOrder(o) ==
    /\ calling /\ ~panicked
    /\ bidOrders' = Without(bidOrders, o)
    /\ askOrders' = Without(askOrders, o)
    /\ account' = [account EXCEPT ![Currency(o.side)] =
                      IF CanUnlock(@, Unlocked(o)) THEN UnlockBalance(@, Unlocked(o)) ELSE @]
    /\ UNCHANGED <<setting, lastPrice, walk, closed, position, calling, panicked, drift, placed>>

Open == ToSet(bidOrders) \cup ToSet(askOrders)

Cancel == \E o \in Open : CancelOrder(o)

-----------------------------------------------------------------------------
(***************************************************************************)
(* buyToPrice and sellToPrice                                              *)
(***************************************************************************)
Up(price) == [up |-> TRUE, to |-> price]
Down(price) == [up |-> FALSE, to |-> price]

(* A stop order is compared with the new price alone, whatever its side. *)
Triggered(o, move) == IF move.up THEN move.to >= o.stop ELSE move.to <= o.stop

(* A triggered stop limit order that is a taker at the new price. *)
TakerAt(o, price) == IF o.side = "BUY" THEN o.price >= price ELSE o.price <= price

(* Mutant: an order at exactly the new price is not reached. *)
GoesPast(o, move) ==
    IF o.side = "BUY" THEN ~move.up /\ move.to < o.price ELSE move.up /\ move.to > o.price

Reaches(o, move) ==
    IF o.side = "BUY" THEN ~move.up /\ move.to <= o.price ELSE move.up /\ move.to >= o.price

(* The order after the move. *)
Moved(o, move) ==
    CASE IsStop(o.type) /\ ~Triggered(o, move) -> o
      [] o.type = "STOP_MARKET" /\ Triggered(o, move) ->
            [o EXCEPT !.type = "MARKET", !.price = move.to, !.filled = TRUE]
      [] o.type = "STOP_LIMIT" /\ Triggered(o, move) ->
            IF TakerAt(o, move.to)
            THEN [o EXCEPT !.type = "LIMIT", !.avg = move.to, !.filled = TRUE]
            ELSE [o EXCEPT !.type = "LIMIT"]
      [] OTHER -> [o EXCEPT !.filled = Reaches(o, move)]

IsFilled(o) == o.filled

(* Mutant: a filled order stays in the book. *)
StaysAnyway(o) == TRUE

StaysOpen(o) == ~o.filled

MoveTo(move) ==
    LET bids == [i \in DOMAIN bidOrders |-> Moved(bidOrders[i], move)]
        asks == [i \in DOMAIN askOrders |-> Moved(askOrders[i], move)]
        all == IF move.up THEN bids \o asks ELSE asks \o bids
        open == {o \in ToSet(all) : StaysOpen(o)}
    IN  /\ bidOrders' = Filter(bids, open)
        /\ askOrders' = Filter(asks, open)
        /\ closed' = Filter(all, {o \in ToSet(all) : IsFilled(o)})
        /\ lastPrice' = move.to

Move ==
    /\ path # <<>> /\ closed = <<>> /\ ~panicked
    /\ MoveTo(Head(path))
    /\ path' = Tail(path)
    /\ calling' = FALSE
    /\ UNCHANGED <<setting, kline, nextKLine, busy, count, before, account, position, panicked, drift, placed>>

ExecutedPrice(o) == IF o.avg # 0 THEN o.avg ELSE o.price

(* The first closed order is executed; its trade and its update are emitted. *)
Execute ==
    LET o == Head(closed)
        trade == NewTradeFromOrder(o, ExecutedPrice(o))
    IN  /\ closed # <<>> /\ ~panicked
        /\ Executable(account, trade)
        /\ account' = ExecuteTrade(account, trade)
        /\ position' = AddTrade(position, trade)
        /\ drift' = drift + FeeGap(trade)
        /\ closed' = Tail(closed)
        /\ calling' = TRUE
        /\ UNCHANGED <<setting, books, lastPrice, walk, panicked, placed>>

Panic ==
    LET o == Head(closed)
    IN  /\ closed # <<>> /\ ~panicked
        /\ ~Executable(account, NewTradeFromOrder(o, ExecutedPrice(o)))
        /\ panicked' = TRUE
        /\ UNCHANGED <<setting, books, lastPrice, walk, closed, account, position, calling, drift, placed>>

-----------------------------------------------------------------------------
(***************************************************************************)
(* processKLine, called by Exchange.ConsumeKLine                           *)
(***************************************************************************)
(* The moves after the open price: none when the K-line closes where it opened. *)
Path(k) ==
    IF k.close < k.open
    THEN <<Up(k.high)>> \o (IF k.low < k.close THEN <<Down(k.low), Up(k.close)>> ELSE <<Down(k.close)>>)
    ELSE IF k.close > k.open
    THEN <<Down(k.low)>> \o (IF k.high > k.close THEN <<Up(k.high), Down(k.close)>> ELSE <<Up(k.close)>>)
    ELSE <<>>

ToOpen(k) == IF lastPrice > k.open THEN Down(k.open) ELSE Up(k.open)

AtRest == path = <<>> /\ closed = <<>>

(* The first K-line is only cached. *)
FirstKLine(k) ==
    /\ kline = None
    /\ kline' = k
    /\ calling' = FALSE
    /\ UNCHANGED <<setting, books, lastPrice, nextKLine, path, busy, count, before, closed, account,
                   position, panicked, drift, placed>>

(* The cached K-line is processed; the first price is taken without a move. *)
ProcessKLine ==
    /\ kline # None /\ ~busy
    /\ count < MaxKLines /\ ~panicked
    /\ IF lastPrice = 0
       THEN lastPrice' = kline.open /\ path' = Path(kline)
       ELSE path' = <<ToOpen(kline)>> \o Path(kline) /\ UNCHANGED lastPrice
    /\ busy' = TRUE
    /\ calling' = FALSE
    /\ count' = count + 1
    /\ before' = placed
    /\ UNCHANGED <<setting, books, kline, nextKLine, closed, account, position, panicked, drift, placed>>

(* It is closed: strategies are called, who can be filled by the next one. *)
CloseKLine(k) ==
    /\ busy /\ AtRest /\ ~panicked
    /\ nextKLine' = k
    /\ kline' = k
    /\ busy' = FALSE
    /\ calling' = TRUE
    /\ UNCHANGED <<setting, books, lastPrice, path, count, before, closed, account, position, panicked,
                   drift, placed>>

ConsumeKLine == \E k \in KLines : FirstKLine(k) \/ CloseKLine(k)

Next == Place \/ Cancel \/ ConsumeKLine \/ ProcessKLine \/ Move \/ Execute \/ Panic

Spec == Init /\ [][Next]_vars

-----------------------------------------------------------------------------
(***************************************************************************)
(* Properties                                                              *)
(***************************************************************************)
Order == [id : 1..setting.orders, type : OrderType, side : {"BUY", "SELL"}, quantity : setting.quantities,
          price : Prices \cup {0}, stop : Prices \cup {0}, avg : Prices \cup {0},
          filled : BOOLEAN, priced : BOOLEAN]

TypeOK ==
    /\ setting \in Settings
    /\ \A o \in Open \cup ToSet(closed) : o \in Order
    /\ \A o \in ToSet(bidOrders) : o.side = "BUY" /\ ~o.filled
    /\ \A o \in ToSet(askOrders) : o.side = "SELL" /\ ~o.filled
    /\ \A o \in ToSet(closed) : o.filled /\ ~IsStop(o.type) /\ o.price # 0
    /\ lastPrice \in Prices \cup {0}
    /\ kline \in KLines \cup {None} /\ nextKLine \in {kline, None}
    /\ \A i \in DOMAIN path : path[i] \in [up : BOOLEAN, to : Prices]
    /\ account \in [{"BASE", "QUOTE"} -> Balance]
    /\ {calling, busy, panicked} \subseteq BOOLEAN /\ drift \in Int
    /\ placed \in 0..setting.orders /\ count \in 0..MaxKLines /\ before \in 0..placed

Pending(side) == {o \in Open \cup ToSet(closed) : o.side = side}

Reserved(side) ==
    SumFunctionOnSet([o \in Pending(side) |-> Reserve(side, o.quantity, CheckedPrice(o))], Pending(side))

Stops == {t \in setting.types : IsStop(t)}

(* The base currency that is locked is what the open sell orders, and those
   closed but not yet executed, reserved: never more, which would keep funds
   from the strategy, nor less, which makes a later execution panic.  For the
   quote currency the same holds without stop orders; a stop limit order may
   leave some locked for good, but never takes what another one reserved. *)
LockedIsReserved ==
    /\ account.BASE.locked = Reserved("SELL")
    /\ Stops = {} => account.QUOTE.locked = Reserved("BUY")
    /\ "STOP_MARKET" \notin Stops => account.QUOTE.locked >= Reserved("BUY") /\ ~panicked

(* The account and the strategy's position, which learn of the trades in
   different ways, agree on what was gained of the base currency; and of the
   quote currency they differ by two things and nothing else, in every fee mode:
   a limit sell order taken above its price is paid twice for the difference, and
   Position takes the quote fee of a buy trade off what was paid, where the
   account adds it.  So no money is lost or made on the way through locking,
   executing, fees and unlocking but these amounts. *)
BalancesMatchPosition ==
    /\ Total(account.BASE) = BaseFund + position.base
    /\ Total(account.QUOTE) = QuoteFund + position.quote + drift

(* Without fees in the traded currencies the accumulated profit is what the
   quote balance gained, with the base that is held valued at its average
   cost, across enlarging, reducing, closing and turning the position. *)
ProfitIsExact == setting.feeMode = "TOKEN" => Equal(position.profit, Worth(position))

Beyond(o, low, high) == IF o.side = "BUY" THEN o.price < low ELSE o.price > high

(* When no move is being worked on, no open LIMIT order is at or behind the last
   price, not even one placed in the middle of a K-line; orders placed before the
   first price excepted.  And a K-line that closes away from its open misses none:
   when it was walked, the limit orders that were open before it and still are lie
   outside its range.  (A K-line that closes where it opened is walked to its open
   price alone, whatever its range.) *)
NoneLeftCrossed ==
    /\ closed = <<>> => \A o \in Open : o.type = "LIMIT" /\ o.priced => Beyond(o, lastPrice, lastPrice)
    /\ busy /\ AtRest /\ kline.close # kline.open =>
           \A o \in Open : o.stop = 0 /\ o.id <= before => Beyond(o, kline.low, kline.high)
=============================================================================
