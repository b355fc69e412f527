# bbgo trading core: TLA+ models, checks and proofs

bbgo is a Go framework for trading strategies. Exchanges push order updates,
trades and order books over websockets; strategies place orders over REST; a
small concurrent core in `pkg/core`, `pkg/bbgo`, `pkg/types` and `pkg/depth`
keeps position, active orders and order books right while both sides race, and
strategies such as dca2 and xmaker build state machines of their own on it. That
core, two of those strategies, the TWAP order executor, and the back-testing exchange strategies are tried on are
what is modelled here: the Go code whose faults need several goroutines, or a
long sequence of legal calls, to show.

## 1. Inventory

| Part | State | Operations | Hard behaviour | Correct when |
|---|---|---|---|---|
| `core.TradeCollector`, `OrderStore`, `TradeStore` | done trades, waiting trades, known orders, trade queue, position | stream callbacks, `QueueTrade`, `Process`, `ProcessTrade`, `Run`, `Recover` | trades before their order is known, the same trade by stream and REST, a mutex released between marking and applying | each trade enters the position once, none is forgotten |
| `bbgo.ActiveOrderBook`, `types.SyncOrderMap` | active orders, pending updates, pending removals | `Add`, `Update`, `Remove`, `GracefulCancel`, `FastCancel` | updates before the creation response, repeated and reordered updates, `add` running without `b.mu` | open orders are active, closed ones leave, each fill is announced once |
| grid2 `recoverActiveOrdersPeriodically`, `syncActiveOrders` | the channel `recoverC`, the time of the last sync | take ticks and signals; compare open orders with active ones, adopt and close | REST answers older than the stream, failing queries, a goroutine that sends to itself | the book is repaired in the end, as long as the goroutine runs |
| `depth.Buffer`, `util.Reonce` | buffered updates, snapshot, last update ID | `AddUpdate`, `Reset`, `fetchAndPush` | reset during a fetch, updates with gaps, callbacks after unlock | no book with a hole, a snapshot always comes |
| `types.StandardStream`, `SyncGroup` | connection, reconnect signal, close signal, contexts | `Connect`, `reconnector`, `Read`, `ping`, `Resubscribe`, `Close` | two failures and one signal, a signal during a reconnection, close during a reconnection | subscribers hear of one connection at a time, a lost one is replaced, nothing outlives `Close` |
| dca2 | state, the channel `nextStateC`, orders of the round, profit statistics | `runState`, `OnFilled`, `OnKLine`, placing and cancelling, `recover` | a channel of capacity one, dropped signals, fills during cancellation, restarts | a round sells what it bought and counts it once |
| xmaker | quotes, `Position`, `CoveredPosition` | `updateQuote`, `Hedge`, the trade callback of two streams | an unlocked counter shared by three goroutines, failing submissions | what the quotes traded is hedged once |
| `backtest.SimplePriceMatching`, `types.Account` | resting orders, last price, locked balances | `PlaceOrder`, `CancelOrder`, `processKLine` | callbacks that place and cancel in the middle of a move | account and position differ by known amounts only, no order is missed |
| `types.Position` | base, quote, average cost | `AddTrade` | a trade that turns the position around | profit is what was received less what was paid |
| `types.RBTree`, `RBTOrderBook` | a red-black tree of price levels | `Upsert`, `Delete`, traversal, copies | a rotation that loses a subtree many updates later | a balanced search tree of exactly the levels that were set |
| `bbgo.GeneralOrderExecutor` | the parts above | `SubmitOrders`, `OpenPosition`, `ClosePosition`, `GracefulCancel` | lost or late creation responses | placed orders reach store and book |
| `bbgo.TwapExecution` | the active maker order, the position of the execution, deadline timer | the updater goroutine, the stream's trade and order handlers, `Shutdown` | a rest computed while trades are in flight, a trade before its order is stored, a lost answer | traded and open stay within the target |
| Fast executor, grid2's grid, xfunding and other strategies | orders, parameters | order callbacks | the core's, which they run on | progress, target reached |
| Everything else (session, persistence, adapters, database, indicators, server, command line) | - | input, output, wiring, arithmetic | - | see "Not modelled" |

The parts interact by callbacks on the reader goroutine of the user data stream
(order updates to store and book, trades to the collector), by calls from
strategy goroutines (`SubmitOrders`, cancels) and through mutexes that each guard
one structure only: nothing is atomic across two of them.
`PROJECT.json` lists all components, and the hazards at their lines.

## 2. Modules

| Module | Models | Kind |
|---|---|---|
| `TradeCollector`, `OrderStore` | `pkg/core` collector and stores with all goroutines calling them | detailed specification |
| `TradeLedger` | what a collector promises | abstract specification |
| `TradeCollectorProofs` | theorems on it: types, the ledger, that no trade is forgotten | TLAPS |
| `ActiveOrderBook`, `SyncOrderMap` | the book on its order map, its cancelers and grid2's synchronisation | detailed specification |
| `OrderEvents` | what subscribers of a book may be told | abstract specification |
| `ActiveOrderBookProofs` | theorems on the book: cancels, open orders and fills, the order events | TLAPS |
| `DepthBuffer`, `DepthBufferProofs` | depth buffer with stream, fetches and one subscriber; theorems on it | specification, TLAPS |
| `StandardStream`, `StandardStreamProofs` | the websocket stream and its goroutines; theorems on it | detailed specification, TLAPS |
| `ConnectionEvents` | what subscribers of a stream may be told | abstract specification |
| `XMaker`, `XMakerProofs` | xmaker's quoting and hedging; theorems on it | specification, TLAPS |
| `Dca2`, `Dca2Proofs` | dca2's rounds with their state goroutine, streams and crashes; theorems on them | specification, TLAPS |
| `TwapExecution` | the updater of a TWAP execution and the stream it follows | specification |
| `SimplePriceMatching`, `Account`, `Position` | the back-testing exchange, balances, and the position of the strategy that trades on it | specification |
| `PartsProofs` | theorems on the parts of `MCParts`: the back-testing exchange, the TWAP executor, one side of a book, and dca2 from `Dca2Proofs` | TLAPS |
| `RedBlackTree` | `Upsert`, `Delete`, search and copies of `types.RBTree` | functions of a tree |
| `RBTree` | one side of an `RBTOrderBook` on it, with its updates | detailed specification |
| `PriceLevels` | a volume for each price | abstract specification |
| `Lemmas` | induction on numbers and finite sets, recursive functions, sums over finite sets; what the operators of `RedBlackTree` do to any tree | lemmas, TLAPS |
| `MC...` | small instances for TLC; `MCParts` puts `SimplePriceMatching`, `Dca2`, `TwapExecution` and `RBTree` into one run | TLC |

### How state and actions correspond to the code

A step is the longest stretch of code that touches shared state once, or that
runs under the mutex guarding the state it touches. So one handler is often
several actions, and the program counter (`pc`, or `connector`, `reader`, ... in the stream) names the place between them.
An operation that neither blocks nor is seen by another goroutine in the middle is
one action. Where one run covers several configurations, a variable `setting` holds the
one the initial state has chosen from the constant `Settings`, and no step changes it.

**TradeCollector.** Goroutines are named by what they are: a stream by its
exchange, a `SubmitOrders` call by the order it places, then the runners (`Run`) and
the recoverers (`Recover`). `Lock(p)` are the first steps of `processTrade`
and `Process`, which need `c.mu`; `Work(p)` the rest. `doneTrades` holds keys
(exchange, ID, side), `tradeStore` at most one trade per ID, `tradeC` is bounded by
`QueueCap`. `Recover` is a scan of xmaker's `tradeRecover`: its query covers what was executed since the last scan, and of older trades
(`past`) any, as its window starts one scan period and five minutes back; a query that fails (`RecoverFails`) is not made again, and `missed` records the trades
whose sure scan it was. `work[p]` are trades marked done and not applied yet: the code
releases `c.mu` (tradecollector.go:158 and :210) before it calls
`Position.AddTrade`. `closing` is the filled order whose removal is the second
critical section of `HandleOrderUpdate`. The exchange (`Execute`, `Cancel`,
`Disconnect`) is external; it reports in order per exchange, trade first or order first
(`TradeFirst`).

**ActiveOrderBook.** `orders` and `pending` are the two order maps, `mu` is `b.mu`.
`Update` takes `mu` (`UpdateOrder`) and then acts on the maps; `add` does not take
it, as in the code, so its steps `AddOrder`, `Insert`, `Sweep`, `DropPending` fall
between those of `Update`. `GracefulCancel` is the loop cancel, wait, query,
verify. A `setting` names the orders and goroutines that take part, the orders that are in the book from the
start, the faults, and whether one goroutine runs all callbacks (back-testing). grid2's goroutine
waits in one `select` for its ticker (`Tick`, then `SendSignal` into `recoverC`) and for `recoverC` itself (`TakeSignal`); `Reauthenticated` fills the channel too.
`loop` says whether a signal is in it, whether the last sync is less than ten minutes old, and whether a query of this one failed. `SyncBegin`, `AskOpenOrders`,
`ReadActive`, `SyncOne` (with `SkipOne` and `QueryOrderFails`) and `AdoptOpen` are its reconciliation in the order of its REST calls; MAX must call an order done before `SyncOne` hands it on.

**DepthBuffer.** Everything between `b.mu.Lock` and `b.mu.Unlock` is one step, the
callbacks `OnPush` and `OnReady` are steps after it. A book is, per price
level, the number of the change it shows last, so a missed change is visible.
`committed` is a history variable: the book, had the callbacks run inside the mutex.

**StandardStream.** `connector` is the goroutine of `Connect`, which becomes the reconnector; each
connection has a `reader` and a `pinger`; `subscriber` calls `Resubscribe` and `closer` calls `Close`, at any time.
`conn` is `s.Conn`, `reconnectC` whether the channel for one signal is full, `cancelled` the connection contexts
that were cancelled, `ended` the context given to `Connect`. `SetConn` waits for the goroutines of the previous
connection (`SyncGroup.WaitAndClear`) with `ConnLock` held, which is `connector = "wait"`; a connection
that was replaced gives its name back, so that two names stand for any number of reconnections. `up`
and `source` are what `ConnectionEvents` sees: the connections announced and not yet reported lost, and the one a message came from.

**Dca2.** `pc` is the place of the state goroutine, `nextStateC` its channel, `out` the state it is about to send, `ticked` whether its ticker holds a tick.
Cancelling (`cancel`) and the submission of the take-profit order (`sell`, with the `quantity` read before it) are places where callbacks run meanwhile.
`stale` records that a K-line signal was in the channel, or got into it, before the fill of the take-profit order.
The stream callback (`HandleFill`) and the K-line callback run beside it; `saved` is what the last `Sync` persisted,
`Crash` loses the rest, and the start recovers from the exchange's answers, whose open and closed orders are two queries
(`opened` is the first answer).

**XMaker.** `loop` runs `updateQuote`, `Process` and `Hedge`; the two streams run the trade callback. An addition
to `CoveredPosition` is a read (`ReadForCover`) and a write (`WriteCover`), and `raced` records that one overwrote
another. `ReadBase` and `ReadCovered` are the two reads of `Hedge`.

**SimplePriceMatching.** `path` holds the moves of `processKLine` that are left, `closed` the orders the move under way has closed
and not executed yet; between two executions (`calling`) the strategy may place and cancel. `Account`
and `Position` are operators on a balance and on a position.

**TwapExecution.** `pc` is the place of the updater: it waits in its `select`, decides (`check`), has cancelled and makes an order (`place`), puts the
created order into the book (`add`) and the store (`store`), and cleans up. `active` and `pending` hold the executed quantity the book knows of an order.
`Receive` is the stream. `lost` and `blind` are history: orders whose creation was not answered, and whether an order was made while the position was not what had been traded.

**RedBlackTree, RBTree.** `Upsert` and `Delete` with their rotations and recolourings are functions of a heap of nodes. The two mirrored
branches of the code are one operator with a side. A node is named by its key: where `Delete` copies the successor's key into a
node, `Renamed` lets the successor take its place. The code's loops are recursive functions of the number of passes, which `Size(t)` bounds: where a loop has ended its value stays.
`RBTree` sets and deletes the levels of a side with them; `PriceLevels` is what it promises.

### Abstractions

- A `SubmitOrders` call places one order; several calls run concurrently.
- Quantities are small integers; in the collector a trade is its signed quantity, net of a fee paid in base currency.
- One symbol; order tags and the notification channels `C` are left out.
- Update times of an order are distinct and increase; the exchange sends its updates in that order.
- `Age` (three minutes without an update) assumes that the reports of that order have been handled by then.
- `filterExistingOrders` reads the book in one step.
- `IsBackTesting` shortcuts of `GracefulCancel` and `FastCancel` return early and are not modelled.
- A REST request that fails and is repeated unchanged is not a step.
- A scan of `tradeRecover` ends less than five minutes after the next one is due, so that the next window covers what was executed during it.
- grid2: the ticker may have a tick at any time the goroutine waits; MAX may call a filled order done at any time, or not yet.
- `TradeStore` pruning starts with `TradeStore.BindStream`, which the collector never calls.
- Stream: `Connect` and `Close` are called once, `Close` after a connection was made (it dereferences `Conn`).
- dca2: buying a unit costs 1 and selling it brings 2; buy orders fill in the order of their prices; a submitted order is
  in book and store at once, and `GracefulCancel` leaves none of the active orders open (both are `ActiveOrderBook`'s subject); an idle
  state goroutine receives a state that is there before its ticker, of five seconds, fires again; once a signal was stale no K-line reaches the target any more, no request fails and the program does not crash, a bound; orders are kept
  when the program ends and `recoverWhenStart` is set.
- xmaker: all prices are one, so a quantity is its notional; trades are delivered once; a market order is executed when it is created; torn
  reads of position and `CoveredPosition` are bounded by the setting; a behaviour ends where an unlocked addition is lost.
- TWAP: the price is one and the account holds enough; whether the order is still at the best price is left open; `GracefulCancel`, and the addition of an order with its
pending update, are one step each; the timer and the rate limiter only decide how often the updater wakes up.
- Matching: prices and quantities are multiples of tick and step, the fee rate is one half (so that a fee is visible in whole numbers), a
  callback made in the middle of `PlaceOrder` or `CancelOrder` runs after it.

## 3. Runs

| Run | Instance | Shows |
|---|---|---|
| `collector_background` | 2 own orders with a trade each, background stream, queue of 1, `Run`, `Recover`, lost responses; the orders are interchangeable, so symmetry is sound | types; `NoTradeLost`; `NothingLeftBehind`; `ReportedIsCurrent`; the inductive `BookedOnce`; `ImplementsLedger` |
| `collector_removal` | own order in 2 trades and a foreign order, all removal flags | `NoneMissedByRemoval` |
| `collector_live` | one trade, one disconnection, failing queries of the scan, all goroutines fair | `EventuallyBooked` |
| `book` | settings: one order of 2 units with a repeated update, both cancelers, a failing query and a lost answer; two orders in back-testing; a graceful cancel of one or two orders beside a submission | types; `OpenOrdersTracked`; `FillAnnounced`; `GracefulCancelCloses`; `ImplementsEvents` |
| `book_sync` | 1 order of 2 units, a lost response, the periodic sync with any number of failing queries and re-authentications, MAX or another exchange | `FilledOrdersEventuallyLeave`, `OpenOrdersEventuallyTracked` |
| `depth` | 4 changes in updates of 1 or 2, 2 resets, 2 fetches | types; `NoSilentGap`; `FetchComing`; `FetchEnds` |
| `stream` | 2 connection names, any number of failures, reconnections and resubscriptions | types; `ReconnectComing`; `SubscriptionsComing`; `ImplementsEvents`; `ConnectsAgain`; `CloseStopsAll` |
| `parts` | the initial state chooses one of: 2 K-lines of 3 prices with up to 4 orders under 6 settings; 2 rounds of dca2 of 2 buy orders of 2 units with a failing request and a crash; 2 TWAP executions of up to 2 orders with lost answers, the deadline and a shutdown; a tree of 7 prices | types; `LockedIsReserved`, `BalancesMatchPosition`, `ProfitIsExact`, `NoneLeftCrossed`; `RoundSettled`, `SellsAlone`, `RecoveredRight`; `TargetKept`; `SearchTree`, `ImplementsLevels` |
| `xmaker` | 1 or 2 layers, 2 rounds, 2 fills, a failing request or a torn read | types; `CoverIsOutstanding`; `QuotesTracked`; `EventuallyHedged` |
| `book_lost_fill`, `depth_ready_race`, `xmaker_exposure` | smallest instance each | a comment of the code that its behaviour contradicts, see below |

**Why the bounds are enough.** The collector's race is over one trade: two goroutines
that both hold it, with a third between lock and apply. One stream, one submitter per order,
one runner and one recoverer give every pair and triple; two trades make a queue of one
block and let `Process` take several. The book's races are over one order, so one
order with two units (a partial fill between) and a repeated update reach every
order of update, response and cancel; two orders are used where a batch matters.
A depth buffer needs two changes to have a gap and a third to hide it; two resets give two
overlapping fetches. Of a stream's connections only the one in use and the one being set up exist at a time. dca2's faults
concern one round and what it leaves for the next; two buy orders of two units leave one to be cancelled, before or after a
partial fill, beside one that is filled. A K-line is two or three moves of the price, and an order is affected by the move that reaches it and
by the callback in the middle of it; two K-lines carry orders from one to the next. Two
TWAP orders are one that is moved after a partial fill and the one that replaces it. Seven keys
allow every case of red-black deletion (a red sibling with two black children and grandchildren needs at least five). One round of quotes with two
fills already has both streams and the loop add to `CoveredPosition`; the second round shows what the first left open.

**Deadlock** is not checked where orders, changes or rounds are finite and everything has
stopped once they are used up; it is checked in the runs whose `Run` loop, reconnector or
synchronisation goes on for ever.

**Fairness.** A goroutine that can run is scheduled (weak fairness). A goroutine
that waits for a mutex others use again and again gets it: Go's mutex
hands over in FIFO order once a waiter has waited a millisecond (strong fairness of
`Lock`, `StoreAgain` and `UpdateOrder`). A `select` picks among ready cases at random, so no case of the
`Run` loop or of grid2's loop is starved; for the same reason a closed channel or a done context is seen by the stream's loops, and xmaker's hedge tick is served (strong
fairness of `Process`). The scan, sync and hedge tickers tick for ever. Of the scans only that they are made is assumed (strong fairness of `TickScan`, which
a failing query satisfies too). grid2's goroutine is assumed to go on where it can (`Waking`, `Syncing`), not that its send on `recoverC` finds room, and nothing of re-authentications; an
exchange that is asked again and again answers in the end (`AskOpenOrders`, `SyncOne`), and MAX then calls a filled order done. A dial that is tried again and again succeeds once (strong fairness);
`Read` has a read deadline, so a reader whose connection is silent comes back to its `select`. Nothing else is assumed of the
exchange: orders need not fill, connections need not break.

### What the violations show

- `book_lost_fill`: `add` looks for pending updates (activeorderbook.go:411) and
  inserts the order later, without `b.mu`. A fill put aside in between is never looked at again:
  the filled order stays active and `EmitFilled` is not called. `book_sync` shows that grid2's periodic reconciliation removes it.
- `depth_ready_race`: the ready callback runs after the mutex is released, so an update accepted
  meanwhile is pushed first and overwritten by the snapshot.
- `xmaker_exposure`: the comment says no bid once too much is bought; strategy.go:290 tests
  `pos > -MaxExposurePosition` first, which holds then too, disables the asks and never looks at the other condition.

### Behaviour the model keeps and the properties step around

The code does the following, the model does too, and a property says so in its condition:

- A cancellation that was pending when its order was added is compared with itself and skipped as not newer (activeorderbook.go:304): a cancelled order may stay active. No property
  promises that it leaves.
- One failing open-orders query drops that symbol's orders from the next try (activeorderbook.go:248): `GracefulCancelCloses` holds while the queries answer.
- A scan of `tradeRecover` whose query fails is only logged (tradecollector.go:103), and the next window starts later: a trade lost with the connection is then in no window that is sure to cover it.
  `EventuallyBooked` claims nothing of such a trade (`Missed`).
- grid2's goroutine sends each tick on `recoverC`, which has one place and which only it receives (active_order_recover.go:79): when a re-authentication has put a signal there first, or an earlier tick's is
  still there, the goroutine waits for good and no sync is made any more. `FilledOrdersEventuallyLeave` and `OpenOrdersEventuallyTracked` except this (`Blocked`). At MAX only an order in state done is handed on
  (grid2/recover.go:289), which a cancelled one need not be: it may stay active, and no property promises that it leaves.
- A limit sell order that is taken above its price is paid the difference twice (matching.go:239), and `Position.AddTrade` takes the quote fee of a buy trade off what was paid (position.go:500), where the account
  adds it. `BalancesMatchPosition` counts both into `drift`: in quote currency, with the default fee mode, the two do differ.
- A K-line that closes where it opened is walked to its open price alone, whatever its high and low (matching.go:679): orders in its range stay open. `NoneLeftCrossed` says of such a K-line only that none is behind
  the last price.
- A stop order can be triggered by a move that did not reach its price (matching.go:551).
- `runState` sends to the channel it receives from (state.go:163): after a stream callback has filled the channel it blocks for good. dca2 has safety properties only.
- The K-line callback reads the state, and sends its signal later (strategy.go:177, :187). When the signal gets into the channel while the take-profit order is submitted or open, `TakeProfitReady` receives it,
  logs that it is invalid (state.go:86), and ends the round all the same: unsold, with its order open, beside which the next round's orders are placed. The model does so and sets `stale`; `SellsAlone`, `RoundSettled` and
  `RecoveredRight` claim nothing after it. They do claim that a late signal does no harm anywhere else.
- The closed orders are queried after the open ones, so an order that closes in between counts twice (recover.go:37): `RecoveredRight` is stated for starts without one.
- The state a first recovery guesses wrong it leaves to the next one, whose round then is wrong too: `RecoveredRight` is about the start after the first crash.
- A buy order may be cancelled after a partial fill whose trade is still on the stream when the take-profit order is placed (state.go:177 sends the next state at once, take_profit.go:29 sells
  the position known by then): that unit is not sold in this round, and the next one sets the position to zero. `late` records it, and `RoundSettled` and `RecoveredRight` claim nothing then.
- A start adds the current profit to the investment again (strategy.go:333): `RoundSettled` is stated for programs not started again. The statistics count the orders from `FromOrderID` on,
  the one it names included (profit_stats.go:68).
- A submission of which one order failed forgets the others (xmaker/strategy.go:481): `QuotesTracked` excepts them. An unlocked addition to `CoveredPosition` may be lost
  (strategy.go:590): `CoverIsOutstanding` and `EventuallyHedged` hold as long as none is.
- The TWAP executor drops a trade that comes before its order is stored (twap_order_executor.go:359), and computes the rest from the trades it was told of (:137): `TargetKept` claims nothing
after an order was made without knowing all that had been traded. It holds up to what raises the last order to the minimal notional. When the order it cancelled had
traded the rest, an empty order is submitted and refused (:139).
- `CopyInorder` with a limit of zero copies everything (rbtree.go:458), `CopyInorderReverse` nothing (:443): the copies `SearchTree` looks at have positive limits. `Upsert` does not count the node it adds in `size`,
  which is therefore left out.

### Hazards found while reading and not in PROJECT.json

The list there holds those that a model reaches or explains. Others: the two sides of a self trade share one ID and overwrite each other in the trade store
(tradestore.go:107); an order created although the response was lost stays unknown to the order store (order_execution.go:320); `BatchRetryPlaceOrder` may place an order twice after a lost response
(order_execution.go:383); `FastCancel` forgets orders whether or not their cancellation was accepted (activeorderbook.go:158); grid2 may adopt an order that was filled after the
answer was given (active_order_recover.go:115), which the next round repairs, though the subscribers may then hear of the order twice.

## 4. Proofs

Checked by TLAPS for every set of exchanges, orders, trades, connections, goroutines and every value of the other
constants, under the named assumptions of the modules (`CollectorAssumption`, `BookAssumption`, `DepthAssumption`, `ConnsAssumption`, `XMakerAssumption`)
and what a theorem states as its own condition: `Parameters` of `Dca2` and of `RBTree` and `Executions \subseteq Execution`, which `MCParts` assumes too (`PartsAssumption`), so that TLC evaluates them.
`RBTree`'s says that prices are positive numbers, volumes numbers, and the depths of copies positive.

**Trade collector.**
- `TypeCorrect` (`TradeCollectorProofs`): `Spec => []TypeOK`. Lemmas type the order store's and trade store's
  operators and the events put on a feed, one step per action group follows.
- `BookedOnceInvariant` (`TradeCollectorProofs`): `Spec => []BookedOnce`. That a trade is applied at most once
  is not inductive: the reason is that it was marked done, under `c.mu`, before some goroutine took it, and that only one
  goroutine did. `MarkedBeforeApplied` says so: a trade in `work[p]` is marked, not applied, and in no other
  goroutine's `work`. It also needs the origin of what is handled: a trade on a feed, in the
  queue, in a goroutine's hands, in the trade store or in a REST answer was executed, and the order store has bookable orders only
  (`OnlyExecuted`). Both parts are preserved by each action: only `CheckKnown` and `VisitKnown` add to `work`,
  and both check `doneTrades` and mark in the same step.
- `Implementation`: `Spec => ImplementsLedger`, with `booked` mapped to the trades applied at least once. `AddTrade` is
  the ledger's `Book`, `Execute` its `Execute`, every other step a stutter; `BookedOnce` gives the guard of `Book`.
- `ReportedIsCurrentInvariant`: `Spec => []ReportedIsCurrent`. It is inductive once types are known: `NextReports` shows
  that a step either leaves position and report alone and every goroutine in `apply` or `emit` where it is, or leaves
  its own goroutine there (`AddTrade`), or reports the current position (`EmitPositionUpdate`).

That no trade is forgotten: `ControlInv` says that a goroutine holds exactly one trade while it processes one and none elsewhere,
that it owns `c.mu` while it stores or filters, and that it has trades to apply only from marking the first to applying the last.
- `NoTradeLostInvariant`: `DistinctIDs => (Spec => []NoTradeLost)`. Each action hands the trade it takes on to the next place. The
  trade store is keyed by ID, hence the assumption: two trades with one ID would replace each other there.
- `NothingLeftBehindInvariant`: `DistinctIDs /\ AddOrderUpdate = FALSE => (Spec => []NothingLeftBehind)`. A marked trade is applied or in some
  goroutine's `work` (`AbsorbedOK`). A trade that waits in the store although its order is known has somebody coming for it: a goroutine about to call `Filter`, or one whose `Filter` has not
  visited it yet (`ComingOK`), because whoever adds an order calls `Process` next. An order that enters by an update (`AddOrderUpdate`) has nobody coming, so the theorem is about stores without it.
- `NoneMissedInvariant`: `Spec => []NoneMissedByRemoval`. With `AddOrderUpdate` the argument is about what is in flight: a trade has the first update of
  its order before it, or the order is in the store already, and the update that closes the order is behind it (`OrdersOK`). So a stream that takes up a trade finds its order
  known (`TradeFindsOrder`), and no other stream can remove it meanwhile (`HandsOK`).

**Active order book** (`ActiveOrderBookProofs`).
- `TypeCorrect`: `Spec => []TypeOK`.
- `GracefulCancelIsComplete`: `FastCancelers = {} => (Spec => []GracefulCancelCloses)`. When a call returns it has seen its orders
  missing from the book, so what must be shown is that an open order does not leave the book while the call runs. `BookInv` says that every
  record of an order, wherever it is held (book, pending updates, a stream, an answer), is of an order that was placed, and that a record that says
  closed is what the exchange has. `Monotone` says that what happened to an order does not unhappen. With both, `CancelInv` is inductive: only
  closed orders are remembered for removal, and an open order of the call is in the book and among the call's targets or
  those it still looks for. `FastCancel` removes open orders, so the theorem is about books nobody calls it on; `book` has it in
  its first setting, where the queries fail and the property claims nothing.
- `OpenOrdersTrackedInvariant`: `Spec => []OpenOrdersTracked`. To the facts above it adds where the submitter is with its own order (`OwnWork`): when `add` has returned, the order
  has been in the book, and from then on no step takes it out while it is open (`OrdersKept`): what is removed was recorded as closed or missing from an answer, and both are true. The property itself
  steps aside once `FastCancel` is called, so the theorem needs no condition.
- `Implementation`: `Syncers = {} => (Spec => ImplementsEvents)`. `EventInv` is the reason why nothing is announced twice:
  a goroutine gets to announce an order only while the order is in the book, inside `b.mu`; it takes the order out before it announces; and the one `SubmitOrders` call
  that could put it back has been there already. Two announcements are therefore never on their way at once, and none is on its way after one was made.
  With `syncActiveOrders` the theorem does not hold: it may adopt an order from an answer that is older than the order's cancellation
  (active_order_recover.go:115), and the cancellation may then be announced again when the order is removed once more.

- `FillAnnouncedInvariant`: `Syncers = {} /\ BacktestAlone => (Spec => []FillAnnounced)`. `FillAnnounced` is about back-testing settings only, because with
  goroutines of its own the stream can lose a fill (`book_lost_fill`). `BacktestAlone` says that a back-test has no canceler of its own, as the
  shortcuts for `IsBackTesting` are not modelled; nobody synchronises a simulated exchange. `BacktestInv` is why a fill cannot be lost: one goroutine acts at a time and
  finds in a map what it saw there (`OneAtATime`, `StillThere`); the stream says last of an order that it is closed, so no older update overwrites a fill that is pending
  (`ClosedLast`, `NoneBehind`, `NotReplaced`); and a fill is announced, on the stream, in the hands of somebody who will announce it, or kept for a submitter that still adds the order (`Coming`).

**Depth buffer** (`DepthBufferProofs`), for any number of changes, resets, price levels and fetch goroutines.
- `TypeCorrect`: `Spec => []TypeOK`. What `PushUpdates` and `Apply` return is computed by recursive functions, so their types are inductions over the buffer.
- `NoSilentGapInvariant`: `Spec => []NoSilentGap`. The property is about the moment the buffer has caught up with its snapshot, the invariant `Gapless` about all others: the book shows a
  run of changes without a hole, begun within the snapshot or right after it, above the snapshot. `Ordered` is what makes the run continue: updates are published, and wait
  on the stream, in the mutex queue and in the buffer in the order of their IDs without overlap.
- `FetchAlwaysComing`: `Spec => []FetchComing`. It needs the type of `pc` only: each action that drops the snapshot either
  signals `resetC` or leaves a fetch goroutine in its loop.

**Stream** (`StandardStreamProofs`).
- `TypeCorrect`, and with it the places at which a connection without goroutines can be.
- `ReconnectComingInvariant`: `Spec => []ReconnectComing`: the reader of the current connection leaves only after it has signalled, and a signal is taken only by
  the reconnector, which then is on its way to replace that connection.
- `SubscriptionsComingInvariant`: new subscriptions stay announced by a signal, or by a connect callback that is still to come.
- `Implementation`: `Spec => ImplementsEvents`: a connection is announced only after the goroutines of the previous one have
  returned, and its reader dispatches only while it is announced.

**xmaker** (`XMakerProofs`).
- `TypeCorrect`: `Spec => []TypeOK`. The types include sums of trades and of layers.
- `QuotesTrackedInvariant`: `Spec => []QuotesTracked`. The inductive invariant adds that there are quotes under submission
  only from a submission until they are added to the book, and that meanwhile no other quote is open but the failed ones and those in the book.
- `CoverIsOutstandingInvariant`: `Spec => []CoverIsOutstanding`. `CoveredPosition` is a sum of what single steps added, the property a sum over the trades outstanding; a step adds
  to the one what it takes from the other, if each trade is in one place: on its stream once, waiting for its order, taken by `Process`, or applied (`Delivered`), what a goroutine adds is
  in its hands and in no other's (`Occupied`), and a new trade or hedge order is none of the old ones (`Numbered`).

**dca2** (`Dca2Proofs`), under `Parameters`, which says that the constants are numbers and that a round has a buy order.
- `Dca2TypeCorrect`: `Spec => []TypeOK`, by `Types` and `Stages`: what the state goroutine is doing belongs to its state.
- `SellsAloneInvariant`: `Spec => []SellsAlone`, crashes and recoveries included, until a signal is stale: the invariants of the three properties are kept by every step after which none was. That a take-profit order is alone rests on the order of all orders: it follows a buy order, and is the last
  one while it is open (`SellsLast`), so that it can only be open in `TakeProfitReady`. Signals of an earlier state may still be in the channel, and `runState` runs the transition of whatever it
  receives; but as long as no K-line signal was stale, once the take-profit order is awaited the channel is empty or that order is closed (`SellAwaited`), since what is reported as filled is closed (`FilledIsClosed`). After a crash the guess of the recovery
  is right about the take-profit order because a buy order follows each older one (`BuysLast`), and no order opens between its two queries (`OpenIsOpened`).
- `RoundSettledInvariant`: `Spec => []RoundSettled`. The invariant `Rounds` holds until the first crash. Every order is known to the store and every open one is followed (`Fresh`, `Following`), so
  none is open after the cancelling. Position and fills under way are what was bought and not sold (`Counted`); a round begins with neither and has only bought until it sells (`Buying`), and the take-profit order
  sells all of it: it is open, its fill is under way, or all is handled (`Selling`). For the profit, the orders before `FromOrderID` are closed and were counted once (`Accounted`), however often requests failed in the
  placing. `SumChange` and `SumShift` of `Lemmas` carry the sums over an order that fills and over the head of the stream.

- `RecoveredRightAlways`: `Spec => RecoveredRight`, an action property. The invariant `Past` holds until the start after the first crash: the rounds before the current one, as `getCurrentRoundOrders` tells
  them apart, are closed and left nothing (`PastSettled`), a take-profit order sells exactly what is held (`SoldOut`, which needs `Rounds`), and an order that was open at the first query and has not
  traded since is open (`OpenedRight`). Then the sum over the records of the round is the sum over all orders (`RecoveredPosition`), since an open order without an execution adds nothing.

The proof found a fault of the model, which is corrected: the states of `recoverState` were a CASE whose guards overlap, which is a choice and not the order of the code's returns.

**TWAP** (`PartsProofs`, where its variables have the names `MCParts` gives them). `TargetKeptInvariant`: `Executions \subseteq Execution => (Spec => []TargetKept)`, whose condition only says that the executions are
records of a target and so on. An order is made when no order is active (`NoneBeside`); an open order is active, in the updater's hand, or one
whose creation was not answered (`Followed`); and nobody hears of more than was traded (`HeardOK`), so that no open order leaves the active ones. Hence what was committed before was traded, and the
rest that is ordered is what is left of the target, unless the updater has not heard of all of it, which is `blind`.
`TwapTypeCorrect`: `Spec => []TypeOK`, on top of that invariant. That the position is never more than was traded needs `CountedOK`: what is counted and what the stream still has to
tell (`Untold`, a sum over the stream) is together no more than what was traded. A fill adds the same to both sides, an event that is received passes from the one summand to
the other or, when its order is not stored, out of the sum. `FollowedOK` says that what the book believes of an order was traded, and that the order the updater has in hand is one of the exchange's.

**One side of a book** (`PartsProofs` on `Lemmas`), for any prices, volumes and depths.
- What is proved of `RedBlackTree` is proved of any tree. A heap of nodes with links and parents is a tree if there is a set of nodes below each node (`sub`), the child's smaller than its parent's, and the two
  sides of a node apart and in order (`Tree`); it is red-black if there is a black height for each node (`IsRedBlack`). `Sound` says that both exist. They are given, not computed: a rotation changes them at two
  nodes and nowhere else, so each step says how, and no recursion over the shape of the tree is needed.
- `UpsertIs`: a pass of `InsertFixup` keeps a tree in which only the red cursor may have a red parent or be the red root (`Inserting`) and moves the cursor to fewer nodes above, so that after `Size` passes there is no such node.
- `DeleteIs`: what is cut out leaves a hole, a subtree that is one black node too low (`Deleting`); each of the four cases of `DeleteFixup` fills it or moves it up, and the last node painted black fills
  what is left. `Renamed` puts the successor in the place of the deleted key, and the order stays since no node lies between the two. Keys and volumes are those before, without the key.
- `SearchIs`, `OrderedIs`: the way down ends at the key, and `Leftmost`, `Rightmost` and `Successor` are the least, the greatest and the next key. `CopiesAre`: `Inorder` is the sorted sequence of the keys, a copy
  inserts the first of them, and they are the best.
- `SearchTreeInvariant` and `LevelsImplemented`: `PartsSpec => []SearchTree` and `PartsSpec => ImplementsLevels`. A book is `Sound` at first and after each update, and with that an update maps to the `Set` or the `Delete` of
  `PriceLevels`. `SameBook` shows that the book's definitions are those `Lemmas` speaks of.

**Back-testing exchange** (`PartsProofs`), for any prices, K-lines, settings, funds and number of orders.
- `TypeCorrect`: `Spec => []TypeOK`, by `Types`, which also says what an order in a book and a closed one look like: without it a move or an execution is not typed.
- `BalancesMatch`: `Spec => []BalancesMatchPosition`: locking and unlocking move money between the two parts of a balance, and a trade changes the total by what `AddTrade` adds to the
  position and by what the step adds to `drift`: nothing where fees are paid in base currency or a token, but for sell orders taken above their price.
- `ProfitIsExactInvariant`: `Spec => []ProfitIsExact`. Average cost and profit are reduced fractions, and nothing is known of a greatest common divisor here but that it divides both numbers. That is
  enough, as the invariant speaks of the value of a fraction (`Is`): each operation has the value of the unreduced one. What is left are identities of integers: `EnlargeExact` (the
  average cost times the base is what was paid), `ReduceExact` (the margin times what is covered, with the price as the new cost of a position that turns around), joined by `AddTradeExact`.
- `NoneLeftCrossedInvariant`: `Spec => []NoneLeftCrossed`. The property speaks of the time between moves; `Uncrossed` says of every state that an open order with a price is beyond the last price, and that the moves
  left lead in their directions, each from where the one before it ends (`Directed`): a move passes every price on its way, so what it does not take it does not cross. For the range of a K-line, `Walked` says that an
  order open before it and within its range has the move to its side's extreme still ahead; `PathReaches` shows that a K-line that closes away from its open has both moves.
- `LockedIsReservedInvariant`: `Spec => []LockedIsReserved`. What is locked is a sum over the orders of the books and of the closed orders not executed yet (`Locked`). A step takes out the very order it
  unlocks since numbers tell orders apart (`Unique`), and a move changes the prices of no order but stop orders (`Kinds`). `NoPanic` shows that an execution finds enough locked, so that
  `executeTrade` does not panic, with the one exception of STOP_MARKET orders, which reserve at a price of zero.

**The parts together** (`PartsProofs`). A step of `PartsSpec` is a step of one part and leaves the others as they are (`PartsStep`), so what is proved of a part holds in the run:
`RoundSettledInvariant`, `SellsAloneInvariant`, `RecoveredRightAlways`, `TargetIsKept` and the two above state the run's own properties for `PartsSpec`, and their conditions are `PartsAssumption`, which TLC
evaluates. `AllTypesCorrect`: `PartsSpec => []AllTypesOK` joins the types of the four parts. `MCParts` and `PartsProofs` have an instance of dca2's definitions each; `SameStrategy` shows that they are the same, action by action.

**Induction over data.** The library's induction theorems take an operator as a parameter, which the provers cannot instantiate. The lemmas of `Lemmas` take
the set of the numbers, or of the finite sets, for which something holds: `IntervalInduction`, `ValuesInduction` for what a recursive function computes,
`SubsetInduction`, and what they give for the `SumFunctionOnSet` of the community modules. That is how `PushUpdates` and `Apply` of the buffer, `Filter` of the matching
and the sums of xmaker, TWAP and the account are reasoned about.

Every invariant and action property of the runs, and every refinement of an abstract specification, is proved. Only model-checked is liveness, since fairness and ENABLED are out of the prover's reach:
`EventuallyBooked`, `FilledOrdersEventuallyLeave`, `OpenOrdersEventuallyTracked`, `FetchEnds`, `ConnectsAgain`, `CloseStopsAll` and `EventuallyHedged`.

## 5. What could follow

1. `OpenPosition` and `ClosePosition` on book and collector; `BatchRetryPlaceOrder`.
2. grid2's recovery at the start, which has the same two queries as dca2's.

## 6. Not modelled

Most of the repository's code is of these kinds, which is why the models cover a small share of its lines:

- Exchange adapters, database synchronisation, HTTP, gRPC, chat and notifier code, and code generated for them: conversion, input and output.
- Session, environment, trader and persistence: start-up wiring and reflection.
- Indicators and most strategies: sequential numeric decisions without concurrent state; floating point is out of TLC's reach.
- Fixed point arithmetic: replaced by exact integers.
- The slice order book and `MutexOrderBook`: the depth buffer uses only the result of load and update.
- The fast executor, grid2's grid, xfunding, xdepthmaker and xalign: they use the same book, collector and
  streams; what they decide themselves is numeric and runs in one goroutine.
