--------------------------- MODULE TradeCollector ---------------------------
(***************************************************************************)
(* core.TradeCollector with the core.OrderStore and core.TradeStore it     *)
(* reads (pkg/core), the SubmitOrders path of bbgo.GeneralOrderExecutor    *)
(* that feeds the order store, and the periodic Recover of xmaker.         *)
(*                                                                         *)
(* Threads are goroutines.  There is one per user data stream (named by    *)
(* its exchange), one per SubmitOrders call (named by the own order it     *)
(* places), goroutines that run TradeCollector.Run, and goroutines that    *)
(* run Recover.  A step is the longest code that touches state shared with *)
(* another goroutine once, or that runs under the mutex guarding it.       *)
(***************************************************************************)
EXTENDS Integers, Sequences, FiniteSets

CONSTANTS
    Exchanges,        \* the sessions whose user data streams are bound
    Orders,           \* order IDs that can come to exist
    Own,              \* the orders placed through SubmitOrders
    ExchangeOf,       \* [Orders -> Exchanges]
    Trades,           \* [id, order, ex, side, qty]: the trades that can be executed
    Background,       \* exchanges bound with BindStreamForBackground
    Runners,          \* goroutines executing Run, or a strategy's Process ticker
    Recoverers,       \* goroutines executing Recover
    TradeFirst,       \* BOOLEAN: a fill is reported as trade then order update
    QueueCap,         \* capacity of tradeC (100 in the code)
    MaxDrops,         \* how often a stream may lose what is in flight
    QueryFails,       \* BOOLEAN: a query for the trades of an exchange may fail
    AddOrderUpdate, RemoveCancelled, RemoveFilled

OS == INSTANCE OrderStore

Threads == Exchanges \cup Own \cup Runners \cup Recoverers

(* Trade.Key(): what makes two reports of a trade the same trade. *)
Key(t) == [exchange |-> t.ex, id |-> t.id, side |-> t.side]

ASSUME CollectorAssumption ==
    /\ Own \subseteq Orders
    /\ Background \subseteq Exchanges
    /\ ExchangeOf \in [Orders -> Exchanges]
    /\ \A t \in Trades : /\ t.order \in Orders
                         /\ t.ex = ExchangeOf[t.order]
                         /\ t.side \in {"BUY", "SELL"}
                         /\ t.qty \in Nat
    /\ \A t, u \in Trades : Key(t) = Key(u) => t = u
    /\ {TradeFirst, QueryFails, AddOrderUpdate, RemoveCancelled, RemoveFilled} \subseteq BOOLEAN
    /\ QueueCap \in Nat
    /\ MaxDrops \in Nat
    /\ Exchanges \cap (Own \cup Runners \cup Recoverers) = {}
    /\ Own \cap (Runners \cup Recoverers) = {}
    /\ Runners \cap Recoverers = {}

VARIABLES
    (* the exchange *)
    exStatus,    \* [Orders -> status at the exchange, or "None"]
    executed,    \* the trades executed so far
    feed,        \* [Exchanges -> Seq(event)]: in flight on the user data stream
    drops,       \* how often a stream has lost its content
    (* the objects the goroutines share *)
    orderStore,  \* OrderStore: the order IDs it holds
    doneTrades,  \* TradeCollector.doneTrades: a set of trade keys
    tradeStore,  \* TradeStore.trades: at most one trade per trade ID
    tradeC,      \* TradeCollector.tradeC
    mu,          \* TradeCollector.mu: the set of goroutines holding it
    base,        \* Position.Base
    reported,    \* the Position.Base the last OnPositionUpdate callback saw
    (* the goroutines *)
    pc,          \* [Threads -> where the goroutine is]
    cur,         \* [Threads -> the set of at most one trade it is to process]
    work,        \* [Threads -> the trades it has marked done and not yet applied]
    visit,       \* what the running TradeStore.Filter has still to look at
    closing,     \* [Exchanges -> the set of at most one filled order RemoveFilled takes out next]
    todo,        \* [Recoverers -> the trades QueryTrades returned, not yet tried]
    past,        \* [Recoverers -> trades executed before the last scan, which the next may not cover]
    (* history *)
    missed,      \* [Recoverers -> trades whose scan failed]
    applied      \* [Trades -> how often Position.AddTrade has been called with it]

exchangeVars == <<exStatus, executed, feed, drops>>
collectorVars == <<orderStore, closing, doneTrades, tradeStore, mu, visit>>
positionVars == <<base, reported, applied>>
threadVars == <<pc, cur, work, todo, past, missed>>
vars == <<exchangeVars, collectorVars, tradeC, positionVars, threadVars>>

Events == [kind : {"trade"}, trade : Trades]
          \cup [kind : {"order"}, order : Orders, status : OS!OrderStatus, executed : BOOLEAN]

Control == {"idle", "sent", "check", "store", "readd", "scan",
            "process", "filter", "apply", "emit", "removeFilled", "done"}

TypeOK ==
    /\ exStatus \in [Orders -> OS!OrderStatus \cup {"None"}]
    /\ executed \subseteq Trades
    /\ feed \in [Exchanges -> Seq(Events)]
    /\ drops \in 0 .. MaxDrops
    /\ orderStore \subseteq Orders
    /\ doneTrades \subseteq {Key(t) : t \in Trades}
    /\ tradeStore \subseteq Trades
    /\ tradeC \in Seq(Trades)
    /\ mu \subseteq Threads
    /\ base \in Int
    /\ reported \in Int
    /\ pc \in [Threads -> Control]
    /\ cur \in [Threads -> SUBSET Trades]
    /\ work \in [Threads -> SUBSET Trades]
    /\ visit \subseteq Trades
    /\ closing \in [Exchanges -> SUBSET Orders]
    /\ todo \in [Recoverers -> SUBSET Trades]
    /\ past \in [Recoverers -> SUBSET Trades]
    /\ missed \in [Recoverers -> SUBSET Trades]
    /\ applied \in [Trades -> Nat]

Init ==
    /\ exStatus = [o \in Orders |-> "None"]
    /\ executed = {}
    /\ feed = [x \in Exchanges |-> <<>>]
    /\ drops = 0
    /\ orderStore = {}
    /\ doneTrades = {}
    /\ tradeStore = {}
    /\ tradeC = <<>>
    /\ mu = {}
    /\ base = 0
    /\ reported = 0
    /\ pc = [p \in Threads |-> "idle"]
    /\ cur = [p \in Threads |-> {}]
    /\ work = [p \in Threads |-> {}]
    /\ visit = {}
    /\ closing = [x \in Exchanges |-> {}]
    /\ todo = [p \in Recoverers |-> {}]
    /\ past = [p \in Recoverers |-> {}]
    /\ missed = [p \in Recoverers |-> {}]
    /\ applied = [t \in Trades |-> 0]

-----------------------------------------------------------------------------
(***************************************************************************)
(* The exchange (external).  Reports of one exchange arrive in the order   *)
(* they were sent, unless the connection drops what is in flight.          *)
(***************************************************************************)
TradesOf(o) == {t \in Trades : t.order = o}

Traded(o) == TradesOf(o) \cap executed # {}

TradeEvent(t) == [kind |-> "trade", trade |-> t]

OrderEvent(o, status, traded) ==
    [kind |-> "order", order |-> o, status |-> status, executed |-> traded]

Report(o, events) == feed' = [feed EXCEPT ![ExchangeOf[o]] = @ \o events]

Accept(o) ==
    /\ exStatus[o] = "None"
    /\ exStatus' = [exStatus EXCEPT ![o] = "New"]
    /\ Report(o, <<OrderEvent(o, "New", FALSE)>>)
    /\ UNCHANGED <<executed, drops>>

(* Another program trading on the same account places an order. *)
ForeignOrder(o) ==
    /\ o \in Orders \ Own
    /\ Accept(o)
    /\ UNCHANGED <<collectorVars, tradeC, positionVars, threadVars>>

Execute(t) ==
    LET o == t.order
        status == IF TradesOf(o) \subseteq executed \cup {t} THEN "Filled" ELSE "PartiallyFilled"
        trade == TradeEvent(t)
        order == OrderEvent(o, status, TRUE)
    IN  /\ exStatus[o] \in {"New", "PartiallyFilled"}
        /\ t \notin executed
        /\ executed' = executed \cup {t}
        /\ exStatus' = [exStatus EXCEPT ![o] = status]
        /\ Report(o, IF TradeFirst THEN <<trade, order>> ELSE <<order, trade>>)
        /\ UNCHANGED <<drops, collectorVars, tradeC, positionVars, threadVars>>

Cancel(o) ==
    /\ exStatus[o] \in {"New", "PartiallyFilled"}
    /\ exStatus' = [exStatus EXCEPT ![o] = "Canceled"]
    /\ Report(o, <<OrderEvent(o, "Canceled", Traded(o))>>)
    /\ UNCHANGED <<executed, drops, collectorVars, tradeC, positionVars, threadVars>>

(* The connection breaks and what was in flight is never sent again. *)
Disconnect(x) ==
    /\ feed[x] # <<>>
    /\ drops < MaxDrops
    /\ drops' = drops + 1
    /\ feed' = [feed EXCEPT ![x] = <<>>]
    /\ UNCHANGED <<exStatus, executed, collectorVars, tradeC, positionVars, threadVars>>

-----------------------------------------------------------------------------
(***************************************************************************)
(* Control.  A goroutine that has finished a trade or a Process call goes  *)
(* back to what called it.                                                 *)
(***************************************************************************)
Goto(p, l) == pc' = [pc EXCEPT ![p] = l]

Resume(p) == IF p \in Own THEN "done" ELSE IF p \in Recoverers THEN "scan" ELSE "idle"

(* TradeStore.Add: the map is keyed by the trade ID alone. *)
Put(store, t) == {u \in store : u.id # t.id} \cup {t}

(***************************************************************************)
(* GeneralOrderExecutor.SubmitOrders: the exchange accepts the order, the  *)
(* response reaches the create callback, which adds the order to the       *)
(* store, and the deferred Process runs.  A lost response skips the        *)
(* callback only.                                                          *)
(***************************************************************************)
Submit(o) ==
    /\ pc[o] = "idle"
    /\ Accept(o)
    /\ Goto(o, "sent")
    /\ UNCHANGED <<collectorVars, tradeC, positionVars, cur, work, todo, past, missed>>

(* Mutant: SubmitOrders does not process the stored trades afterwards. *)
CreatedOnly(o) ==
    /\ pc[o] = "sent"
    /\ orderStore' = OS!Add(orderStore, o)
    /\ Goto(o, "done")
    /\ UNCHANGED <<exchangeVars, closing, doneTrades, tradeStore, mu, visit,
                   tradeC, positionVars, cur, work, todo, past, missed>>

Created(o) ==
    /\ pc[o] = "sent"
    /\ orderStore' = OS!Add(orderStore, o)
    /\ Goto(o, "process")
    /\ UNCHANGED <<exchangeVars, closing, doneTrades, tradeStore, mu, visit,
                   tradeC, positionVars, cur, work, todo, past, missed>>

ResponseLost(o) ==
    /\ pc[o] = "sent"
    /\ Goto(o, "process")
    /\ UNCHANGED <<exchangeVars, collectorVars, tradeC, positionVars, cur, work, todo, past, missed>>

(***************************************************************************)
(* The stream's reader goroutine calls its handlers one event at a time.   *)
(***************************************************************************)
Receive(x) ==
    /\ pc[x] = "idle"
    /\ feed[x] # <<>>
    /\ feed' = [feed EXCEPT ![x] = Tail(@)]
    /\ UNCHANGED <<exStatus, executed, drops>>

(* OrderStore.BindStream: one step, or two for a filled order that is to be removed. *)
ReceiveOrder(x) ==
    LET e == Head(feed[x])
    IN  /\ Receive(x)
        /\ e.kind = "order"
        /\ orderStore' = OS!HandleOrderUpdate(orderStore, e.order, e.status, e.executed)
        /\ IF OS!RemovedNext(e.status)
           THEN Goto(x, "removeFilled") /\ closing' = [closing EXCEPT ![x] = {e.order}]
           ELSE UNCHANGED <<pc, closing>>
        /\ UNCHANGED <<doneTrades, tradeStore, mu, visit, tradeC, positionVars, cur, work, todo, past, missed>>

RemoveFilledOrder(x) ==
    \E o \in closing[x] :
        /\ pc[x] = "removeFilled"
        /\ orderStore' = OS!Remove(orderStore, o)
        /\ closing' = [closing EXCEPT ![x] = {}]
        /\ Goto(x, "idle")
        /\ UNCHANGED <<exchangeVars, doneTrades, tradeStore, mu, visit, tradeC, positionVars, cur, work, todo, past, missed>>

(* TradeCollector.BindStream *)
ReceiveTrade(x) ==
    LET e == Head(feed[x])
    IN  /\ x \notin Background
        /\ Receive(x)
        /\ e.kind = "trade"
        /\ cur' = [cur EXCEPT ![x] = {e.trade}]
        /\ Goto(x, "check")
        /\ UNCHANGED <<collectorVars, tradeC, positionVars, work, todo, past, missed>>

(* Mutant: the send does not block and the trade is dropped when the queue is full. *)
EnqueueOrDrop(t) == tradeC' = IF Len(tradeC) < QueueCap THEN Append(tradeC, t) ELSE tradeC

Enqueue(t) == Len(tradeC) < QueueCap /\ tradeC' = Append(tradeC, t)

(* TradeCollector.BindStreamForBackground: QueueTrade blocks while tradeC is full. *)
QueueTrade(x) ==
    LET e == Head(feed[x])
    IN  /\ x \in Background
        /\ Receive(x)
        /\ e.kind = "trade"
        /\ Enqueue(e.trade)
        /\ UNCHANGED <<collectorVars, positionVars, threadVars>>

(***************************************************************************)
(* TradeCollector.Run: a tick (or the order signal) calls Process, a       *)
(* queued trade is processed.                                              *)
(***************************************************************************)
Tick(p) ==
    /\ pc[p] = "idle"
    /\ Goto(p, "process")
    /\ UNCHANGED <<exchangeVars, collectorVars, tradeC, positionVars, cur, work, todo, past, missed>>

Dequeue(p) ==
    /\ pc[p] = "idle"
    /\ tradeC # <<>>
    /\ cur' = [cur EXCEPT ![p] = {Head(tradeC)}]
    /\ tradeC' = Tail(tradeC)
    /\ Goto(p, "check")
    /\ UNCHANGED <<exchangeVars, collectorVars, positionVars, work, todo, past, missed>>

(***************************************************************************)
(* TradeCollector.Recover: query the trade history of an exchange and try  *)
(* the trades one by one (in any order: nothing depends on it).  The query *)
(* starts one scan period and five minutes back: it covers what was        *)
(* executed since the last scan, and of older trades those that fall into  *)
(* the five minutes (a scan is taken to end less than five minutes after   *)
(* the next is due).  A query that fails is logged and not made again.     *)
(***************************************************************************)
ExecutedOn(x) == {t \in executed : t.ex = x}

Scanned(p, x) == past' = [past EXCEPT ![p] = @ \cup ExecutedOn(x)]

Recover(p, x) ==
    /\ pc[p] = "idle"
    /\ \E gone \in SUBSET (past[p] \cap ExecutedOn(x)) :
           todo' = [todo EXCEPT ![p] = ExecutedOn(x) \ gone]
    /\ Scanned(p, x)
    /\ Goto(p, "scan")
    /\ UNCHANGED <<exchangeVars, collectorVars, tradeC, positionVars, cur, work, missed>>

RecoverFails(p, x) ==
    /\ QueryFails
    /\ pc[p] = "idle"
    /\ Scanned(p, x)
    /\ missed' = [missed EXCEPT ![p] = @ \cup (ExecutedOn(x) \ past[p])]
    /\ UNCHANGED <<exchangeVars, collectorVars, tradeC, positionVars, pc, cur, work, todo>>

RecoverTrade(p) ==
    \E t \in todo[p] :
        /\ pc[p] = "scan"
        /\ todo' = [todo EXCEPT ![p] = @ \ {t}]
        /\ cur' = [cur EXCEPT ![p] = {t}]
        /\ Goto(p, "check")
        /\ UNCHANGED <<exchangeVars, collectorVars, tradeC, positionVars, work, past, missed>>

RecoverEnd(p) ==
    /\ pc[p] = "scan"
    /\ todo[p] = {}
    /\ Goto(p, "idle")
    /\ UNCHANGED <<exchangeVars, collectorVars, tradeC, positionVars, cur, work, todo, past, missed>>

(* RecoverTrade stores the trade again when processTrade refused it, outside c.mu
   but not while a Filter holds the store's own mutex. *)
StoreAgain(p) ==
    /\ pc[p] = "readd"
    /\ \A q \in Threads : pc[q] # "filter"
    /\ tradeStore' = UNION {Put(tradeStore, t) : t \in cur[p]}
    /\ cur' = [cur EXCEPT ![p] = {}]
    /\ Goto(p, "scan")
    /\ UNCHANGED <<exchangeVars, closing, orderStore, doneTrades, mu, visit,
                   tradeC, positionVars, work, todo, past, missed>>

-----------------------------------------------------------------------------
(***************************************************************************)
(* processTrade.  Check is the code from c.mu.Lock() up to the decision:   *)
(* doneTrades is guarded by c.mu and the order store is read once.         *)
(***************************************************************************)
Refused(p) ==
    IF p \in Recoverers
    THEN Goto(p, "readd") /\ UNCHANGED cur
    ELSE Goto(p, Resume(p)) /\ cur' = [cur EXCEPT ![p] = {}]

(* Mutants: nothing is marked; the trade is marked instead of its key. *)
MarkNothing(t) == UNCHANGED doneTrades

MarkTrade(t) == doneTrades' = doneTrades \cup {t}

MarkDone(t) == doneTrades' = doneTrades \cup {Key(t)}

(* Mutant: doneTrades is not looked at. *)
NotDoneUnread(t) == TRUE

NotDone(t) == Key(t) \notin doneTrades

CheckDone(p) ==
    /\ pc[p] = "check"
    /\ mu = {}
    /\ \E t \in cur[p] : ~NotDone(t)
    /\ Refused(p)
    /\ UNCHANGED <<exchangeVars, collectorVars, tradeC, positionVars, work, todo, past, missed>>

(* Mutant: the trade is marked done before its order is looked up. *)
CheckUnknownMarked(p) ==
    \E t \in cur[p] :
        /\ pc[p] = "check"
        /\ mu = {}
        /\ NotDone(t)
        /\ ~OS!Exists(orderStore, t.order)
        /\ MarkDone(t)
        /\ mu' = {p}
        /\ Goto(p, "store")
        /\ UNCHANGED <<exchangeVars, closing, orderStore, tradeStore, visit,
                       tradeC, positionVars, cur, work, todo, past, missed>>

CheckUnknown(p) ==
    /\ pc[p] = "check"
    /\ mu = {}
    /\ \E t \in cur[p] : NotDone(t) /\ ~OS!Exists(orderStore, t.order)
    /\ mu' = {p}
    /\ Goto(p, "store")
    /\ UNCHANGED <<exchangeVars, closing, orderStore, doneTrades, tradeStore, visit,
                   tradeC, positionVars, cur, work, todo, past, missed>>

CheckKnown(p) ==
    \E t \in cur[p] :
        /\ pc[p] = "check"
        /\ mu = {}
        /\ NotDone(t)
        /\ OS!Exists(orderStore, t.order)
        /\ MarkDone(t)
        /\ work' = [work EXCEPT ![p] = {t}]
        /\ cur' = [cur EXCEPT ![p] = {}]
        /\ Goto(p, "apply")
        /\ UNCHANGED <<exchangeVars, closing, orderStore, tradeStore, mu, visit,
                       tradeC, positionVars, todo, past, missed>>

(* The trade of an order not known yet waits in the trade store; c.mu is released. *)
Store(p) ==
    /\ pc[p] = "store"
    /\ tradeStore' = UNION {Put(tradeStore, t) : t \in cur[p]}
    /\ mu' = {}
    /\ Refused(p)
    /\ UNCHANGED <<exchangeVars, closing, orderStore, doneTrades, visit,
                   tradeC, positionVars, work, todo, past, missed>>

(***************************************************************************)
(* Process.  Filter holds c.mu and the trade store's mutex while it visits *)
(* the stored trades in the order of a Go map, that is in any order; each  *)
(* visit reads the order store.                                            *)
(***************************************************************************)
FilterBegin(p) ==
    /\ pc[p] = "process"
    /\ mu = {}
    /\ mu' = {p}
    /\ visit' = tradeStore
    /\ Goto(p, "filter")
    /\ UNCHANGED <<exchangeVars, closing, orderStore, doneTrades, tradeStore,
                   tradeC, positionVars, cur, work, todo, past, missed>>

VisitDone(p) ==
    \E t \in visit :
        /\ pc[p] = "filter"
        /\ ~NotDone(t)
        /\ visit' = visit \ {t}
        /\ tradeStore' = tradeStore \ {t}
        /\ UNCHANGED <<exchangeVars, closing, orderStore, doneTrades, mu,
                       tradeC, positionVars, threadVars>>

VisitKnown(p) ==
    \E t \in visit :
        /\ pc[p] = "filter"
        /\ NotDone(t)
        /\ OS!Exists(orderStore, t.order)
        /\ visit' = visit \ {t}
        /\ tradeStore' = tradeStore \ {t}
        /\ MarkDone(t)
        /\ work' = [work EXCEPT ![p] = @ \cup {t}]
        /\ UNCHANGED <<exchangeVars, closing, orderStore, mu, tradeC, positionVars, pc, cur, todo, past, missed>>

(* Mutant: Filter drops the trades it does not take. *)
VisitUnknownDropped(p) ==
    \E t \in visit :
        /\ pc[p] = "filter"
        /\ NotDone(t)
        /\ ~OS!Exists(orderStore, t.order)
        /\ visit' = visit \ {t}
        /\ tradeStore' = tradeStore \ {t}
        /\ UNCHANGED <<exchangeVars, closing, orderStore, doneTrades, mu,
                       tradeC, positionVars, threadVars>>

VisitUnknown(p) ==
    \E t \in visit :
        /\ pc[p] = "filter"
        /\ NotDone(t)
        /\ ~OS!Exists(orderStore, t.order)
        /\ visit' = visit \ {t}
        /\ UNCHANGED <<exchangeVars, closing, orderStore, doneTrades, tradeStore, mu,
                       tradeC, positionVars, threadVars>>

FilterEnd(p) ==
    /\ pc[p] = "filter"
    /\ visit = {}
    /\ mu' = {}
    /\ Goto(p, IF work[p] = {} THEN Resume(p) ELSE "apply")
    /\ UNCHANGED <<exchangeVars, closing, orderStore, doneTrades, tradeStore, visit,
                   tradeC, positionVars, cur, work, todo, past, missed>>

(***************************************************************************)
(* Both paths then call Position.AddTrade (atomic under the position's     *)
(* mutex) for every trade marked done, outside c.mu, and at the end emit   *)
(* the position, whose value the callbacks read when they run.             *)
(***************************************************************************)
Delta(t) == IF t.side = "BUY" THEN t.qty ELSE -t.qty

(* Mutant: no position update is emitted after the last trade. *)
NoEmission(p, t) == Goto(p, IF work[p] = {t} THEN Resume(p) ELSE "apply")

ThenEmit(p, t) == Goto(p, IF work[p] = {t} THEN "emit" ELSE "apply")

AddTrade(p) ==
    \E t \in work[p] :
        /\ pc[p] = "apply"
        /\ work' = [work EXCEPT ![p] = @ \ {t}]
        /\ base' = base + Delta(t)
        /\ applied' = [applied EXCEPT ![t] = @ + 1]
        /\ ThenEmit(p, t)
        /\ UNCHANGED <<exchangeVars, collectorVars, tradeC, reported, cur, todo, past, missed>>

EmitPositionUpdate(p) ==
    /\ pc[p] = "emit"
    /\ reported' = base
    /\ Goto(p, Resume(p))
    /\ UNCHANGED <<exchangeVars, collectorVars, tradeC, base, applied, cur, work, todo, past, missed>>

-----------------------------------------------------------------------------
External ==
    \/ \E o \in Orders : ForeignOrder(o) \/ Cancel(o)
    \/ \E t \in Trades : Execute(t)
    \/ \E x \in Exchanges : Disconnect(x)

Deliver(x) == ReceiveOrder(x) \/ RemoveFilledOrder(x) \/ ReceiveTrade(x) \/ QueueTrade(x)

(* The steps of processTrade and Process, whichever goroutine runs them. *)
Lock(p) == CheckDone(p) \/ CheckUnknown(p) \/ CheckKnown(p) \/ FilterBegin(p)

Work(p) == Store(p) \/ VisitDone(p) \/ VisitKnown(p) \/ VisitUnknown(p)
           \/ FilterEnd(p) \/ AddTrade(p) \/ EmitPositionUpdate(p)

Respond(o) == Created(o) \/ ResponseLost(o)

Scan(p) == RecoverTrade(p) \/ RecoverEnd(p)

TickScan(p, x) == Recover(p, x) \/ RecoverFails(p, x)

Next ==
    \/ External
    \/ \E o \in Own : Submit(o) \/ Respond(o)
    \/ \E x \in Exchanges : Deliver(x)
    \/ \E p \in Runners : Tick(p) \/ Dequeue(p)
    \/ \E p \in Recoverers : Scan(p) \/ StoreAgain(p) \/ \E x \in Exchanges : TickScan(p, x)
    \/ \E p \in Threads : Lock(p) \/ Work(p)

Spec == Init /\ [][Next]_vars

(***************************************************************************)
(* Every goroutine is scheduled; a mutex is granted to every waiter        *)
(* (sync.Mutex hands over in FIFO order once a waiter has waited 1ms); the *)
(* Run loop's select takes every ready channel (Go picks among the ready   *)
(* cases at random); the scan ticker has every exchange queried again and  *)
(* again.  Nothing is assumed of the exchange's orders and executions, nor *)
(* that a query for its trades succeeds.                                   *)
(***************************************************************************)
Fairness ==
    /\ \A o \in Own : WF_vars(Respond(o))
    /\ \A x \in Exchanges : WF_vars(Deliver(x))
    /\ \A p \in Runners : SF_vars(Tick(p)) /\ SF_vars(Dequeue(p))
    /\ \A p \in Recoverers : /\ WF_vars(Scan(p))
                             /\ SF_vars(StoreAgain(p))
                             /\ \A x \in Exchanges : SF_vars(TickScan(p, x))
    /\ \A p \in Threads : SF_vars(Lock(p)) /\ WF_vars(Work(p))

FairSpec == Spec /\ Fairness
-----------------------------------------------------------------------------
(***************************************************************************)
(* Properties                                                              *)
(***************************************************************************)
Bookable == IF AddOrderUpdate THEN Orders ELSE Own

Quiet == /\ \A p \in Threads : pc[p] \in {"idle", "done"}
         /\ \A x \in Exchanges : feed[x] = <<>>
         /\ tradeC = <<>>

OnFeed(t) == \E x \in Exchanges : \E i \in DOMAIN feed[x] : feed[x][i] = TradeEvent(t)

Queued(t) == \E i \in DOMAIN tradeC : tradeC[i] = t

(* A trade the exchange executed is somewhere until it is marked done: on
   the stream, in the queue, in the hands of a goroutine or in the trade
   store ("add this trade to the trade store for the later processing").
   Only a dropped connection may lose one. *)
NoTradeLost ==
    drops = 0 =>
        \A t \in executed :
            \/ OnFeed(t)
            \/ Queued(t)
            \/ \E p \in Threads : t \in cur[p]
            \/ t \in tradeStore
            \/ Key(t) \in doneTrades

(* A SubmitOrders call adds its order to the store and only then processes
   the stored trades, so once everything is still, no trade that arrived
   before its order's creation response has been left out of the position,
   and none was counted twice. *)
NothingLeftBehind ==
    Quiet /\ drops = 0 =>
        \A t \in executed : t.order \in orderStore => applied[t] = 1

(* With the removal flags set, orders leave the store while their trades are
   still being reported.  As long as every exchange reports a trade before
   the order update that closes its order, the streams are bound directly and
   orders enter the store with their first update, every executed trade still
   reaches the position, although an order is known only for a while. *)
NoneMissedByRemoval ==
    Quiet /\ drops = 0 /\ AddOrderUpdate /\ TradeFirst /\ Background = {} =>
        \A t \in executed : applied[t] = 1

(* When no goroutine is between marking a trade done and emitting the
   position update, the last position the OnPositionUpdate callbacks (hedging,
   persistence, notification) saw is the current one, however the
   applications and the emissions of several goroutines interleaved. *)
ReportedIsCurrent ==
    (\A p \in Threads : pc[p] \notin {"apply", "emit"}) => reported = base

(* Nothing reaches the collector that was not executed, and the store holds
   no order whose trades are not to be booked. *)
OnlyExecuted ==
    /\ \A x \in Exchanges : \A i \in DOMAIN feed[x] :
            feed[x][i].kind = "trade" => feed[x][i].trade \in executed
    /\ \A i \in DOMAIN tradeC : tradeC[i] \in executed
    /\ \A p \in Threads : cur[p] \cup work[p] \subseteq executed
    /\ \A p \in Recoverers : todo[p] \subseteq executed
    /\ tradeStore \cup visit \subseteq executed
    /\ orderStore \subseteq Bookable

(* A trade in work is marked done, not yet applied, and in the hands of one
   goroutine only; an applied trade stays marked. *)
MarkedBeforeApplied ==
    \A t \in Trades :
        /\ \A p \in Threads :
                t \in work[p] => /\ Key(t) \in doneTrades
                                /\ applied[t] = 0
                                /\ t.order \in Bookable
                                /\ \A q \in Threads \ {p} : t \notin work[q]
        /\ applied[t] > 0 => Key(t) \in doneTrades

(* No trade is handed to the position twice, nor to two goroutines at once,
   although c.mu is released between marking it done and applying it: the
   inductive invariant behind ImplementsLedger. *)
BookedOnce == OnlyExecuted /\ MarkedBeforeApplied

(* The collector implements the ledger: every trade is absorbed at most once,
   by whichever goroutine gets it (stream, SubmitOrders, Run, Recover), only
   after the exchange executed it, and only for a bookable order. *)
Ledger == INSTANCE TradeLedger WITH booked <- {t \in Trades : applied[t] > 0}

ImplementsLedger == Ledger!Spec

(* The scan that was sure to cover the trade failed; a later one may not. *)
Missed(t) == \A p \in Recoverers : t \in missed[p]

(* Every executed trade of an order the store knows is absorbed in the end,
   though its report was lost with a connection or came before the order, unless
   the one query whose window is sure to cover it failed: Recover only reports
   the error, and the next window starts later. *)
EventuallyBooked ==
    \A t \in Trades : (t \in executed /\ t.order \in orderStore) ~> (applied[t] = 1 \/ Missed(t))
=============================================================================
