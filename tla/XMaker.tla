------------------------------- MODULE XMaker -------------------------------
(***************************************************************************)
(* The xmaker strategy (pkg/strategy/xmaker/strategy.go): quotes on the    *)
(* maker exchange, and market orders on the source exchange that hedge     *)
(* what the quotes traded.                                                 *)
(*                                                                         *)
(* Three goroutines change the position and CoveredPosition: the callbacks *)
(* of the two user data streams, and the loop that runs updateQuote, the   *)
(* trade collector's Process and Hedge.  CoveredPosition has no lock: its  *)
(* addition is a read and a write.                                         *)
(*                                                                         *)
(* All prices are one, so that a quantity is also its notional.  Trades    *)
(* are delivered once and no fee is taken.  A market order is executed     *)
(* when it is created.  ActiveOrderBook and TradeCollector model what is   *)
(* a step here: GracefulCancel, and the processing of a trade up to its    *)
(* callback.                                                               *)
(***************************************************************************)
EXTENDS Integers, Sequences, FiniteSets, FiniteSetsExt, SequencesExt

CONSTANTS
    Settings,             \* the configurations and source balances that are looked at
    Quantity,             \* the first layer's quantity; each next layer doubles it
    MinQuantity,          \* the source market's MinQuantity, and its MinNotional
    MakerFund,            \* what the maker account holds of either currency
    MaxFills              \* bound: trades of the quotes

Setting == [base : Nat, quote : Nat,    \* the source account
            layers : Nat,               \* NumLayers
            maxExposure : Nat,          \* MaxExposurePosition, 0 when not configured
            maxRounds : Nat,            \* bound: rounds of quotes
            maxFailures : Nat,          \* bound: requests that return an error
            maxTorn : Nat]              \* bound: see ReadCovered

ASSUME XMakerAssumption ==
    /\ Settings \subseteq Setting
    /\ {Quantity, MinQuantity} \subseteq Nat \ {0}
    /\ {MakerFund, MaxFills} \subseteq Nat

VARIABLES
    setting,
    (* the exchanges *)
    open,       \* quotes open at the maker exchange
    executed,   \* the trades of our orders, in the order they were executed
    feed,       \* [Streams -> the trades in flight on the user data stream]
    (* the strategy *)
    active,     \* activeMakerOrders
    orderStore,
    tradeStore, \* trades whose order the store did not know
    applied,    \* the trades added to Position
    covered,    \* CoveredPosition
    (* the goroutines *)
    pc,         \* [Threads -> where it is]
    cur,        \* [Threads -> the trade or order it is adding to CoveredPosition, as a set]
    seen,       \* [Threads -> the CoveredPosition it has read]
    batch,      \* the trades Process has taken and not added yet
    submitting, \* the quotes updateQuote has generated
    sawBase,    \* the Position.Base the loop has read
    (* history *)
    rounds, failures, torn,
    matching,   \* the CoveredPosition that goes with sawBase
    failed,     \* orders created by a submission that returned an error
    raced       \* one addition to CoveredPosition has overwritten another

exchangeVars == <<open, executed, feed>>
loopVars == <<batch, submitting, sawBase, matching>>
positionVars == <<applied, covered, cur, seen, raced>>
boundVars == <<rounds, failures, torn, failed>>
vars == <<setting, exchangeVars, active, orderStore, tradeStore, positionVars, pc, loopVars, boundVars>>

Streams == {"maker", "source"}
Threads == Streams \cup {"loop"}

(* An order and a trade; a quantity is negative when it is sold. *)
Order == [ex : Streams, n : Nat, qty : Int]
Trade == [id : Nat, order : Order, qty : Int]

(* A quote of the round, by layer and side. *)
Quote(layer, qty) == [ex |-> "maker", n |-> rounds * 10 + layer, qty |-> qty]

Abs(n) == IF n < 0 THEN -n ELSE n

Sum(things) == SumFunctionOnSet([t \in things |-> t.qty], things)

(* Position.GetBase *)
Base == Sum(applied)

Trades == ToSet(executed)

TradesAt(ex) == {t \in Trades : t.order.ex = ex}

Init ==
    /\ setting \in Settings
    /\ open = {} /\ executed = <<>> /\ feed = [x \in Streams |-> <<>>]
    /\ active = {} /\ orderStore = {} /\ tradeStore = {} /\ applied = {} /\ covered = 0
    /\ pc = [th \in Threads |-> "idle"]
    /\ cur = [th \in Threads |-> {}]
    /\ seen = [th \in Threads |-> 0]
    /\ batch = {} /\ submitting = {} /\ sawBase = 0
    /\ rounds = 0 /\ failures = 0 /\ torn = 0 /\ matching = 0 /\ failed = {} /\ raced = FALSE

Goto(th, label) == pc' = [pc EXCEPT ![th] = label]

-----------------------------------------------------------------------------
(***************************************************************************)
(* updateQuote                                                             *)
(***************************************************************************)
Left(o) == Abs(o.qty) - Abs(Sum({t \in Trades : t.order = o}))

(* GracefulCancel: no quote of the book is left open, or it failed. *)
CancelQuotes ==
    /\ pc["loop"] = "idle"
    /\ rounds < setting.maxRounds
    /\ rounds' = rounds + 1
    /\ \/ open' = open \ active /\ active' = {} /\ Goto("loop", "quote") /\ UNCHANGED failures
       \/ failures < setting.maxFailures /\ failures' = failures + 1 /\ UNCHANGED <<open, active, pc>>
    /\ UNCHANGED <<setting, executed, feed, orderStore, tradeStore, positionVars, loopVars, torn, failed>>

MakerBase == MakerFund + Sum(TradesAt("maker")) - Abs(Sum({o \in open : o.qty < 0}))
MakerQuote == MakerFund - Sum(TradesAt("maker")) - Sum({o \in open : o.qty > 0})
SourceBase == setting.base + Sum(TradesAt("source"))
SourceQuote == setting.quote - Sum(TradesAt("source"))

AskDisabled ==
    \/ MakerBase <= MinQuantity
    \/ SourceQuote <= MinQuantity
    \/ setting.maxExposure > 0 /\ Base > -setting.maxExposure

BidDisabled ==
    \/ MakerQuote <= MinQuantity
    \/ SourceBase <= MinQuantity
    \/ setting.maxExposure > 0 /\ Base <= -setting.maxExposure /\ Base > setting.maxExposure

(* The quotes of one side: a layer is left out when one of its two quotas,
   at the maker and for the hedge, cannot be locked; both are rolled back then. *)
Layers(side, maker, hedge) ==
    LET quantity(i) == Quantity * 2 ^ (i - 1)
        quote(i) == Quote(2 * i + IF side > 0 THEN 0 ELSE 1, side * quantity(i))
        quotes[i \in 0 .. setting.layers] ==
            IF i = 0 THEN {}
            ELSE IF Abs(Sum(quotes[i - 1])) + quantity(i) > Min({maker, hedge}) THEN quotes[i - 1]
            ELSE quotes[i - 1] \cup {quote(i)}
    IN  quotes[setting.layers]

Generate ==
    /\ pc["loop"] = "quote"
    /\ submitting' = (IF BidDisabled THEN {} ELSE Layers(1, MakerQuote, SourceBase))
                     \cup (IF AskDisabled THEN {} ELSE Layers(-1, MakerBase, SourceQuote))
    /\ Goto("loop", IF submitting' = {} THEN "idle" ELSE "submit")
    /\ UNCHANGED <<setting, exchangeVars, active, orderStore, tradeStore, positionVars, batch, sawBase, matching, boundVars>>

(* SubmitOrdersTo tries every quote.  When one fails updateQuote returns, and
   nothing remembers those that were created. *)
SubmitQuotes ==
    /\ pc["loop"] = "submit"
    /\ \E created \in SUBSET submitting :
          /\ open' = open \cup created
          /\ \/ created = submitting /\ Goto("loop", "add") /\ UNCHANGED <<submitting, failures, failed>>
             \/ /\ failures < setting.maxFailures
                /\ failures' = failures + 1
                /\ failed' = failed \cup created
                /\ submitting' = {}
                /\ Goto("loop", "idle")
    /\ UNCHANGED <<setting, executed, feed, active, orderStore, tradeStore, positionVars,
                   batch, sawBase, matching, rounds, torn>>

(* Mutant: the quotes are stored and not made active. *)
AddToStore ==
    /\ pc["loop"] = "add"
    /\ orderStore' = orderStore \cup submitting
    /\ submitting' = {}
    /\ Goto("loop", "idle")
    /\ UNCHANGED <<setting, exchangeVars, active, tradeStore, positionVars, batch, sawBase, matching, boundVars>>

(* Mutant: a quote that was filled meanwhile stays active. *)
AddWithFilled ==
    /\ pc["loop"] = "add"
    /\ active' = active \cup submitting
    /\ orderStore' = orderStore \cup submitting
    /\ submitting' = {}
    /\ Goto("loop", "idle")
    /\ UNCHANGED <<setting, exchangeVars, tradeStore, positionVars, batch, sawBase, matching, boundVars>>

(* activeMakerOrders.Add and orderStore.Add; a quote that is filled by then
   does not stay active. *)
AddQuotes ==
    /\ pc["loop"] = "add"
    /\ active' = active \cup (submitting \cap open)
    /\ orderStore' = orderStore \cup submitting
    /\ submitting' = {}
    /\ Goto("loop", "idle")
    /\ UNCHANGED <<setting, exchangeVars, tradeStore, positionVars, batch, sawBase, matching, boundVars>>

-----------------------------------------------------------------------------
(***************************************************************************)
(* Trades                                                                  *)
(***************************************************************************)
NewTrade(o, qty) == [id |-> Len(executed) + 1, order |-> o, qty |-> qty]

(* A quote is taken, in whole or in part. *)
Fill ==
    /\ Cardinality(TradesAt("maker")) < MaxFills
    /\ \E o \in open : \E qty \in 1 .. Left(o) :
          LET t == NewTrade(o, IF o.qty > 0 THEN qty ELSE -qty)
          IN  /\ executed' = Append(executed, t)
              /\ feed' = [feed EXCEPT !["maker"] = Append(@, t)]
              /\ open' = IF qty = Left(o) THEN open \ {o} ELSE open
              /\ active' = IF qty = Left(o) THEN active \ {o} ELSE active
    /\ UNCHANGED <<setting, orderStore, tradeStore, positionVars, pc, loopVars, boundVars>>

(* Mutant: the callback does not ask where the trade was made. *)
AddTradeAnywhere(th, t, next) ==
    /\ applied' = applied \cup {t}
    /\ cur' = [cur EXCEPT ![th] = {t}]
    /\ Goto(th, "cover")
    /\ UNCHANGED <<covered, seen, raced>>

(* Position.AddTrade, up to the callback that adds a source trade to
   CoveredPosition: the two are not one step. *)
AddTrade(th, t, next) ==
    /\ applied' = applied \cup {t}
    /\ IF t.order.ex = "source"
       THEN cur' = [cur EXCEPT ![th] = {t}] /\ Goto(th, "cover")
       ELSE Goto(th, next) /\ UNCHANGED cur
    /\ UNCHANGED <<covered, seen, raced>>

(* processTrade in the callback of a stream *)
Receive(x) ==
    /\ pc[x] = "idle"
    /\ feed[x] # <<>>
    /\ feed' = [feed EXCEPT ![x] = Tail(@)]
    /\ LET t == Head(feed[x])
       IN  IF t.order \in orderStore
           THEN AddTrade(x, t, "idle") /\ UNCHANGED tradeStore
           ELSE tradeStore' = tradeStore \cup {t} /\ UNCHANGED <<positionVars, pc>>
    /\ UNCHANGED <<setting, open, executed, active, orderStore, loopVars, boundVars>>

(* CoveredPosition is read, and then written: what a trade changes is added,
   and what a hedge order will change is taken off. *)
ReadForCover(th) ==
    /\ pc[th] = "cover"
    /\ seen' = [seen EXCEPT ![th] = covered]
    /\ Goto(th, "write")
    /\ UNCHANGED <<setting, exchangeVars, active, orderStore, tradeStore, applied, covered, cur, raced,
                   loopVars, boundVars>>

IsOrder(thing) == "ex" \in DOMAIN thing

WriteCover(th) ==
    /\ pc[th] = "write"
    /\ \E thing \in cur[th] :
          /\ covered' = seen[th] + IF IsOrder(thing) THEN -thing.qty ELSE thing.qty
          /\ raced' = (raced \/ covered # seen[th])
          /\ seen' = [seen EXCEPT ![th] = 0]
          /\ IF IsOrder(thing) THEN Goto(th, "store") /\ UNCHANGED cur
             ELSE /\ cur' = [cur EXCEPT ![th] = {}]
                  /\ Goto(th, IF th = "loop" THEN "process" ELSE "idle")
    /\ UNCHANGED <<setting, exchangeVars, active, orderStore, tradeStore, applied, loopVars, boundVars>>

-----------------------------------------------------------------------------
(***************************************************************************)
(* The hedge ticker: Process, then Hedge                                   *)
(***************************************************************************)
Process ==
    /\ pc["loop"] = "idle"
    /\ batch' = {t \in tradeStore : t.order \in orderStore}
    /\ tradeStore' = tradeStore \ batch'
    /\ Goto("loop", "process")
    /\ UNCHANGED <<setting, exchangeVars, active, orderStore, positionVars, submitting, sawBase, matching, boundVars>>

ProcessTrade ==
    /\ pc["loop"] = "process"
    /\ \E t \in batch : batch' = batch \ {t} /\ AddTrade("loop", t, "process")
    /\ UNCHANGED <<setting, exchangeVars, active, orderStore, tradeStore, submitting, sawBase, matching, boundVars>>

(* What is added to the position and not yet to CoveredPosition. *)
Halfway == Sum(UNION {cur[th] : th \in Streams})

ReadBase ==
    /\ pc["loop"] = "process"
    /\ batch = {}
    /\ sawBase' = Base
    /\ matching' = covered + Halfway
    /\ Goto("loop", "uncovered")
    /\ UNCHANGED <<setting, exchangeVars, active, orderStore, tradeStore, positionVars,
                   batch, submitting, boundVars>>

(* The quantity of the hedge order, as far as the source account allows. *)
Hedged(uncovered) ==
    LET quantity == IF uncovered > 0 THEN Min({uncovered, SourceBase})
                    ELSE IF SourceQuote < -uncovered THEN SourceQuote - 1 ELSE -uncovered
    IN  IF Abs(uncovered) <= MinQuantity \/ quantity <= MinQuantity THEN 0
        ELSE IF uncovered > 0 THEN -quantity ELSE quantity

DoHedge(qty) ==
    IF qty = 0 THEN Goto("loop", "idle") /\ UNCHANGED cur
    ELSE /\ cur' = [cur EXCEPT !["loop"] = {[ex |-> "source", n |-> Len(executed) + 1, qty |-> qty]}]
         /\ Goto("loop", "hedge")

(* CoveredPosition is read after the position, and neither under a lock that
   spans both: a trade between AddTrade and its callback, or that passes while
   the loop reads, tears the difference.  Beyond maxTorn the loop reads again. *)
ReadCovered ==
    /\ pc["loop"] = "uncovered"
    /\ \/ covered = matching /\ DoHedge(Hedged(sawBase - covered)) /\ UNCHANGED torn
       \/ /\ covered # matching /\ torn < setting.maxTorn
          /\ torn' = torn + 1
          /\ DoHedge(Hedged(sawBase - covered))
       \/ covered # matching /\ torn = setting.maxTorn /\ Goto("loop", "process") /\ UNCHANGED <<cur, torn>>
    /\ sawBase' = 0
    /\ matching' = 0
    /\ UNCHANGED <<setting, exchangeVars, active, orderStore, tradeStore, applied, covered, seen, raced,
                   batch, submitting, rounds, failures, failed>>

(* The market order is executed in one or in two trades. *)
Executions(o) ==
    LET one == IF o.qty > 0 THEN 1 ELSE -1
        t(k, qty) == [id |-> Len(executed) + k, order |-> o, qty |-> qty]
    IN  {<<t(1, o.qty)>>, <<t(1, one), t(2, o.qty - one)>>}

(* SubmitOrders: the order is executed and acknowledged, refused, or executed
   and its answer lost. *)
SubmitHedge ==
    /\ pc["loop"] = "hedge"
    /\ \E o \in cur["loop"], ok, done \in BOOLEAN :
          /\ ok => done
          /\ ~ok => failures < setting.maxFailures
          /\ failures' = IF ok THEN failures ELSE failures + 1
          /\ failed' = IF ok \/ ~done THEN failed ELSE failed \cup {o}
          /\ IF done
             THEN \E new \in Executions(o) :
                     /\ executed' = executed \o new
                     /\ feed' = [feed EXCEPT !["source"] = @ \o new]
             ELSE UNCHANGED <<executed, feed>>
          /\ Goto("loop", IF ok THEN "cover" ELSE "idle")
          /\ cur' = IF ok THEN cur ELSE [cur EXCEPT !["loop"] = {}]
    /\ UNCHANGED <<setting, open, active, orderStore, tradeStore, applied, covered, seen, raced,
                   loopVars, rounds, torn>>

(* Mutant: the hedge order is not stored. *)
ForgetHedge ==
    /\ pc["loop"] = "store"
    /\ cur' = [cur EXCEPT !["loop"] = {}]
    /\ Goto("loop", "idle")
    /\ UNCHANGED <<setting, exchangeVars, active, orderStore, tradeStore, applied, covered, seen, raced,
                   loopVars, boundVars>>

StoreHedge ==
    /\ pc["loop"] = "store"
    /\ orderStore' = orderStore \cup cur["loop"]
    /\ cur' = [cur EXCEPT !["loop"] = {}]
    /\ Goto("loop", "idle")
    /\ UNCHANGED <<setting, exchangeVars, active, tradeStore, applied, covered, seen, raced, loopVars, boundVars>>

-----------------------------------------------------------------------------
Quoting == CancelQuotes \/ Generate \/ SubmitQuotes \/ AddQuotes

Hedging == ProcessTrade \/ ReadBase \/ ReadCovered \/ SubmitHedge \/ StoreHedge

(* Nothing is claimed, or looked at, once an addition is lost. *)
Next ==
    /\ ~raced
    /\ \/ Quoting \/ Fill \/ Process \/ Hedging
       \/ \E x \in Streams : Receive(x)
       \/ \E th \in Threads : ReadForCover(th) \/ WriteCover(th)

Spec == Init /\ [][Next]_vars

(* The tickers stay ready and the select chooses among them at random, so the
   hedge ticker gets its turn; a goroutine runs on, and a stream delivers. *)
Fairness ==
    /\ SF_vars(Process)
    /\ WF_vars(Generate \/ SubmitQuotes \/ AddQuotes)
    /\ WF_vars(Hedging)
    /\ \A x \in Streams : WF_vars(Receive(x))
    /\ \A th \in Threads : WF_vars(ReadForCover(th) \/ WriteCover(th))

FairSpec == Spec /\ Fairness
-----------------------------------------------------------------------------
(***************************************************************************)
(* Properties                                                              *)
(***************************************************************************)
TypeOK ==
    /\ setting \in Settings
    /\ open \subseteq Order
    /\ Trades \subseteq Trade
    /\ feed \in [Streams -> Seq(Trades)]
    /\ active \subseteq open \cup failed
    /\ orderStore \subseteq Order
    /\ tradeStore \cup batch \cup applied \subseteq Trades
    /\ covered \in Int
    /\ pc \in [Threads -> {"idle", "quote", "submit", "add", "process", "uncovered", "hedge",
                           "cover", "write", "store"}]
    /\ cur \in [Threads -> SUBSET (Trades \cup Order)]
    /\ \A th \in Threads : Cardinality(cur[th]) <= 1
    /\ seen \in [Threads -> Int]
    /\ submitting \subseteq Order
    /\ {sawBase, matching} \subseteq Int
    /\ rounds \in 0 .. setting.maxRounds
    /\ failures \in 0 .. setting.maxFailures
    /\ torn \in 0 .. setting.maxTorn
    /\ failed \subseteq Order
    /\ raced \in BOOLEAN

(* The hedge orders that were taken off CoveredPosition, and their trades that
   it has not been given yet. *)
Acknowledged == orderStore \cup IF pc["loop"] = "store" THEN cur["loop"] ELSE {}

Outstanding == {t \in TradesAt("source") : /\ t.order \in Acknowledged
                                           /\ t \notin applied \/ \E th \in Threads : t \in cur[th]}

(* CoveredPosition is exactly what acknowledged hedge orders will still change
   in the position, whichever of the three goroutines adds it and in whatever
   order the answers and the trades come: nothing is hedged twice or forgotten
   for good, unless one unlocked addition has overwritten another. *)
CoverIsOutstanding == raced \/ covered = -Sum(Outstanding)

(* Every open quote is in the active book, where the next updateQuote cancels
   it, or about to be added: two rounds of quotes are never open together, save
   for what a failing submission has created. *)
QuotesTracked == open \subseteq active \cup submitting \cup failed

ShortOfFunds == SourceBase <= MinQuantity + Abs(Base) \/ SourceQuote <= MinQuantity + Abs(Base)

(* What the quotes traded ends up hedged to within the smallest order, although
   hedge orders fail, trades come before their order is known, and a torn read
   hedges the wrong way now and then. *)
EventuallyHedged ==
    <>[](\/ Abs(Base) <= MinQuantity
         \/ ShortOfFunds \/ raced \/ failed # {})

(* "if max exposure position is configured, we should not: 1. place bid orders
   when we already bought too much 2. place ask orders when we already sold too
   much" (strategy.go:284-286) *)
ExposureRespected ==
    [][\A o \in submitting' \ submitting :
          setting.maxExposure > 0 => IF o.qty > 0 THEN Base <= setting.maxExposure
                                     ELSE Base >= -setting.maxExposure]_vars
=============================================================================
