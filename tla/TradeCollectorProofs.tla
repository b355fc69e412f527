------------------------ MODULE TradeCollectorProofs ------------------------
(***************************************************************************)
(* Theorems about TradeCollector, for any set of exchanges, orders, trades *)
(* and goroutines: type correctness, and that the collector implements     *)
(* TradeLedger.  The invariant BookedOnce is inductive once types are      *)
(* known; it says that a trade in the hands of a goroutine is executed,    *)
(* bookable and not absorbed yet, which is the guard of TradeLedger's      *)
(* Book.  Then come the emitted position and, in the last sections, that   *)
(* no executed trade is forgotten.                                         *)
(***************************************************************************)
EXTENDS TradeCollector, TLAPS

-----------------------------------------------------------------------------
(* The exchange's reports are events. *)
LEMMA TradeEventType ==
    ASSUME NEW t \in Trades
    PROVE  TradeEvent(t) \in Events
  BY DEF TradeEvent, Events

LEMMA OrderEventType ==
    ASSUME NEW o \in Orders, NEW status \in OS!OrderStatus, NEW traded \in BOOLEAN
    PROVE  OrderEvent(o, status, traded) \in Events
  BY DEF OrderEvent, Events

(* One or two elements make up a sequence. *)
LEMMA ShortSeq ==
    ASSUME NEW S, NEW a \in S, NEW b \in S
    PROVE  <<a>> \in Seq(S) /\ <<a, b>> \in Seq(S)
  OBVIOUS

(* Reporting events keeps the streams sequences of events. *)
LEMMA ReportType ==
    ASSUME TypeOK, NEW o \in Orders, NEW events \in Seq(Events), Report(o, events)
    PROVE  feed' \in [Exchanges -> Seq(Events)]
  <1>1. ExchangeOf[o] \in Exchanges
    BY CollectorAssumption
  <1>2. feed[ExchangeOf[o]] \o events \in Seq(Events)
    BY <1>1 DEF TypeOK
  <1> QED
    BY <1>1, <1>2 DEF TypeOK, Report

(* A head of a stream is an event, and what is left is a stream. *)
LEMMA ReceiveType ==
    ASSUME TypeOK, NEW x \in Exchanges, Receive(x)
    PROVE  /\ Head(feed[x]) \in Events
           /\ feed' \in [Exchanges -> Seq(Events)]
  <1>1. feed[x] \in Seq(Events) /\ feed[x] # <<>>
    BY DEF TypeOK, Receive
  <1>2. Head(feed[x]) \in Events /\ Tail(feed[x]) \in Seq(Events)
    BY <1>1
  <1> QED
    BY <1>2 DEF TypeOK, Receive

LEMMA EventFields ==
    ASSUME NEW e \in Events
    PROVE  /\ e.kind = "trade" => e.trade \in Trades
           /\ e.kind = "order" => e.order \in Orders /\ e.status \in OS!OrderStatus
  BY DEF Events

LEMMA PutType ==
    ASSUME NEW store \in SUBSET Trades, NEW ts \in SUBSET Trades
    PROVE  UNION {Put(store, t) : t \in ts} \subseteq Trades
  BY DEF Put

LEMMA OrderStoreType ==
    ASSUME NEW store \in SUBSET Orders, NEW o \in Orders, NEW status, NEW traded
    PROVE  OS!HandleOrderUpdate(store, o, status, traded) \subseteq Orders
  BY DEF OS!HandleOrderUpdate, OS!Add, OS!Remove

-----------------------------------------------------------------------------
(* Every variable keeps its type: in particular the collector marks keys of
   trades only, and hands only executed-or-not trades, never anything else, to
   the position (processTrade and Process). *)
THEOREM TypeCorrect == Spec => []TypeOK
  <1> USE DEF exchangeVars, collectorVars, positionVars, threadVars
  <1>1. Init => TypeOK
    BY CollectorAssumption DEF Init, TypeOK, Control
  <1>2. TypeOK /\ [Next]_vars => TypeOK'
    <2> SUFFICES ASSUME TypeOK, [Next]_vars
                 PROVE  TypeOK'
      OBVIOUS
    <2> USE DEF Goto, Control, Resume, Threads
    <2>1. ASSUME NEW o \in Orders, ForeignOrder(o)
          PROVE  TypeOK'
      <3>1. <<OrderEvent(o, "New", FALSE)>> \in Seq(Events)
        <4>1. OrderEvent(o, "New", FALSE) \in Events
          BY OrderEventType DEF OS!OrderStatus
        <4> QED
          BY <4>1, ShortSeq
      <3>2. feed' \in [Exchanges -> Seq(Events)]
        BY <2>1, <3>1, ReportType DEF ForeignOrder, Accept
      <3> QED
        BY <2>1, <3>2 DEF ForeignOrder, Accept, TypeOK, OS!OrderStatus
    <2>2. ASSUME NEW o \in Orders, Cancel(o)
          PROVE  TypeOK'
      <3>1. <<OrderEvent(o, "Canceled", Traded(o))>> \in Seq(Events)
        <4>1. OrderEvent(o, "Canceled", Traded(o)) \in Events
          BY OrderEventType DEF OS!OrderStatus, Traded
        <4> QED
          BY <4>1, ShortSeq
      <3>2. feed' \in [Exchanges -> Seq(Events)]
        BY <2>2, <3>1, ReportType DEF Cancel
      <3> QED
        BY <2>2, <3>2 DEF Cancel, TypeOK, OS!OrderStatus
    <2>3. ASSUME NEW t \in Trades, Execute(t)
          PROVE  TypeOK'
      <3> DEFINE status == IF TradesOf(t.order) \subseteq executed \cup {t}
                           THEN "Filled" ELSE "PartiallyFilled"
                 trade == TradeEvent(t)
                 order == OrderEvent(t.order, status, TRUE)
                 events == IF TradeFirst THEN <<trade, order>> ELSE <<order, trade>>
      <3>1. t.order \in Orders /\ status \in OS!OrderStatus
        BY CollectorAssumption DEF OS!OrderStatus
      <3>2. events \in Seq(Events)
        <4>1. trade \in Events /\ order \in Events
          BY <3>1, TradeEventType, OrderEventType
        <4> QED
          BY <4>1, ShortSeq
      <3>3. Report(t.order, events) /\ exStatus' = [exStatus EXCEPT ![t.order] = status]
        BY <2>3 DEF Execute
      <3>4. feed' \in [Exchanges -> Seq(Events)]
        BY <3>1, <3>2, <3>3, ReportType
      <3> HIDE DEF status, events
      <3> QED
        BY <2>3, <3>1, <3>3, <3>4 DEF Execute, TypeOK
    <2>4. ASSUME NEW x \in Exchanges, Disconnect(x)
          PROVE  TypeOK'
      BY <2>4, CollectorAssumption DEF Disconnect, TypeOK
    <2>5. ASSUME NEW o \in Own, Submit(o)
          PROVE  TypeOK'
      <3>1. o \in Orders
        BY CollectorAssumption
      <3>2. <<OrderEvent(o, "New", FALSE)>> \in Seq(Events)
        <4>1. OrderEvent(o, "New", FALSE) \in Events
          BY <3>1, OrderEventType DEF OS!OrderStatus
        <4> QED
          BY <4>1, ShortSeq
      <3>3. feed' \in [Exchanges -> Seq(Events)]
        BY <2>5, <3>1, <3>2, ReportType DEF Submit, Accept
      <3> QED
        BY <2>5, <3>1, <3>3 DEF Submit, Accept, TypeOK, OS!OrderStatus
    <2>6. ASSUME NEW o \in Own, Created(o)
          PROVE  TypeOK'
      BY <2>6, CollectorAssumption DEF Created, OS!Add, TypeOK
    <2>7. ASSUME NEW o \in Own, ResponseLost(o)
          PROVE  TypeOK'
      BY <2>7 DEF ResponseLost, TypeOK
    <2>8. ASSUME NEW x \in Exchanges, ReceiveOrder(x)
          PROVE  TypeOK'
      <3> DEFINE e == Head(feed[x])
      <3>1. Receive(x) /\ e.kind = "order"
        BY <2>8 DEF ReceiveOrder
      <3>2. e \in Events /\ feed' \in [Exchanges -> Seq(Events)]
        BY <3>1, ReceiveType
      <3>3. e.order \in Orders
        BY <3>1, <3>2, EventFields
      <3>4. orderStore' \subseteq Orders
        BY <2>8, <3>3, OrderStoreType DEF ReceiveOrder, TypeOK
      <3>5. closing' \in [Exchanges -> SUBSET Orders] /\ pc' \in [Threads -> Control]
        <4>1. CASE OS!RemovedNext(e.status)
          <5>1. /\ closing' = [closing EXCEPT ![x] = {e.order}]
                /\ pc' = [pc EXCEPT ![x] = "removeFilled"]
            BY <2>8, <4>1 DEF ReceiveOrder
          <5> QED
            BY <5>1, <3>3 DEF TypeOK
        <4>2. CASE ~OS!RemovedNext(e.status)
          BY <2>8, <4>2 DEF ReceiveOrder, TypeOK
        <4> QED
          BY <4>1, <4>2
      <3> QED
        BY <2>8, <3>2, <3>4, <3>5 DEF ReceiveOrder, Receive, TypeOK
    <2>9. ASSUME NEW x \in Exchanges, ReceiveTrade(x)
          PROVE  TypeOK'
      <3> DEFINE e == Head(feed[x])
      <3>1. Receive(x) /\ e.kind = "trade"
        BY <2>9 DEF ReceiveTrade
      <3>2. e \in Events /\ feed' \in [Exchanges -> Seq(Events)]
        BY <3>1, ReceiveType
      <3>3. e.trade \in Trades
        BY <3>1, <3>2, EventFields
      <3> QED
        BY <2>9, <3>2, <3>3 DEF ReceiveTrade, Receive, TypeOK
    <2>10. ASSUME NEW x \in Exchanges, QueueTrade(x)
           PROVE  TypeOK'
      <3> DEFINE e == Head(feed[x])
      <3>1. Receive(x) /\ e.kind = "trade"
        BY <2>10 DEF QueueTrade
      <3>2. e \in Events /\ feed' \in [Exchanges -> Seq(Events)]
        BY <3>1, ReceiveType
      <3>3. e.trade \in Trades
        BY <3>1, <3>2, EventFields
      <3>4. tradeC' \in Seq(Trades)
        BY <2>10, <3>3 DEF QueueTrade, Enqueue, TypeOK
      <3> QED
        BY <2>10, <3>2, <3>4 DEF QueueTrade, Receive, TypeOK
    <2>11. ASSUME NEW p \in Runners, Tick(p)
           PROVE  TypeOK'
      BY <2>11 DEF Tick, TypeOK
    <2>12. ASSUME NEW p \in Runners, Dequeue(p)
           PROVE  TypeOK'
      <3>1. Head(tradeC) \in Trades /\ Tail(tradeC) \in Seq(Trades)
        BY <2>12 DEF Dequeue, TypeOK
      <3> QED
        BY <2>12, <3>1 DEF Dequeue, TypeOK
    <2>13. ASSUME NEW p \in Recoverers, NEW x \in Exchanges, TickScan(p, x)
           PROVE  TypeOK'
      <3>1. ExecutedOn(x) \subseteq Trades
        BY DEF ExecutedOn, TypeOK
      <3>2. past' \in [Recoverers -> SUBSET Trades]
        <4>1. Scanned(p, x)
          BY <2>13 DEF TickScan, Recover, RecoverFails
        <4> QED
          BY <3>1, <4>1 DEF Scanned, TypeOK
      <3>3. CASE Recover(p, x)
        <4>1. PICK gone : todo' = [todo EXCEPT ![p] = ExecutedOn(x) \ gone]
          BY <3>3 DEF Recover
        <4>2. todo' \in [Recoverers -> SUBSET Trades]
          BY <3>1, <4>1 DEF TypeOK
        <4> QED
          BY <3>2, <3>3, <4>2 DEF Recover, TypeOK
      <3>4. CASE RecoverFails(p, x)
        <4>1. missed' \in [Recoverers -> SUBSET Trades]
          BY <3>1, <3>4 DEF RecoverFails, TypeOK
        <4> QED
          BY <3>2, <3>4, <4>1 DEF RecoverFails, TypeOK
      <3> QED
        BY <2>13, <3>3, <3>4 DEF TickScan
    <2>14. ASSUME NEW p \in Recoverers, Scan(p)
           PROVE  TypeOK'
      <3>1. CASE RecoverTrade(p)
        <4>1. PICK t \in todo[p] : cur' = [cur EXCEPT ![p] = {t}]
          BY <3>1 DEF RecoverTrade
        <4>2. t \in Trades
          BY <4>1 DEF TypeOK
        <4> QED
          BY <3>1, <4>1, <4>2 DEF RecoverTrade, TypeOK
      <3>2. CASE RecoverEnd(p)
        BY <3>2 DEF RecoverEnd, TypeOK
      <3> QED
        BY <2>14, <3>1, <3>2 DEF Scan
    <2>15. ASSUME NEW p \in Recoverers, StoreAgain(p)
           PROVE  TypeOK'
      <3>1. tradeStore' \subseteq Trades
        BY <2>15, PutType DEF StoreAgain, TypeOK
      <3> QED
        BY <2>15, <3>1 DEF StoreAgain, TypeOK
    <2>16. ASSUME NEW p \in Threads, Lock(p)
           PROVE  TypeOK'
      <3>1. CASE CheckDone(p)
        BY <3>1 DEF CheckDone, Refused, TypeOK
      <3>2. CASE CheckUnknown(p)
        BY <3>2 DEF CheckUnknown, TypeOK
      <3>3. CASE CheckKnown(p)
        BY <3>3 DEF CheckKnown, MarkDone, TypeOK
      <3>4. CASE FilterBegin(p)
        BY <3>4 DEF FilterBegin, TypeOK
      <3> QED
        BY <2>16, <3>1, <3>2, <3>3, <3>4 DEF Lock
    <2>17. ASSUME NEW p \in Threads, Work(p)
           PROVE  TypeOK'
      <3>1. CASE Store(p)
        <4>1. tradeStore' \subseteq Trades
          BY <3>1, PutType DEF Store, TypeOK
        <4> QED
          BY <3>1, <4>1 DEF Store, Refused, TypeOK
      <3>2. CASE VisitDone(p)
        BY <3>2 DEF VisitDone, TypeOK
      <3>3. CASE VisitKnown(p)
        BY <3>3 DEF VisitKnown, MarkDone, TypeOK
      <3>4. CASE VisitUnknown(p)
        BY <3>4 DEF VisitUnknown, TypeOK
      <3>5. CASE FilterEnd(p)
        BY <3>5 DEF FilterEnd, TypeOK
      <3>6. CASE AddTrade(p)
        <4>1. PICK t \in work[p] : /\ work' = [work EXCEPT ![p] = @ \ {t}]
                                   /\ base' = base + Delta(t)
                                   /\ applied' = [applied EXCEPT ![t] = @ + 1]
                                   /\ ThenEmit(p, t)
          BY <3>6 DEF AddTrade
        <4>2. t \in Trades
          BY <4>1 DEF TypeOK
        <4>3. Delta(t) \in Int
          BY <4>2, CollectorAssumption DEF Delta
        <4>4. applied' \in [Trades -> Nat] /\ base' \in Int /\ work' \in [Threads -> SUBSET Trades]
          BY <4>1, <4>2, <4>3 DEF TypeOK
        <4>5. pc' \in [Threads -> Control]
          BY <4>1 DEF ThenEmit, TypeOK
        <4> QED
          BY <3>6, <4>4, <4>5 DEF AddTrade, TypeOK
      <3>7. CASE EmitPositionUpdate(p)
        BY <3>7 DEF EmitPositionUpdate, TypeOK
      <3> QED
        BY <2>17, <3>1, <3>2, <3>3, <3>4, <3>5, <3>6, <3>7 DEF Work
    <2>18. ASSUME NEW x \in Exchanges, RemoveFilledOrder(x)
           PROVE  TypeOK'
      BY <2>18 DEF RemoveFilledOrder, OS!Remove, TypeOK
    <2>19. CASE UNCHANGED vars
      BY <2>19 DEF vars, TypeOK
    <2> QED
      BY <2>1, <2>2, <2>3, <2>4, <2>5, <2>6, <2>7, <2>8, <2>9, <2>10, <2>11, <2>12,
         <2>13, <2>14, <2>15, <2>16, <2>17, <2>18, <2>19
         DEF Next, External, Respond, Deliver
  <1> QED
    BY <1>1, <1>2, PTL DEF Spec

-----------------------------------------------------------------------------
(* What the streams carry: only executed trades. *)
FeedExecuted ==
    \A x \in Exchanges : \A i \in DOMAIN feed[x] :
        feed[x][i].kind = "trade" => feed[x][i].trade \in executed

(* A stream a report was appended to carries executed trades, when the report
   does and nothing is forgotten. *)
LEMMA ReportExecuted ==
    ASSUME TypeOK, FeedExecuted, NEW o \in Orders, NEW events \in Seq(Events),
           Report(o, events), executed \subseteq executed',
           \A i \in DOMAIN events : events[i].kind = "trade" => events[i].trade \in executed'
    PROVE  FeedExecuted'
  <1> DEFINE X == ExchangeOf[o]
             S == feed[X]
  <1>1. X \in Exchanges
    BY CollectorAssumption
  <1>2. S \in Seq(Events)
    BY <1>1 DEF TypeOK
  <1>3. feed' = [feed EXCEPT ![X] = S \o events]
    BY DEF Report
  <1>4. SUFFICES ASSUME NEW x \in Exchanges, NEW i \in DOMAIN feed'[x], feed'[x][i].kind = "trade"
                 PROVE  feed'[x][i].trade \in executed'
    BY DEF FeedExecuted
  <1>5. CASE x # X
    BY <1>1, <1>3, <1>4, <1>5 DEF FeedExecuted, TypeOK
  <1>6. CASE x = X
    <2>1. feed'[x] = S \o events
      BY <1>1, <1>3, <1>6 DEF TypeOK
    <2>2. i \in 1 .. Len(S) + Len(events)
      BY <2>1, <1>2, <1>4
    <2>3. CASE i <= Len(S)
      <3>1. feed'[x][i] = S[i] /\ i \in DOMAIN S
        BY <2>1, <2>2, <2>3, <1>2
      <3> QED
        BY <3>1, <1>1, <1>4 DEF FeedExecuted
    <2>4. CASE i > Len(S)
      <3>1. i - Len(S) \in DOMAIN events /\ feed'[x][i] = events[i - Len(S)]
        BY <2>1, <2>2, <2>4, <1>2
      <3> QED
        BY <3>1, <1>4
    <2> QED
      BY <2>2, <2>3, <2>4, <1>2
  <1> QED
    BY <1>5, <1>6

(* Taking an event from a stream: a trade in it is executed, and so is what the
   streams still carry. *)
LEMMA ReceiveExecuted ==
    ASSUME TypeOK, FeedExecuted, NEW x \in Exchanges, Receive(x)
    PROVE  /\ FeedExecuted'
           /\ Head(feed[x]).kind = "trade" => Head(feed[x]).trade \in executed
  <1>1. feed[x] \in Seq(Events) /\ feed[x] # <<>>
    BY DEF TypeOK, Receive
  <1>2. Head(feed[x]) = feed[x][1] /\ 1 \in DOMAIN feed[x]
    BY <1>1
  <1>3. feed' = [feed EXCEPT ![x] = Tail(feed[x])] /\ executed' = executed
    BY DEF Receive
  <1>4. ASSUME NEW y \in Exchanges, NEW i \in DOMAIN feed'[y], feed'[y][i].kind = "trade"
        PROVE  feed'[y][i].trade \in executed'
    <2>1. CASE y # x
      BY <1>3, <1>4, <2>1 DEF FeedExecuted, TypeOK
    <2>2. CASE y = x
      <3>1. feed'[y] = Tail(feed[x])
        BY <1>3, <2>2 DEF TypeOK
      <3>2. i + 1 \in DOMAIN feed[x] /\ feed'[y][i] = feed[x][i + 1]
        BY <1>1, <1>4, <3>1
      <3> QED
        BY <1>3, <1>4, <3>2 DEF FeedExecuted
    <2> QED
      BY <2>1, <2>2
  <1> QED
    BY <1>2, <1>4 DEF FeedExecuted

LEMMA QueueExecuted ==
    ASSUME NEW q \in Seq(Trades), \A i \in DOMAIN q : q[i] \in executed
    PROVE  /\ \A t \in Trades : t \in executed => \A i \in DOMAIN Append(q, t) : Append(q, t)[i] \in executed
           /\ q # <<>> => Head(q) \in executed /\ \A i \in DOMAIN Tail(q) : Tail(q)[i] \in executed
  OBVIOUS

LEMMA PutExecuted ==
    ASSUME NEW store, NEW ts, store \subseteq executed, ts \subseteq executed
    PROVE  UNION {Put(store, t) : t \in ts} \subseteq executed
  BY DEF Put

(* A step that handles no trade changes none of what follows. *)
LEMMA Unhandled ==
    ASSUME MarkedBeforeApplied, UNCHANGED <<work, doneTrades, applied>>
    PROVE  MarkedBeforeApplied'
  BY DEF MarkedBeforeApplied

-----------------------------------------------------------------------------
(* No step brings a trade into the collector that was not executed, or an order
   that is not bookable into the store. *)
LEMMA NextOnlyExecuted == TypeOK /\ OnlyExecuted /\ [Next]_vars => OnlyExecuted'
  <1> SUFFICES ASSUME TypeOK, OnlyExecuted, [Next]_vars
               PROVE  OnlyExecuted'
    OBVIOUS
  <1> USE DEF exchangeVars, collectorVars, positionVars, threadVars
  <1>0. FeedExecuted
    BY DEF OnlyExecuted, FeedExecuted
  <1>1. ASSUME NEW o \in Orders, NEW status \in OS!OrderStatus, NEW traded \in BOOLEAN,
               Report(o, <<OrderEvent(o, status, traded)>>), executed' = executed,
               UNCHANGED <<orderStore, tradeStore, tradeC, visit, cur, work, todo>>
        PROVE  OnlyExecuted'
    <2>1. <<OrderEvent(o, status, traded)>> \in Seq(Events)
      <3>1. OrderEvent(o, status, traded) \in Events
        BY OrderEventType
      <3> QED
        BY <3>1, ShortSeq
    <2>2. FeedExecuted'
      <3> DEFINE events == <<OrderEvent(o, status, traded)>>
      <3>1. \A i \in DOMAIN events : events[i].kind # "trade"
        BY DEF OrderEvent
      <3>2. Report(o, events) /\ executed \subseteq executed'
        BY <1>1
      <3> HIDE DEF events
      <3> QED
        BY <1>0, <2>1, <3>1, <3>2, ReportExecuted DEF events
    <2> QED
      BY <1>1, <2>2 DEF OnlyExecuted, FeedExecuted
  <1>2. ASSUME NEW o \in Orders, Accept(o),
               UNCHANGED <<orderStore, tradeStore, tradeC, visit, cur, work, todo>>
        PROVE  OnlyExecuted'
    BY <1>1, <1>2 DEF Accept, OS!OrderStatus
  <1>3. ASSUME NEW o \in Orders, Cancel(o)
        PROVE  OnlyExecuted'
    BY <1>1, <1>3 DEF Cancel, OS!OrderStatus, Traded
  <1>4. ASSUME NEW t \in Trades, Execute(t)
        PROVE  OnlyExecuted'
    <2> DEFINE status == IF TradesOf(t.order) \subseteq executed \cup {t}
                         THEN "Filled" ELSE "PartiallyFilled"
               trade == TradeEvent(t)
               order == OrderEvent(t.order, status, TRUE)
               events == IF TradeFirst THEN <<trade, order>> ELSE <<order, trade>>
    <2>1. t.order \in Orders /\ trade \in Events /\ order \in Events
      BY CollectorAssumption, TradeEventType, OrderEventType DEF OS!OrderStatus
    <2>2. events \in Seq(Events)
      BY <2>1, ShortSeq
    <2>3. Report(t.order, events) /\ executed' = executed \cup {t}
      BY <1>4 DEF Execute
    <2>4. \A i \in DOMAIN events : events[i].kind = "trade" => events[i].trade \in executed'
      BY <2>3 DEF TradeEvent, OrderEvent
    <2>5. FeedExecuted'
      <3> HIDE DEF events
      <3> QED
        BY <1>0, <2>1, <2>2, <2>3, <2>4, ReportExecuted
    <2> QED
      BY <1>4, <2>3, <2>5 DEF Execute, OnlyExecuted, FeedExecuted
  <1>5. ASSUME NEW x \in Exchanges, Disconnect(x)
        PROVE  OnlyExecuted'
    BY <1>5 DEF Disconnect, OnlyExecuted, TypeOK
  <1>6. ASSUME NEW o \in Own, Created(o)
        PROVE  OnlyExecuted'
    BY <1>6, CollectorAssumption DEF Created, OS!Add, OnlyExecuted, Bookable
  <1>7. ASSUME NEW x \in Exchanges, Deliver(x)
        PROVE  OnlyExecuted'
    <2> DEFINE e == Head(feed[x])
    <2>6. CASE RemoveFilledOrder(x)
      BY <2>6 DEF RemoveFilledOrder, OS!Remove, OnlyExecuted, Bookable
    <2> SUFFICES ASSUME ~RemoveFilledOrder(x)
                 PROVE  OnlyExecuted'
      BY <2>6
    <2>1. Receive(x)
      BY <1>7 DEF Deliver, ReceiveOrder, ReceiveTrade, QueueTrade
    <2>2. /\ FeedExecuted'
          /\ e \in Events
          /\ e.kind = "trade" => e.trade \in executed
          /\ executed' = executed
      BY <1>0, <2>1, ReceiveExecuted, ReceiveType DEF Receive
    <2> HIDE DEF e
    <2>3. CASE ReceiveOrder(x)
      <3>1. e.order \in Orders
        BY <2>2, <2>3, EventFields DEF ReceiveOrder, e
      <3>2. orderStore' \subseteq Bookable
        BY <2>3, <3>1 DEF ReceiveOrder, e, OnlyExecuted, Bookable, OS!HandleOrderUpdate, OS!Tracked,
                          OS!Exists, OS!Add, OS!Remove
      <3> QED
        BY <2>2, <2>3, <3>2 DEF ReceiveOrder, OnlyExecuted, FeedExecuted
    <2>4. CASE ReceiveTrade(x)
      <3>1. e.trade \in executed /\ cur' = [cur EXCEPT ![x] = {e.trade}]
        BY <2>2, <2>4 DEF ReceiveTrade, e
      <3>2. \A q \in Threads : cur'[q] \subseteq executed
        BY <3>1 DEF OnlyExecuted, TypeOK
      <3> QED
        BY <2>2, <2>4, <3>2 DEF ReceiveTrade, OnlyExecuted, FeedExecuted
    <2>5. CASE QueueTrade(x)
      <3>1. e.trade \in executed /\ e.trade \in Trades /\ tradeC' = Append(tradeC, e.trade)
        BY <2>2, <2>5, EventFields DEF QueueTrade, Enqueue, e
      <3>2. \A i \in DOMAIN tradeC' : tradeC'[i] \in executed
        BY <3>1, QueueExecuted DEF OnlyExecuted, TypeOK
      <3> QED
        BY <2>2, <2>5, <3>2 DEF QueueTrade, OnlyExecuted, FeedExecuted
    <2> QED
      BY <1>7, <2>3, <2>4, <2>5 DEF Deliver
  <1>8. ASSUME NEW p \in Runners, Dequeue(p)
        PROVE  OnlyExecuted'
    <2>1. Head(tradeC) \in executed /\ \A i \in DOMAIN tradeC' : tradeC'[i] \in executed
      BY <1>8, QueueExecuted DEF Dequeue, OnlyExecuted, TypeOK
    <2> QED
      BY <1>8, <2>1 DEF Dequeue, OnlyExecuted, TypeOK
  <1>9. ASSUME NEW p \in Recoverers, NEW x \in Exchanges, TickScan(p, x)
        PROVE  OnlyExecuted'
    BY <1>9 DEF TickScan, Recover, RecoverFails, ExecutedOn, OnlyExecuted, TypeOK
  <1>10. ASSUME NEW p \in Recoverers, RecoverTrade(p)
         PROVE  OnlyExecuted'
    <2>1. PICK t \in todo[p] : /\ todo' = [todo EXCEPT ![p] = @ \ {t}]
                               /\ cur' = [cur EXCEPT ![p] = {t}]
      BY <1>10 DEF RecoverTrade
    <2>2. t \in executed
      BY <2>1 DEF OnlyExecuted
    <2> QED
      BY <1>10, <2>1, <2>2 DEF RecoverTrade, OnlyExecuted, TypeOK
  <1>11. ASSUME NEW p \in Threads, Store(p) \/ StoreAgain(p)
         PROVE  OnlyExecuted'
    <2>1. tradeStore' \subseteq executed
      BY <1>11, PutExecuted DEF Store, StoreAgain, OnlyExecuted
    <2>2. \A q \in Threads : cur'[q] \subseteq cur[q]
      BY <1>11 DEF Store, StoreAgain, Refused, TypeOK
    <2> QED
      BY <1>11, <2>1, <2>2 DEF Store, StoreAgain, OnlyExecuted
  <1>12. ASSUME NEW p \in Threads, Lock(p)
         PROVE  OnlyExecuted'
    <2>1. CASE CheckDone(p)
      BY <2>1 DEF CheckDone, Refused, OnlyExecuted, TypeOK
    <2>2. CASE CheckUnknown(p)
      BY <2>2 DEF CheckUnknown, OnlyExecuted
    <2>3. CASE CheckKnown(p)
      BY <2>3 DEF CheckKnown, OnlyExecuted, TypeOK
    <2>4. CASE FilterBegin(p)
      BY <2>4 DEF FilterBegin, OnlyExecuted
    <2> QED
      BY <1>12, <2>1, <2>2, <2>3, <2>4 DEF Lock
  <1>13. ASSUME NEW p \in Threads, Work(p)
         PROVE  OnlyExecuted'
    <2>1. CASE VisitDone(p)
      BY <2>1 DEF VisitDone, OnlyExecuted
    <2>2. CASE VisitKnown(p)
      BY <2>2 DEF VisitKnown, OnlyExecuted, TypeOK
    <2>3. CASE VisitUnknown(p)
      BY <2>3 DEF VisitUnknown, OnlyExecuted
    <2>4. CASE FilterEnd(p)
      BY <2>4 DEF FilterEnd, OnlyExecuted
    <2>5. CASE AddTrade(p)
      BY <2>5 DEF AddTrade, OnlyExecuted, TypeOK
    <2>6. CASE EmitPositionUpdate(p)
      BY <2>6 DEF EmitPositionUpdate, OnlyExecuted
    <2>7. CASE Store(p)
      BY <1>11, <2>7
    <2> QED
      BY <1>13, <2>1, <2>2, <2>3, <2>4, <2>5, <2>6, <2>7 DEF Work
  <1>14. ASSUME UNCHANGED <<executed, feed, orderStore, tradeStore, tradeC, visit, cur, work, todo>>
         PROVE  OnlyExecuted'
    BY <1>14 DEF OnlyExecuted
  <1>15. ASSUME NEW o \in Orders, ForeignOrder(o)
         PROVE  OnlyExecuted'
    BY <1>2, <1>15 DEF ForeignOrder
  <1>16. ASSUME NEW o \in Own, Submit(o)
         PROVE  OnlyExecuted'
    BY <1>2, <1>16, CollectorAssumption DEF Submit
  <1>17. ASSUME NEW o \in Own, ResponseLost(o)
         PROVE  OnlyExecuted'
    BY <1>14, <1>17 DEF ResponseLost
  <1>18. ASSUME NEW p \in Runners, Tick(p)
         PROVE  OnlyExecuted'
    BY <1>14, <1>18 DEF Tick
  <1>19. ASSUME NEW p \in Recoverers, RecoverEnd(p)
         PROVE  OnlyExecuted'
    BY <1>14, <1>19 DEF RecoverEnd
  <1>20. CASE UNCHANGED vars
    BY <1>14, <1>20 DEF vars
  <1> QED
    BY <1>3, <1>4, <1>5, <1>6, <1>7, <1>8, <1>9, <1>10, <1>11, <1>12, <1>13, <1>15, <1>16,
       <1>17, <1>18, <1>19, <1>20
       DEF Next, External, Respond, Scan, Threads

-----------------------------------------------------------------------------
(* Every step keeps the trades in work marked, unapplied and apart. *)
LEMMA NextMarked == TypeOK /\ BookedOnce /\ [Next]_vars => MarkedBeforeApplied'
  <1> SUFFICES ASSUME TypeOK, OnlyExecuted, MarkedBeforeApplied, [Next]_vars
               PROVE  MarkedBeforeApplied'
    BY DEF BookedOnce
  <1> USE DEF exchangeVars, collectorVars, positionVars, threadVars
  (* A goroutine takes a trade that is not done and marks it. *)
  <1>1. ASSUME NEW p \in Threads, NEW t \in Trades, NotDone(t), t.order \in orderStore, MarkDone(t),
               work'[p] \subseteq work[p] \cup {t}, \A q \in Threads \ {p} : work'[q] = work[q],
               applied' = applied
        PROVE  MarkedBeforeApplied'
    <2>1. (\A q \in Threads : t \notin work[q]) /\ applied[t] = 0
      BY <1>1 DEF MarkedBeforeApplied, NotDone, TypeOK
    <2>2. Key(t) \in doneTrades' /\ doneTrades \subseteq doneTrades'
      BY <1>1 DEF MarkDone
    <2>3. t.order \in Bookable
      BY <1>1 DEF OnlyExecuted
    <2>4. ASSUME NEW u \in Trades, NEW q \in Threads, u \in work'[q]
          PROVE  /\ Key(u) \in doneTrades'
                 /\ applied'[u] = 0
                 /\ u.order \in Bookable
                 /\ \A r \in Threads \ {q} : u \notin work'[r]
      <3>1. CASE u = t
        BY <1>1, <2>1, <2>2, <2>3, <2>4, <3>1
      <3>2. CASE u # t
        <4>1. u \in work[q] /\ \A r \in Threads : u \in work'[r] => u \in work[r]
          BY <1>1, <2>4, <3>2
        <4> QED
          BY <1>1, <2>2, <4>1 DEF MarkedBeforeApplied
      <3> QED
        BY <3>1, <3>2
    <2>5. ASSUME NEW u \in Trades, applied'[u] > 0
          PROVE  Key(u) \in doneTrades'
      BY <1>1, <2>2, <2>5 DEF MarkedBeforeApplied
    <2> QED
      BY <2>4, <2>5 DEF MarkedBeforeApplied, Bookable
  <1>2. ASSUME NEW p \in Threads, CheckKnown(p)
        PROVE  MarkedBeforeApplied'
    <2>1. PICK t \in cur[p] : /\ NotDone(t)
                              /\ OS!Exists(orderStore, t.order)
                              /\ MarkDone(t)
                              /\ work' = [work EXCEPT ![p] = {t}]
                              /\ applied' = applied
      BY <1>2 DEF CheckKnown
    <2> QED
      BY <1>1, <2>1 DEF OS!Exists, TypeOK
  <1>3. ASSUME NEW p \in Threads, VisitKnown(p)
        PROVE  MarkedBeforeApplied'
    <2>1. PICK t \in visit : /\ NotDone(t)
                             /\ OS!Exists(orderStore, t.order)
                             /\ MarkDone(t)
                             /\ work' = [work EXCEPT ![p] = @ \cup {t}]
                             /\ applied' = applied
      BY <1>3 DEF VisitKnown
    <2> QED
      BY <1>1, <2>1 DEF OS!Exists, TypeOK
  <1>4. ASSUME NEW p \in Threads, AddTrade(p)
        PROVE  MarkedBeforeApplied'
    <2>1. PICK t \in work[p] : /\ work' = [work EXCEPT ![p] = @ \ {t}]
                               /\ applied' = [applied EXCEPT ![t] = @ + 1]
                               /\ doneTrades' = doneTrades
      BY <1>4 DEF AddTrade
    <2>2. t \in Trades /\ Key(t) \in doneTrades /\ \A q \in Threads \ {p} : t \notin work[q]
      BY <2>1 DEF MarkedBeforeApplied, TypeOK
    <2>3. \A q \in Threads : t \notin work'[q] /\ work'[q] \subseteq work[q]
      BY <2>1, <2>2 DEF TypeOK
    <2>4. \A u \in Trades \ {t} : applied'[u] = applied[u]
      BY <2>1 DEF TypeOK
    <2> QED
      BY <2>1, <2>2, <2>3, <2>4 DEF MarkedBeforeApplied, Bookable
  <1>5. CASE UNCHANGED <<work, doneTrades, applied>>
    BY <1>5, Unhandled
  <1>6. ASSUME NEW p \in Threads, Lock(p) \/ Work(p)
        PROVE  MarkedBeforeApplied'
    <2>1. CASE CheckKnown(p) \/ VisitKnown(p) \/ AddTrade(p)
      BY <1>2, <1>3, <1>4, <2>1
    <2>2. CASE CheckDone(p) \/ CheckUnknown(p) \/ FilterBegin(p) \/ Store(p)
      BY <1>5, <2>2 DEF CheckDone, CheckUnknown, FilterBegin, Store
    <2>3. CASE VisitDone(p) \/ VisitUnknown(p) \/ FilterEnd(p) \/ EmitPositionUpdate(p)
      BY <1>5, <2>3 DEF VisitDone, VisitUnknown, FilterEnd, EmitPositionUpdate
    <2> QED
      BY <1>6, <2>1, <2>2, <2>3 DEF Lock, Work
  <1>7. CASE External
    BY <1>5, <1>7 DEF External, ForeignOrder, Cancel, Execute, Disconnect
  <1>8. ASSUME NEW o \in Own, Submit(o) \/ Respond(o)
        PROVE  MarkedBeforeApplied'
    BY <1>5, <1>8 DEF Submit, Respond, Created, ResponseLost
  <1>9. ASSUME NEW x \in Exchanges, Deliver(x)
        PROVE  MarkedBeforeApplied'
    BY <1>5, <1>9 DEF Deliver, ReceiveOrder, RemoveFilledOrder, ReceiveTrade, QueueTrade
  <1>10. ASSUME NEW p \in Runners, Tick(p) \/ Dequeue(p)
         PROVE  MarkedBeforeApplied'
    BY <1>5, <1>10 DEF Tick, Dequeue
  <1>11. ASSUME NEW p \in Recoverers, Scan(p) \/ StoreAgain(p) \/ \E x \in Exchanges : TickScan(p, x)
         PROVE  MarkedBeforeApplied'
    BY <1>5, <1>11 DEF Scan, RecoverTrade, RecoverEnd, StoreAgain, TickScan, Recover, RecoverFails
  <1>12. CASE UNCHANGED vars
    BY <1>5, <1>12 DEF vars
  <1> QED
    BY <1>6, <1>7, <1>8, <1>9, <1>10, <1>11, <1>12 DEF Next

-----------------------------------------------------------------------------
(* No trade is handed to the position twice, nor to two goroutines at once:
   processTrade and Process mark it done while they hold c.mu. *)
THEOREM BookedOnceInvariant == Spec => []BookedOnce
  <1>1. Init => BookedOnce
    BY DEF Init, BookedOnce, OnlyExecuted, MarkedBeforeApplied
  <1>2. TypeOK /\ BookedOnce /\ [Next]_vars => BookedOnce'
    BY NextOnlyExecuted, NextMarked DEF BookedOnce
  <1> QED
    BY <1>1, <1>2, TypeCorrect, PTL DEF Spec

-----------------------------------------------------------------------------
(* The trades the position has absorbed. *)
Booked == {t \in Trades : applied[t] > 0}

(* Applying a trade books it in the ledger. *)
LEMMA AddTradeBooks ==
    ASSUME TypeOK, BookedOnce, NEW p \in Threads, AddTrade(p)
    PROVE  Ledger!Next
  <1>1. PICK t \in work[p] : /\ base' = base + Delta(t)
                             /\ applied' = [applied EXCEPT ![t] = @ + 1]
                             /\ executed' = executed
    BY DEF AddTrade, exchangeVars
  <1>2. t \in Trades /\ t \in executed /\ t.order \in Bookable /\ applied[t] = 0
    BY <1>1 DEF BookedOnce, OnlyExecuted, MarkedBeforeApplied, TypeOK
  <1>3. t \notin Booked /\ Booked' = Booked \cup {t}
    BY <1>1, <1>2 DEF Booked, TypeOK
  <1>4. Ledger!Delta(t) = Delta(t)
    BY DEF Ledger!Delta, Delta
  <1>5. Ledger!Book(t)
    BY <1>1, <1>2, <1>3, <1>4 DEF Ledger!Book, Booked
  <1> QED
    BY <1>2, <1>5 DEF Ledger!Next

(* Executing a trade is the same step of the ledger. *)
LEMMA ExecuteExecutes ==
    ASSUME NEW t \in Trades, Execute(t)
    PROVE  Ledger!Next
  <1>1. Ledger!Execute(t)
    BY DEF Execute, Ledger!Execute, positionVars
  <1> QED
    BY <1>1 DEF Ledger!Next

(* Every step of the collector is one of the ledger, or none. *)
LEMMA NextImplements == TypeOK /\ BookedOnce /\ [Next]_vars => [Ledger!Next]_(Ledger!vars)
  <1> SUFFICES ASSUME TypeOK, BookedOnce, [Next]_vars
               PROVE  [Ledger!Next]_(Ledger!vars)
    OBVIOUS
  <1> USE DEF exchangeVars, collectorVars, positionVars, threadVars
  <1>1. CASE UNCHANGED <<executed, applied, base>>
    BY <1>1 DEF Ledger!vars
  <1>2. ASSUME NEW p \in Threads, Lock(p) \/ Work(p)
        PROVE  [Ledger!Next]_(Ledger!vars)
    <2>1. CASE AddTrade(p)
      BY <2>1, AddTradeBooks
    <2>2. CASE CheckDone(p) \/ CheckUnknown(p) \/ CheckKnown(p) \/ FilterBegin(p)
      BY <1>1, <2>2 DEF CheckDone, CheckUnknown, CheckKnown, FilterBegin
    <2>3. CASE Store(p) \/ VisitDone(p) \/ VisitKnown(p) \/ VisitUnknown(p)
      BY <1>1, <2>3 DEF Store, VisitDone, VisitKnown, VisitUnknown
    <2>4. CASE FilterEnd(p) \/ EmitPositionUpdate(p)
      BY <1>1, <2>4 DEF FilterEnd, EmitPositionUpdate
    <2> QED
      BY <1>2, <2>1, <2>2, <2>3, <2>4 DEF Lock, Work
  <1>3. CASE External
    <2>1. ASSUME NEW t \in Trades, Execute(t)
          PROVE  [Ledger!Next]_(Ledger!vars)
      BY <2>1, ExecuteExecutes
    <2>2. ASSUME NEW o \in Orders, ForeignOrder(o) \/ Cancel(o)
          PROVE  [Ledger!Next]_(Ledger!vars)
      BY <1>1, <2>2 DEF ForeignOrder, Accept, Cancel
    <2>3. ASSUME NEW x \in Exchanges, Disconnect(x)
          PROVE  [Ledger!Next]_(Ledger!vars)
      BY <1>1, <2>3 DEF Disconnect
    <2> QED
      BY <1>3, <2>1, <2>2, <2>3 DEF External
  <1>4. ASSUME NEW o \in Own, Submit(o) \/ Respond(o)
        PROVE  [Ledger!Next]_(Ledger!vars)
    BY <1>1, <1>4 DEF Submit, Accept, Respond, Created, ResponseLost
  <1>5. ASSUME NEW x \in Exchanges, Deliver(x)
        PROVE  [Ledger!Next]_(Ledger!vars)
    BY <1>1, <1>5 DEF Deliver, ReceiveOrder, RemoveFilledOrder, ReceiveTrade, QueueTrade, Receive
  <1>6. ASSUME NEW p \in Runners, Tick(p) \/ Dequeue(p)
        PROVE  [Ledger!Next]_(Ledger!vars)
    BY <1>1, <1>6 DEF Tick, Dequeue
  <1>7. ASSUME NEW p \in Recoverers, Scan(p) \/ StoreAgain(p) \/ \E x \in Exchanges : TickScan(p, x)
        PROVE  [Ledger!Next]_(Ledger!vars)
    BY <1>1, <1>7 DEF Scan, RecoverTrade, RecoverEnd, StoreAgain, TickScan, Recover, RecoverFails
  <1>8. CASE UNCHANGED vars
    BY <1>1, <1>8 DEF vars
  <1> QED
    BY <1>2, <1>3, <1>4, <1>5, <1>6, <1>7, <1>8 DEF Next

(* The collector implements the ledger: the position absorbs every trade at most
   once, whichever goroutine processTrade or Process runs in. *)
THEOREM Implementation == Spec => ImplementsLedger
  <1>1. Init => Ledger!Init
    BY DEF Init, Ledger!Init
  <1> QED
    BY <1>1, NextImplements, TypeCorrect, BookedOnceInvariant, PTL DEF Spec, ImplementsLedger, Ledger!Spec

-----------------------------------------------------------------------------
(* A step that leaves the position and its last report alone, and takes no
   goroutine out of "apply" or "emit". *)
Unreported ==
    /\ UNCHANGED <<base, reported>>
    /\ \A q \in Threads : pc[q] \in {"apply", "emit"} => pc'[q] = pc[q]

(* Only two steps are of another kind: the one that adds a trade, whose
   goroutine is still to emit, and the emission. *)
LEMMA NextReports ==
    TypeOK /\ [Next]_vars =>
        \/ Unreported
        \/ \E p \in Threads : pc'[p] \in {"apply", "emit"}
        \/ reported' = base'
  <1> SUFFICES ASSUME TypeOK, [Next]_vars,
                      \A p \in Threads : pc'[p] \notin {"apply", "emit"},
                      reported' # base'
               PROVE  Unreported
    OBVIOUS
  <1> USE DEF exchangeVars, collectorVars, positionVars, threadVars
  (* A goroutine that is elsewhere moves. *)
  <1>1. ASSUME NEW p \in Threads, NEW l, pc[p] \notin {"apply", "emit"}, Goto(p, l),
               UNCHANGED <<base, reported>>
        PROVE  Unreported
    BY <1>1 DEF Goto, Unreported, TypeOK
  <1>2. CASE UNCHANGED <<base, reported, pc>>
    BY <1>2 DEF Unreported
  <1>3. ASSUME NEW p \in Threads, Lock(p)
        PROVE  Unreported
    BY <1>1, <1>3 DEF Lock, CheckDone, CheckUnknown, CheckKnown, FilterBegin, Refused
  <1>4. ASSUME NEW p \in Threads, Work(p)
        PROVE  Unreported
    <2>1. CASE AddTrade(p)
      BY <1>4, <2>1 DEF AddTrade, ThenEmit, Goto, TypeOK
    <2>2. CASE EmitPositionUpdate(p)
      BY <2>2 DEF EmitPositionUpdate
    <2>3. CASE Store(p) \/ FilterEnd(p)
      BY <1>1, <2>3 DEF Store, FilterEnd, Refused
    <2>4. CASE VisitDone(p) \/ VisitKnown(p) \/ VisitUnknown(p)
      BY <1>2, <2>4 DEF VisitDone, VisitKnown, VisitUnknown
    <2> QED
      BY <1>4, <2>1, <2>2, <2>3, <2>4 DEF Work
  <1>5. CASE External
    BY <1>2, <1>5 DEF External, ForeignOrder, Cancel, Execute, Disconnect
  <1>6. ASSUME NEW o \in Own, Submit(o) \/ Respond(o)
        PROVE  Unreported
    BY <1>1, <1>6 DEF Submit, Respond, Created, ResponseLost, Threads
  <1>7. ASSUME NEW x \in Exchanges, Deliver(x)
        PROVE  Unreported
    <2>1. CASE ReceiveOrder(x) \/ QueueTrade(x)
      BY <1>1, <1>2, <2>1 DEF ReceiveOrder, QueueTrade, Receive, Threads
    <2>2. CASE ReceiveTrade(x) \/ RemoveFilledOrder(x)
      BY <1>1, <2>2 DEF ReceiveTrade, RemoveFilledOrder, Receive, Threads
    <2> QED
      BY <1>7, <2>1, <2>2 DEF Deliver
  <1>8. ASSUME NEW p \in Runners, Tick(p) \/ Dequeue(p)
        PROVE  Unreported
    BY <1>1, <1>8 DEF Tick, Dequeue, Threads
  <1>9. ASSUME NEW p \in Recoverers, Scan(p) \/ StoreAgain(p) \/ \E x \in Exchanges : TickScan(p, x)
        PROVE  Unreported
    <2>1. CASE \E x \in Exchanges : RecoverFails(p, x)
      BY <1>2, <2>1 DEF RecoverFails
    <2>2. CASE Scan(p) \/ StoreAgain(p) \/ \E x \in Exchanges : Recover(p, x)
      BY <1>1, <2>2 DEF Scan, RecoverTrade, RecoverEnd, StoreAgain, Recover, Threads
    <2> QED
      BY <1>9, <2>1, <2>2 DEF TickScan
  <1>10. CASE UNCHANGED vars
    BY <1>2, <1>10 DEF vars
  <1> QED
    BY <1>3, <1>4, <1>5, <1>6, <1>7, <1>8, <1>9, <1>10 DEF Next

(* However many goroutines apply and emit, the last emission shows the current
   position once none of them is between the two (processTrade, Process). *)
THEOREM ReportedIsCurrentInvariant == Spec => []ReportedIsCurrent
  <1>1. Init => ReportedIsCurrent
    BY DEF Init, ReportedIsCurrent
  <1>2. TypeOK /\ ReportedIsCurrent /\ [Next]_vars => ReportedIsCurrent'
    BY NextReports DEF ReportedIsCurrent, Unreported
  <1> QED
    BY <1>1, <1>2, TypeCorrect, PTL DEF Spec

-----------------------------------------------------------------------------
(* No trade is forgotten by the collector: NoTradeLost, NothingLeftBehind and
   NoneMissedByRemoval.  The first two need trades with distinct IDs, since the
   trade store keeps one trade per ID; the second also needs an order store
   that orders enter through SubmitOrders only, since nothing processes the
   waiting trades of an order that an update has added. *)

DistinctIDs == \A t, u \in Trades : t.id = u.id => t = u

-----------------------------------------------------------------------------
(* Where a goroutine has a trade to process. *)
Holding == {"check", "store", "readd"}

(* A goroutine holds one trade while it processes it, and none elsewhere; *)
CurOK == \A p \in Threads : IF pc[p] \in Holding THEN \E t \in Trades : cur[p] = {t} ELSE cur[p] = {}

(* it is between c.mu.Lock and c.mu.Unlock while it stores or filters; *)
MutexOK == \A p \in Threads : pc[p] \in {"store", "filter"} => mu = {p}

(* it has trades to apply only from marking them to applying the last. *)
WorkOK == \A p \in Threads : work[p] # {} => pc[p] \in {"filter", "apply"}

ControlInv == CurOK /\ MutexOK /\ WorkOK

(* A goroutine moves on, and none takes or leaves a trade or the mutex. *)
LEMMA MovesOn ==
    ASSUME TypeOK, ControlInv, NEW p \in Threads, NEW l \in Control, Goto(p, l),
           UNCHANGED <<cur, mu, work>>, pc[p] \notin Holding, l \notin Holding,
           l # "filter", work[p] = {} \/ l = "apply"
    PROVE  ControlInv'
  <1>1. pc'[p] = l /\ \A q \in Threads \ {p} : pc'[q] = pc[q]
    BY DEF Goto, TypeOK
  <1>2. CurOK'
    BY <1>1 DEF ControlInv, CurOK, Holding
  <1>3. MutexOK'
    BY <1>1 DEF ControlInv, MutexOK, Holding
  <1>4. WorkOK'
    BY <1>1 DEF ControlInv, WorkOK
  <1> QED
    BY <1>2, <1>3, <1>4 DEF ControlInv

(* A goroutine without a trade takes one. *)
LEMMA Takes ==
    ASSUME TypeOK, ControlInv, NEW p \in Threads, NEW t \in Trades, pc[p] \in {"idle", "scan"},
           cur' = [cur EXCEPT ![p] = {t}], Goto(p, "check"), UNCHANGED <<mu, work>>
    PROVE  ControlInv'
  <1>1. pc'[p] = "check" /\ \A q \in Threads \ {p} : pc'[q] = pc[q]
    BY DEF Goto, TypeOK
  <1>2. cur'[p] = {t} /\ \A q \in Threads \ {p} : cur'[q] = cur[q]
    BY DEF TypeOK
  <1>3. CurOK'
    BY <1>1, <1>2 DEF ControlInv, CurOK, Holding
  <1>4. MutexOK'
    BY <1>1 DEF ControlInv, MutexOK
  <1>5. WorkOK'
    BY <1>1 DEF ControlInv, WorkOK
  <1> QED
    BY <1>3, <1>4, <1>5 DEF ControlInv

(* A goroutine that is refused its trade gives it up, or is to store it again. *)
LEMMA GivesUp ==
    ASSUME TypeOK, ControlInv, NEW p \in Threads, pc[p] \in {"check", "store"}, Refused(p)
    PROVE  CurOK'
  <1>1. CASE p \in Recoverers
    BY <1>1 DEF Refused, Goto, ControlInv, CurOK, Holding, TypeOK
  <1>2. CASE p \notin Recoverers
    <2>1. pc' = [pc EXCEPT ![p] = Resume(p)] /\ cur' = [cur EXCEPT ![p] = {}]
      BY <1>2 DEF Refused, Goto
    <2>2. Resume(p) \notin Holding
      BY DEF Resume, Holding
    <2> QED
      BY <2>1, <2>2 DEF ControlInv, CurOK, TypeOK
  <1> QED
    BY <1>1, <1>2

LEMMA NextControl == TypeOK /\ ControlInv /\ [Next]_vars => ControlInv'
  <1> SUFFICES ASSUME TypeOK, ControlInv, [Next]_vars
               PROVE  ControlInv'
    OBVIOUS
  <1> USE DEF exchangeVars, collectorVars, positionVars, threadVars
  <1>1. CASE UNCHANGED <<pc, cur, mu, work>>
    BY <1>1 DEF ControlInv, CurOK, MutexOK, WorkOK
  <1>2. CASE External
    BY <1>1, <1>2 DEF External, ForeignOrder, Cancel, Execute, Disconnect
  <1>3. ASSUME NEW o \in Own, Submit(o) \/ Respond(o)
        PROVE  ControlInv'
    <2>1. PICK l \in {"sent", "process"} : Goto(o, l)
      BY <1>3 DEF Submit, Respond, Created, ResponseLost
    <2>2. pc[o] \in {"idle", "sent"} /\ UNCHANGED <<cur, mu, work>>
      BY <1>3 DEF Submit, Respond, Created, ResponseLost
    <2>3. o \in Threads /\ work[o] = {}
      BY <2>2 DEF Threads, ControlInv, WorkOK
    <2> QED
      BY <2>1, <2>2, <2>3, MovesOn DEF Control, Holding
  <1>4. ASSUME NEW x \in Exchanges, Deliver(x)
        PROVE  ControlInv'
    <2>1. x \in Threads
      BY DEF Threads
    <2>2. CASE ReceiveOrder(x) \/ RemoveFilledOrder(x)
      <3>1. CASE UNCHANGED pc
        BY <1>1, <2>2, <3>1 DEF ReceiveOrder, RemoveFilledOrder
      <3>2. CASE ~UNCHANGED pc
        <4>1. PICK l \in {"idle", "removeFilled"} : Goto(x, l)
          BY <2>2, <3>2 DEF ReceiveOrder, RemoveFilledOrder
        <4>2. pc[x] \in {"idle", "removeFilled"} /\ UNCHANGED <<cur, mu, work>>
          BY <2>2 DEF ReceiveOrder, RemoveFilledOrder, Receive
        <4>3. work[x] = {}
          BY <2>1, <4>2 DEF ControlInv, WorkOK
        <4> QED
          BY <2>1, <4>1, <4>2, <4>3, MovesOn DEF Control, Holding
      <3> QED
        BY <3>1, <3>2
    <2>3. CASE ReceiveTrade(x)
      <3>1. Head(feed[x]).trade \in Trades
        BY <2>3, ReceiveType, EventFields DEF ReceiveTrade
      <3> QED
        BY <2>1, <2>3, <3>1, Takes DEF ReceiveTrade, Receive
    <2>4. CASE QueueTrade(x)
      BY <1>1, <2>4 DEF QueueTrade
    <2> QED
      BY <1>4, <2>2, <2>3, <2>4 DEF Deliver
  <1>5. ASSUME NEW p \in Runners, Tick(p) \/ Dequeue(p)
        PROVE  ControlInv'
    <2>1. p \in Threads /\ pc[p] = "idle" /\ work[p] = {}
      BY <1>5 DEF Threads, Tick, Dequeue, ControlInv, WorkOK
    <2>2. CASE Tick(p)
      BY <2>1, <2>2, MovesOn DEF Tick, Control, Holding
    <2>3. CASE Dequeue(p)
      <3>1. Head(tradeC) \in Trades
        BY <2>3 DEF Dequeue, TypeOK
      <3> QED
        BY <2>1, <2>3, <3>1, Takes DEF Dequeue
    <2> QED
      BY <1>5, <2>2, <2>3
  <1>6. ASSUME NEW p \in Recoverers, Scan(p) \/ StoreAgain(p) \/ \E x \in Exchanges : TickScan(p, x)
        PROVE  ControlInv'
    <2>1. p \in Threads
      BY DEF Threads
    <2>2. CASE RecoverTrade(p)
      <3>1. PICK t \in todo[p] : cur' = [cur EXCEPT ![p] = {t}] /\ Goto(p, "check")
        BY <2>2 DEF RecoverTrade
      <3>2. t \in Trades
        BY <3>1 DEF TypeOK
      <3> QED
        BY <2>1, <2>2, <3>1, <3>2, Takes DEF RecoverTrade
    <2>3. CASE RecoverEnd(p) \/ \E x \in Exchanges : TickScan(p, x)
      <3>1. PICK l \in {"idle", "scan"} : Goto(p, l)
        <4>1. CASE \E x \in Exchanges : RecoverFails(p, x)
          BY <2>1, <4>1 DEF RecoverFails, Goto, TypeOK
        <4>2. CASE RecoverEnd(p) \/ \E x \in Exchanges : Recover(p, x)
          BY <4>2 DEF RecoverEnd, Recover
        <4> QED
          BY <2>3, <4>1, <4>2 DEF TickScan
      <3>2. pc[p] \in {"idle", "scan"} /\ UNCHANGED <<cur, mu, work>>
        BY <2>3 DEF RecoverEnd, TickScan, Recover, RecoverFails
      <3>3. work[p] = {}
        BY <2>1, <3>2 DEF ControlInv, WorkOK
      <3> QED
        BY <2>1, <3>1, <3>2, <3>3, MovesOn DEF Control, Holding
    <2>4. CASE StoreAgain(p)
      <3>1. /\ pc[p] = "readd" /\ pc' = [pc EXCEPT ![p] = "scan"]
            /\ cur' = [cur EXCEPT ![p] = {}] /\ UNCHANGED <<mu, work>>
        BY <2>4 DEF StoreAgain, Goto
      <3> QED
        BY <2>1, <3>1 DEF ControlInv, CurOK, MutexOK, WorkOK, Holding, TypeOK
    <2> QED
      BY <1>6, <2>2, <2>3, <2>4 DEF Scan
  <1>7. ASSUME NEW p \in Threads, Lock(p)
        PROVE  ControlInv'
    <2>1. CASE CheckDone(p)
      <3>1. CurOK'
        BY <2>1, GivesUp DEF CheckDone
      <3>2. /\ pc[p] = "check" /\ pc'[p] \notin {"store", "filter"} /\ UNCHANGED <<mu, work>>
            /\ \A q \in Threads \ {p} : pc'[q] = pc[q]
        BY <2>1 DEF CheckDone, Refused, Goto, Resume, TypeOK
      <3> QED
        BY <3>1, <3>2 DEF ControlInv, MutexOK, WorkOK
    <2>2. CASE CheckUnknown(p)
      <3>1. pc[p] = "check" /\ pc' = [pc EXCEPT ![p] = "store"] /\ mu = {} /\ mu' = {p} /\ UNCHANGED <<cur, work>>
        BY <2>2 DEF CheckUnknown, Goto
      <3> QED
        BY <3>1 DEF ControlInv, CurOK, MutexOK, WorkOK, Holding, TypeOK
    <2>3. CASE CheckKnown(p)
      <3>1. PICK t \in cur[p] : /\ pc[p] = "check" /\ pc' = [pc EXCEPT ![p] = "apply"] /\ UNCHANGED mu
                                /\ cur' = [cur EXCEPT ![p] = {}] /\ work' = [work EXCEPT ![p] = {t}]
        BY <2>3 DEF CheckKnown, Goto
      <3> QED
        BY <3>1 DEF ControlInv, CurOK, MutexOK, WorkOK, Holding, TypeOK
    <2>4. CASE FilterBegin(p)
      <3>1. pc[p] = "process" /\ pc' = [pc EXCEPT ![p] = "filter"] /\ mu = {} /\ mu' = {p} /\ UNCHANGED <<cur, work>>
        BY <2>4 DEF FilterBegin, Goto
      <3> QED
        BY <3>1 DEF ControlInv, CurOK, MutexOK, WorkOK, Holding, TypeOK
    <2> QED
      BY <1>7, <2>1, <2>2, <2>3, <2>4 DEF Lock
  <1>8. ASSUME NEW p \in Threads, Work(p)
        PROVE  ControlInv'
    <2>1. CASE Store(p)
      <3>1. CurOK'
        BY <2>1, GivesUp DEF Store
      <3>2. /\ pc[p] = "store" /\ mu = {p} /\ pc'[p] \notin {"store", "filter"} /\ UNCHANGED work
            /\ \A q \in Threads \ {p} : pc'[q] = pc[q]
        BY <2>1 DEF Store, Refused, Goto, Resume, TypeOK, ControlInv, MutexOK
      <3> QED
        BY <3>1, <3>2 DEF ControlInv, MutexOK, WorkOK
    <2>2. CASE VisitDone(p) \/ VisitUnknown(p)
      BY <1>1, <2>2 DEF VisitDone, VisitUnknown
    <2>3. CASE VisitKnown(p)
      <3>1. PICK t \in visit : /\ pc[p] = "filter" /\ work' = [work EXCEPT ![p] = @ \cup {t}]
                               /\ UNCHANGED <<pc, cur, mu>>
        BY <2>3 DEF VisitKnown
      <3> QED
        BY <3>1 DEF ControlInv, CurOK, MutexOK, WorkOK, TypeOK
    <2>4. CASE FilterEnd(p)
      <3>1. /\ pc[p] = "filter" /\ mu = {p} /\ mu' = {} /\ UNCHANGED <<cur, work>>
            /\ pc' = [pc EXCEPT ![p] = IF work[p] = {} THEN Resume(p) ELSE "apply"]
        BY <2>4 DEF FilterEnd, Goto, ControlInv, MutexOK
      <3>2. Resume(p) \in {"idle", "done", "scan"}
        BY DEF Resume
      <3> QED
        BY <3>1, <3>2 DEF ControlInv, CurOK, MutexOK, WorkOK, Holding, TypeOK
    <2>5. CASE AddTrade(p)
      <3>1. PICK t \in work[p] : /\ pc[p] = "apply" /\ UNCHANGED <<cur, mu>>
                                 /\ work' = [work EXCEPT ![p] = @ \ {t}]
                                 /\ pc' = [pc EXCEPT ![p] = IF work[p] = {t} THEN "emit" ELSE "apply"]
        BY <2>5 DEF AddTrade, ThenEmit, Goto
      <3> QED
        BY <3>1 DEF ControlInv, CurOK, MutexOK, WorkOK, Holding, TypeOK
    <2>6. CASE EmitPositionUpdate(p)
      <3>1. pc[p] = "emit" /\ Goto(p, Resume(p)) /\ UNCHANGED <<cur, mu, work>> /\ work[p] = {}
        BY <2>6 DEF EmitPositionUpdate, ControlInv, WorkOK
      <3> QED
        BY <3>1, MovesOn DEF Resume, Control, Holding
    <2> QED
      BY <1>8, <2>1, <2>2, <2>3, <2>4, <2>5, <2>6 DEF Work
  <1>9. CASE UNCHANGED vars
    BY <1>1, <1>9 DEF vars
  <1> QED
    BY <1>2, <1>3, <1>4, <1>5, <1>6, <1>7, <1>8, <1>9 DEF Next

-----------------------------------------------------------------------------
(* Where NoTradeLost looks for a trade. *)
Somewhere(t) ==
    \/ OnFeed(t)
    \/ Queued(t)
    \/ \E p \in Threads : t \in cur[p]
    \/ t \in tradeStore
    \/ Key(t) \in doneTrades

(* A stream keeps what it carries, and carries what is reported. *)
LEMMA ReportCarries ==
    ASSUME TypeOK, NEW o \in Orders, NEW events \in Seq(Events), Report(o, events)
    PROVE  /\ \A t \in Trades : OnFeed(t) => OnFeed(t)'
           /\ \A t \in Trades : (\E i \in DOMAIN events : events[i] = TradeEvent(t)) => OnFeed(t)'
  <1> DEFINE X == ExchangeOf[o]
             S == feed[X]
  <1>1. X \in Exchanges /\ S \in Seq(Events)
    BY CollectorAssumption DEF TypeOK
  <1>2. feed'[X] = S \o events /\ \A x \in Exchanges \ {X} : feed'[x] = feed[x]
    BY <1>1 DEF Report, TypeOK
  <1>3. /\ \A i \in DOMAIN S : i \in DOMAIN (S \o events) /\ (S \o events)[i] = S[i]
        /\ \A i \in DOMAIN events : /\ i + Len(S) \in DOMAIN (S \o events)
                                    /\ (S \o events)[i + Len(S)] = events[i]
    <2> HIDE DEF S
    <2>1. \A i \in DOMAIN S : i \in DOMAIN (S \o events) /\ (S \o events)[i] = S[i]
      BY <1>1
    <2>2. \A i \in DOMAIN events : /\ i + Len(S) \in DOMAIN (S \o events)
                                   /\ (S \o events)[i + Len(S)] = events[i]
      BY <1>1
    <2> QED
      BY <2>1, <2>2
  <1> HIDE DEF S, X
  <1>4. ASSUME NEW t \in Trades, OnFeed(t)
        PROVE  OnFeed(t)'
    <2>1. PICK x \in Exchanges : \E i \in DOMAIN feed[x] : feed[x][i] = TradeEvent(t)
      BY <1>4 DEF OnFeed
    <2>2. \E i \in DOMAIN feed'[x] : feed'[x][i] = TradeEvent(t)
      BY <1>2, <1>3, <2>1 DEF S
    <2> QED
      BY <2>2 DEF OnFeed, TradeEvent
  <1>5. ASSUME NEW t \in Trades, NEW i \in DOMAIN events, events[i] = TradeEvent(t)
        PROVE  OnFeed(t)'
    <2>1. feed'[X][i + Len(S)] = TradeEvent(t) /\ i + Len(S) \in DOMAIN feed'[X]
      BY <1>2, <1>3, <1>5
    <2> QED
      BY <1>1, <2>1 DEF OnFeed, TradeEvent
  <1> QED
    BY <1>4, <1>5

(* Taking an event from a stream loses no other. *)
LEMMA ReceiveCarries ==
    ASSUME TypeOK, NEW x \in Exchanges, Receive(x), NEW t \in Trades, OnFeed(t)
    PROVE  OnFeed(t)' \/ Head(feed[x]) = TradeEvent(t)
  <1>1. feed[x] \in Seq(Events) /\ feed[x] # <<>>
    BY DEF TypeOK, Receive
  <1>2. feed'[x] = Tail(feed[x]) /\ \A y \in Exchanges \ {x} : feed'[y] = feed[y]
    BY DEF Receive, TypeOK
  <1>3. PICK y \in Exchanges : \E i \in DOMAIN feed[y] : feed[y][i] = TradeEvent(t)
    BY DEF OnFeed
  <1>4. CASE y # x
    BY <1>2, <1>3, <1>4 DEF OnFeed, TradeEvent
  <1>5. CASE y = x
    <2>1. PICK i \in 1 .. Len(feed[x]) : feed[x][i] = TradeEvent(t)
      BY <1>1, <1>3, <1>5
    <2>2. CASE i = 1
      BY <1>1, <2>1, <2>2
    <2>3. CASE i # 1
      <3>1. i - 1 \in DOMAIN feed'[x] /\ feed'[x][i - 1] = TradeEvent(t)
        BY <1>1, <1>2, <2>1, <2>3
      <3> QED
        BY <3>1 DEF OnFeed, TradeEvent
    <2> QED
      BY <2>2, <2>3
  <1> QED
    BY <1>4, <1>5

(* A queue takes a trade at its end, and gives up its head only. *)
LEMMA AppendCarries ==
    ASSUME NEW q \in Seq(Trades), NEW u \in Trades
    PROVE  /\ \A i \in DOMAIN q : i \in DOMAIN Append(q, u) /\ Append(q, u)[i] = q[i]
           /\ \E j \in DOMAIN Append(q, u) : Append(q, u)[j] = u
  <1>1. Append(q, u)[Len(q) + 1] = u /\ Len(q) + 1 \in DOMAIN Append(q, u)
    OBVIOUS
  <1>2. \A i \in DOMAIN q : i \in DOMAIN Append(q, u) /\ Append(q, u)[i] = q[i]
    OBVIOUS
  <1> QED
    BY <1>1, <1>2

LEMMA TailCarries ==
    ASSUME NEW q \in Seq(Trades), NEW i \in DOMAIN q, q[i] # Head(q)
    PROVE  \E j \in DOMAIN Tail(q) : Tail(q)[j] = q[i]
  <1>1. i \in 1 .. Len(q) /\ i # 1 /\ q # <<>>
    OBVIOUS
  <1>2. i - 1 \in DOMAIN Tail(q) /\ Tail(q)[i - 1] = q[i]
    BY <1>1
  <1> QED
    BY <1>2

(* TradeStore.Add adds, when no two trades share an ID. *)
LEMMA PutAdds ==
    ASSUME DistinctIDs, NEW store \in SUBSET Trades, NEW t \in Trades
    PROVE  UNION {Put(store, u) : u \in {t}} = store \cup {t}
  BY DEF DistinctIDs, Put

(* No step loses a trade, but a connection that breaks. *)
LEMMA NextSomewhere ==
    ASSUME TypeOK, ControlInv, DistinctIDs, [Next]_vars, drops' = 0,
           NEW t \in Trades, Somewhere(t)
    PROVE  Somewhere(t)'
  <1> USE DEF exchangeVars, collectorVars, positionVars, threadVars
  <1>0. DistinctIDs'
    BY DEF DistinctIDs
  <1>1. ASSUME doneTrades \subseteq doneTrades', tradeStore \subseteq tradeStore', UNCHANGED tradeC,
               \A p \in Threads : cur[p] \subseteq cur'[p], OnFeed(t) => OnFeed(t)'
        PROVE  Somewhere(t)'
    BY <1>1 DEF Somewhere, Queued, Key
  <1>2. CASE UNCHANGED <<feed, doneTrades, tradeStore, tradeC, cur>>
    BY <1>1, <1>2 DEF OnFeed
  <1>3. ASSUME NEW o \in Orders, NEW status \in OS!OrderStatus, NEW traded \in BOOLEAN,
               Report(o, <<OrderEvent(o, status, traded)>>), UNCHANGED <<doneTrades, tradeStore, tradeC, cur>>
        PROVE  Somewhere(t)'
    <2>1. <<OrderEvent(o, status, traded)>> \in Seq(Events)
      BY OrderEventType, ShortSeq
    <2> QED
      BY <1>1, <1>3, <2>1, ReportCarries
  <1>4. CASE External
    <2>1. ASSUME NEW o \in Orders, ForeignOrder(o) \/ Cancel(o)
          PROVE  Somewhere(t)'
      BY <1>3, <2>1 DEF ForeignOrder, Accept, Cancel, OS!OrderStatus, Traded
    <2>2. ASSUME NEW u \in Trades, Execute(u)
          PROVE  Somewhere(t)'
      <3> DEFINE status == IF TradesOf(u.order) \subseteq executed \cup {u}
                           THEN "Filled" ELSE "PartiallyFilled"
                 events == IF TradeFirst THEN <<TradeEvent(u), OrderEvent(u.order, status, TRUE)>>
                           ELSE <<OrderEvent(u.order, status, TRUE), TradeEvent(u)>>
      <3>1. u.order \in Orders
        BY CollectorAssumption
      <3>2. events \in Seq(Events)
        BY <3>1, TradeEventType, OrderEventType, ShortSeq DEF OS!OrderStatus
      <3>3. Report(u.order, events)
        BY <2>2 DEF Execute
      <3> HIDE DEF events
      <3> QED
        BY <1>1, <2>2, <3>1, <3>2, <3>3, ReportCarries DEF Execute
    <2>3. ASSUME NEW x \in Exchanges, Disconnect(x)
          PROVE  FALSE
      BY <2>3 DEF Disconnect, TypeOK
    <2> QED
      BY <1>4, <2>1, <2>2, <2>3 DEF External
  <1>5. ASSUME NEW o \in Own, Submit(o) \/ Respond(o)
        PROVE  Somewhere(t)'
    <2>1. o \in Orders
      BY CollectorAssumption
    <2> QED
      BY <1>2, <1>3, <1>5, <2>1 DEF Submit, Accept, Respond, Created, ResponseLost, OS!OrderStatus
  <1>6. ASSUME NEW x \in Exchanges, Deliver(x)
        PROVE  Somewhere(t)'
    <2>1. CASE ReceiveOrder(x)
      <3>1. Head(feed[x]) # TradeEvent(t)
        BY <2>1 DEF ReceiveOrder, TradeEvent
      <3>2. OnFeed(t) => OnFeed(t)'
        BY <2>1, <3>1, ReceiveCarries DEF ReceiveOrder
      <3> QED
        BY <1>1, <2>1, <3>2 DEF ReceiveOrder
    <2>2. CASE RemoveFilledOrder(x)
      BY <1>2, <2>2 DEF RemoveFilledOrder
    <2>3. CASE ReceiveTrade(x)
      <3>1. x \in Threads /\ cur[x] = {}
        BY <2>3 DEF ReceiveTrade, Receive, Threads, ControlInv, CurOK, Holding
      <3>2. cur'[x] = {Head(feed[x]).trade} /\ \A p \in Threads : cur[p] \subseteq cur'[p]
        BY <2>3, <3>1 DEF ReceiveTrade, TypeOK
      <3>3. CASE Head(feed[x]) = TradeEvent(t)
        BY <3>1, <3>2, <3>3 DEF Somewhere, TradeEvent
      <3>4. CASE Head(feed[x]) # TradeEvent(t)
        BY <1>1, <2>3, <3>2, <3>4, ReceiveCarries DEF ReceiveTrade
      <3> QED
        BY <3>3, <3>4
    <2>4. CASE QueueTrade(x)
      <3>1. Receive(x) /\ tradeC \in Seq(Trades) /\ Head(feed[x]).trade \in Trades
        BY <2>4, ReceiveType, EventFields DEF QueueTrade, TypeOK
      <3>2. tradeC' = Append(tradeC, Head(feed[x]).trade)
        BY <2>4 DEF QueueTrade, Enqueue
      <3>3. CASE Head(feed[x]) = TradeEvent(t)
        BY <3>1, <3>2, <3>3, AppendCarries DEF Somewhere, Queued, TradeEvent
      <3>4. CASE Head(feed[x]) # TradeEvent(t)
        <4>1. OnFeed(t) => OnFeed(t)'
          BY <3>1, <3>4, ReceiveCarries
        <4>2. Queued(t) => Queued(t)'
          BY <3>1, <3>2, AppendCarries DEF Queued
        <4> QED
          BY <2>4, <4>1, <4>2 DEF Somewhere, QueueTrade, Key
      <3> QED
        BY <3>3, <3>4
    <2> QED
      BY <1>6, <2>1, <2>2, <2>3, <2>4 DEF Deliver
  <1>7. ASSUME NEW p \in Runners, Tick(p) \/ Dequeue(p)
        PROVE  Somewhere(t)'
    <2>1. CASE Tick(p)
      BY <1>2, <2>1 DEF Tick
    <2>2. CASE Dequeue(p)
      <3>1. p \in Threads /\ cur[p] = {}
        BY <2>2 DEF Dequeue, Threads, ControlInv, CurOK, Holding
      <3>2. cur'[p] = {Head(tradeC)} /\ \A q \in Threads \ {p} : cur'[q] = cur[q]
        BY <2>2, <3>1 DEF Dequeue, TypeOK
      <3>3. tradeC' = Tail(tradeC) /\ tradeC \in Seq(Trades)
        BY <2>2 DEF Dequeue, TypeOK
      <3>4. Queued(t) => Queued(t)' \/ t \in cur'[p]
        BY <3>2, <3>3, TailCarries DEF Queued
      <3>5. \A q \in Threads : cur[q] \subseteq cur'[q]
        BY <3>1, <3>2
      <3>6. UNCHANGED <<feed, tradeStore, doneTrades>>
        BY <2>2 DEF Dequeue
      <3> QED
        BY <3>1, <3>4, <3>5, <3>6 DEF Somewhere, OnFeed, Key
    <2> QED
      BY <1>7, <2>1, <2>2
  <1>8. ASSUME NEW p \in Recoverers, Scan(p) \/ \E x \in Exchanges : TickScan(p, x)
        PROVE  Somewhere(t)'
    <2>1. CASE RecoverTrade(p)
      <3>1. p \in Threads /\ cur[p] = {}
        BY <2>1 DEF RecoverTrade, Threads, ControlInv, CurOK, Holding
      <3>2. \A q \in Threads : cur[q] \subseteq cur'[q]
        BY <2>1, <3>1 DEF RecoverTrade, TypeOK
      <3> QED
        BY <1>1, <2>1, <3>2 DEF RecoverTrade, OnFeed
    <2>2. CASE RecoverEnd(p) \/ \E x \in Exchanges : TickScan(p, x)
      BY <1>2, <2>2 DEF RecoverEnd, TickScan, Recover, RecoverFails
    <2> QED
      BY <1>8, <2>1, <2>2 DEF Scan
  (* A goroutine gives up a trade it has stored, or found done, or marks done. *)
  <1>9. ASSUME NEW p \in Threads, NEW u \in Trades, cur[p] = {u}, u \in tradeStore' \/ Key(u) \in doneTrades',
               doneTrades \subseteq doneTrades', tradeStore \subseteq tradeStore', UNCHANGED <<feed, tradeC>>,
               \A q \in Threads \ {p} : cur'[q] = cur[q]
        PROVE  Somewhere(t)'
    BY <1>9 DEF Somewhere, OnFeed, Queued, Key
  <1>10. ASSUME NEW p \in Threads, Store(p) \/ StoreAgain(p)
         PROVE  Somewhere(t)'
    <2>1. PICK u \in Trades : cur[p] = {u}
      BY <1>10 DEF Store, StoreAgain, ControlInv, CurOK, Holding
    <2>2. tradeStore' = tradeStore \cup {u}
      BY <1>10, <2>1, PutAdds DEF Store, StoreAgain, TypeOK
    <2>3. UNCHANGED <<feed, tradeC, doneTrades>> /\ \A q \in Threads \ {p} : cur'[q] = cur[q]
      BY <1>10 DEF Store, StoreAgain, Refused, TypeOK
    <2> QED
      BY <1>9, <2>1, <2>2, <2>3
  <1>11. ASSUME NEW p \in Threads, Lock(p)
         PROVE  Somewhere(t)'
    <2>1. CASE CheckDone(p)
      <3>1. PICK u \in Trades : cur[p] = {u} /\ Key(u) \in doneTrades
        BY <2>1 DEF CheckDone, NotDone, TypeOK, ControlInv, CurOK, Holding
      <3>2. /\ UNCHANGED <<feed, tradeC, doneTrades, tradeStore>>
            /\ \A q \in Threads \ {p} : cur'[q] = cur[q]
        BY <2>1 DEF CheckDone, Refused, TypeOK
      <3> QED
        BY <1>9, <3>1, <3>2
    <2>2. CASE CheckKnown(p)
      <3>1. PICK u \in cur[p] : MarkDone(u)
        BY <2>2 DEF CheckKnown
      <3>2. u \in Trades /\ cur[p] = {u}
        BY <2>2, <3>1 DEF CheckKnown, TypeOK, ControlInv, CurOK, Holding
      <3>3. UNCHANGED <<feed, tradeC, tradeStore>> /\ \A q \in Threads \ {p} : cur'[q] = cur[q]
        BY <2>2 DEF CheckKnown, TypeOK
      <3> QED
        BY <1>9, <3>1, <3>2, <3>3 DEF MarkDone
    <2>3. CASE CheckUnknown(p) \/ FilterBegin(p)
      BY <1>2, <2>3 DEF CheckUnknown, FilterBegin
    <2> QED
      BY <1>11, <2>1, <2>2, <2>3 DEF Lock
  <1>12. ASSUME NEW p \in Threads, Work(p)
         PROVE  Somewhere(t)'
    <2>1. CASE VisitDone(p) \/ VisitKnown(p)
      <3>1. PICK u \in visit : /\ tradeStore' = tradeStore \ {u}
                               /\ doneTrades \subseteq doneTrades'
                               /\ Key(u) \in doneTrades'
        BY <2>1 DEF VisitDone, VisitKnown, NotDone, MarkDone
      <3>2. UNCHANGED <<feed, tradeC, cur>>
        BY <2>1 DEF VisitDone, VisitKnown
      <3> QED
        BY <3>1, <3>2 DEF Somewhere, OnFeed, Queued, Key
    <2>2. CASE VisitUnknown(p) \/ FilterEnd(p) \/ AddTrade(p) \/ EmitPositionUpdate(p)
      BY <1>2, <2>2 DEF VisitUnknown, FilterEnd, AddTrade, EmitPositionUpdate
    <2> QED
      BY <1>10, <1>12, <2>1, <2>2 DEF Work
  <1>13. CASE UNCHANGED vars
    BY <1>2, <1>13 DEF vars
  <1> QED
    BY <1>4, <1>5, <1>6, <1>7, <1>8, <1>10, <1>11, <1>12, <1>13 DEF Next, Threads

(* What is executed is reported in the same step, and a broken connection is
   counted for good. *)
LEMMA NextExecuted ==
    ASSUME TypeOK, [Next]_vars
    PROVE  /\ drops' = 0 => drops = 0
           /\ \A t \in Trades : t \in executed' => t \in executed \/ OnFeed(t)'
  <1> USE DEF exchangeVars, collectorVars, positionVars, threadVars
  <1>1. CASE UNCHANGED <<executed, drops>>
    BY <1>1
  <1>2. CASE External
    <2>1. ASSUME NEW o \in Orders, ForeignOrder(o) \/ Cancel(o)
          PROVE  UNCHANGED <<executed, drops>>
      BY <2>1 DEF ForeignOrder, Accept, Cancel
    <2>2. ASSUME NEW u \in Trades, Execute(u)
          PROVE  executed' = executed \cup {u} /\ drops' = drops /\ OnFeed(u)'
      <3> DEFINE status == IF TradesOf(u.order) \subseteq executed \cup {u}
                           THEN "Filled" ELSE "PartiallyFilled"
                 events == IF TradeFirst THEN <<TradeEvent(u), OrderEvent(u.order, status, TRUE)>>
                           ELSE <<OrderEvent(u.order, status, TRUE), TradeEvent(u)>>
      <3>1. u.order \in Orders
        BY CollectorAssumption
      <3>2. events \in Seq(Events)
        BY <3>1, TradeEventType, OrderEventType, ShortSeq DEF OS!OrderStatus
      <3>3. \E i \in DOMAIN events : events[i] = TradeEvent(u)
        <4>1. CASE TradeFirst
          <5>1. events[1] = TradeEvent(u) /\ 1 \in DOMAIN events
            BY <4>1
          <5> QED
            BY <5>1
        <4>2. CASE ~TradeFirst
          <5>1. events[2] = TradeEvent(u) /\ 2 \in DOMAIN events
            BY <4>2
          <5> QED
            BY <5>1
        <4> QED
          BY <4>1, <4>2
      <3>4. Report(u.order, events) /\ executed' = executed \cup {u} /\ drops' = drops
        BY <2>2 DEF Execute
      <3> HIDE DEF events
      <3> QED
        BY <3>1, <3>2, <3>3, <3>4, ReportCarries
    <2>3. ASSUME NEW x \in Exchanges, Disconnect(x)
          PROVE  executed' = executed /\ drops' # 0
      BY <2>3 DEF Disconnect, TypeOK
    <2> QED
      BY <1>2, <2>1, <2>2, <2>3 DEF External
  <1>3. ASSUME NEW o \in Own, Submit(o) \/ Respond(o)
        PROVE  UNCHANGED <<executed, drops>>
    BY <1>3 DEF Submit, Accept, Respond, Created, ResponseLost
  <1>4. ASSUME NEW x \in Exchanges, Deliver(x)
        PROVE  UNCHANGED <<executed, drops>>
    BY <1>4 DEF Deliver, ReceiveOrder, RemoveFilledOrder, ReceiveTrade, QueueTrade, Receive
  <1>5. ASSUME NEW p \in Runners, Tick(p) \/ Dequeue(p)
        PROVE  UNCHANGED <<executed, drops>>
    BY <1>5 DEF Tick, Dequeue
  <1>6. ASSUME NEW p \in Recoverers, Scan(p) \/ StoreAgain(p) \/ \E x \in Exchanges : TickScan(p, x)
        PROVE  UNCHANGED <<executed, drops>>
    BY <1>6 DEF Scan, RecoverTrade, RecoverEnd, StoreAgain, TickScan, Recover, RecoverFails
  <1>7. ASSUME NEW p \in Threads, Lock(p)
        PROVE  UNCHANGED <<executed, drops>>
    BY <1>7 DEF Lock, CheckDone, CheckUnknown, CheckKnown, FilterBegin
  <1>8. ASSUME NEW p \in Threads, Work(p)
        PROVE  UNCHANGED <<executed, drops>>
    BY <1>8 DEF Work, Store, VisitDone, VisitKnown, VisitUnknown, FilterEnd, AddTrade, EmitPositionUpdate
  <1>9. CASE UNCHANGED vars
    BY <1>1, <1>9 DEF vars
  <1> QED
    BY <1>1, <1>2, <1>3, <1>4, <1>5, <1>6, <1>7, <1>8, <1>9 DEF Next

THEOREM ControlInvariant == Spec => []ControlInv
  <1>1. Init => ControlInv
    BY DEF Init, ControlInv, CurOK, MutexOK, WorkOK, Holding
  <1> QED
    BY <1>1, NextControl, TypeCorrect, PTL DEF Spec

(* An executed trade is on its way to the position until it is marked done: no
   goroutine that passes it on, stores it, filters it or takes it from the queue
   drops it (processTrade, Process, RecoverTrade, QueueTrade). *)
THEOREM NoTradeLostInvariant == DistinctIDs => (Spec => []NoTradeLost)
  <1> SUFFICES ASSUME DistinctIDs
               PROVE  Spec => []NoTradeLost
    OBVIOUS
  <1>1. Init => NoTradeLost
    BY DEF Init, NoTradeLost
  <1>2. TypeOK /\ TypeOK' /\ ControlInv /\ NoTradeLost /\ [Next]_vars => NoTradeLost'
    <2> SUFFICES ASSUME TypeOK, TypeOK', ControlInv, NoTradeLost, [Next]_vars, drops' = 0,
                        NEW t \in executed'
                 PROVE  Somewhere(t)'
      BY DEF NoTradeLost, Somewhere
    <2>1. t \in Trades /\ drops = 0 /\ (t \in executed \/ OnFeed(t)')
      BY NextExecuted DEF TypeOK
    <2>2. CASE t \in executed
      <3>1. Somewhere(t)
        BY <2>1, <2>2 DEF NoTradeLost, Somewhere
      <3> QED
        BY <2>1, <3>1, NextSomewhere
    <2>3. CASE OnFeed(t)'
      BY <2>3 DEF Somewhere
    <2> QED
      BY <2>1, <2>2, <2>3
  <1> QED
    BY <1>1, <1>2, TypeCorrect, ControlInvariant, PTL DEF Spec

-----------------------------------------------------------------------------
(* A trade marked done is applied once, or in the hands of who is to apply it. *)
AbsorbedOK ==
    \A t \in Trades :
        /\ applied[t] <= 1
        /\ Key(t) \in doneTrades => applied[t] = 1 \/ \E p \in Threads : t \in work[p]

LEMMA NextAbsorbed == TypeOK /\ ControlInv /\ BookedOnce /\ AbsorbedOK /\ [Next]_vars => AbsorbedOK'
  <1> SUFFICES ASSUME TypeOK, ControlInv, MarkedBeforeApplied, AbsorbedOK, [Next]_vars
               PROVE  AbsorbedOK'
    BY DEF BookedOnce
  <1> USE DEF exchangeVars, collectorVars, positionVars, threadVars
  <1>1. CASE UNCHANGED <<work, doneTrades, applied>>
    BY <1>1 DEF AbsorbedOK, Key
  (* A goroutine takes a trade and marks it. *)
  <1>2. ASSUME NEW p \in Threads, NEW u \in Trades, MarkDone(u), applied' = applied,
               u \in work'[p], \A q \in Threads : work[q] \subseteq work'[q]
        PROVE  AbsorbedOK'
    <2>1. \A t \in Trades : Key(t) \in doneTrades' => Key(t) \in doneTrades \/ t = u
      BY <1>2, CollectorAssumption DEF MarkDone
    <2> QED
      BY <1>2, <2>1 DEF AbsorbedOK, Key
  <1>3. ASSUME NEW p \in Threads, Lock(p)
        PROVE  AbsorbedOK'
    <2>1. CASE CheckKnown(p)
      <3>1. PICK u \in cur[p] : MarkDone(u) /\ work' = [work EXCEPT ![p] = {u}] /\ applied' = applied
        BY <2>1 DEF CheckKnown
      <3>2. u \in Trades /\ work[p] = {}
        BY <2>1, <3>1 DEF CheckKnown, TypeOK, ControlInv, WorkOK
      <3> QED
        BY <1>2, <3>1, <3>2 DEF TypeOK
    <2>2. CASE CheckDone(p) \/ CheckUnknown(p) \/ FilterBegin(p)
      BY <1>1, <2>2 DEF CheckDone, CheckUnknown, FilterBegin
    <2> QED
      BY <1>3, <2>1, <2>2 DEF Lock
  <1>4. ASSUME NEW p \in Threads, Work(p)
        PROVE  AbsorbedOK'
    <2>1. CASE VisitKnown(p)
      <3>1. PICK u \in visit : MarkDone(u) /\ work' = [work EXCEPT ![p] = @ \cup {u}] /\ applied' = applied
        BY <2>1 DEF VisitKnown
      <3> QED
        BY <1>2, <3>1 DEF TypeOK
    <2>2. CASE AddTrade(p)
      <3>1. PICK u \in work[p] : /\ work' = [work EXCEPT ![p] = @ \ {u}]
                                 /\ applied' = [applied EXCEPT ![u] = @ + 1]
                                 /\ doneTrades' = doneTrades
        BY <2>2 DEF AddTrade
      <3>2. u \in Trades /\ applied[u] = 0
        BY <3>1 DEF MarkedBeforeApplied, TypeOK
      <3>3. applied'[u] = 1 /\ \A t \in Trades \ {u} : applied'[t] = applied[t]
        BY <3>1, <3>2 DEF TypeOK
      <3>4. \A q \in Threads : \A t \in work[q] : t # u => t \in work'[q]
        BY <3>1 DEF TypeOK
      <3>5. ASSUME NEW t \in Trades \ {u}
            PROVE  /\ applied'[t] <= 1
                   /\ Key(t) \in doneTrades' => applied'[t] = 1 \/ \E q \in Threads : t \in work'[q]
        BY <3>1, <3>3, <3>4 DEF AbsorbedOK
      <3> QED
        BY <3>3, <3>5 DEF AbsorbedOK
    <2>3. CASE Store(p) \/ VisitDone(p) \/ VisitUnknown(p) \/ FilterEnd(p) \/ EmitPositionUpdate(p)
      BY <1>1, <2>3 DEF Store, VisitDone, VisitUnknown, FilterEnd, EmitPositionUpdate
    <2> QED
      BY <1>4, <2>1, <2>2, <2>3 DEF Work
  <1>5. CASE External
    BY <1>1, <1>5 DEF External, ForeignOrder, Cancel, Execute, Disconnect
  <1>6. ASSUME NEW o \in Own, Submit(o) \/ Respond(o)
        PROVE  AbsorbedOK'
    BY <1>1, <1>6 DEF Submit, Respond, Created, ResponseLost
  <1>7. ASSUME NEW x \in Exchanges, Deliver(x)
        PROVE  AbsorbedOK'
    BY <1>1, <1>7 DEF Deliver, ReceiveOrder, RemoveFilledOrder, ReceiveTrade, QueueTrade
  <1>8. ASSUME NEW p \in Runners, Tick(p) \/ Dequeue(p)
        PROVE  AbsorbedOK'
    BY <1>1, <1>8 DEF Tick, Dequeue
  <1>9. ASSUME NEW p \in Recoverers, Scan(p) \/ StoreAgain(p) \/ \E x \in Exchanges : TickScan(p, x)
        PROVE  AbsorbedOK'
    BY <1>1, <1>9 DEF Scan, RecoverTrade, RecoverEnd, StoreAgain, TickScan, Recover, RecoverFails
  <1>10. CASE UNCHANGED vars
    BY <1>1, <1>10 DEF vars
  <1> QED
    BY <1>3, <1>4, <1>5, <1>6, <1>7, <1>8, <1>9, <1>10 DEF Next

-----------------------------------------------------------------------------
(* A goroutine that stores its trade again found it done, or has stored it. *)
ReaddOK ==
    \A p \in Threads : pc[p] = "readd" => \A t \in cur[p] : Key(t) \in doneTrades \/ t \in tradeStore

(* Waiting in the trade store, or about to. *)
Waiting(t) == t \in tradeStore \/ \E p \in Threads : pc[p] = "store" /\ t \in cur[p]

(* A goroutine is going to look at the trade store, or has still to look at t. *)
Coming(t) == \E p \in Threads : pc[p] = "process" \/ (pc[p] = "filter" /\ t \in visit)

(* When the order of a waiting trade is known, somebody is coming for it: who
   adds an order to the store calls Process after it. *)
ComingOK == \A t \in Trades : Waiting(t) /\ NotDone(t) /\ t.order \in orderStore => Coming(t)

LEMMA NextReadd == TypeOK /\ ControlInv /\ DistinctIDs /\ ReaddOK /\ [Next]_vars => ReaddOK'
  <1> SUFFICES ASSUME TypeOK, ControlInv, DistinctIDs, ReaddOK, [Next]_vars
               PROVE  ReaddOK'
    OBVIOUS
  <1> USE DEF exchangeVars, collectorVars, positionVars, threadVars
  (* No goroutine comes to "readd", and the store gives up done trades only. *)
  <1>1. ASSUME \A p \in Threads : pc'[p] = "readd" => pc[p] = "readd" /\ cur'[p] = cur[p],
               doneTrades \subseteq doneTrades',
               \A t \in tradeStore : t \in tradeStore' \/ Key(t) \in doneTrades'
        PROVE  ReaddOK'
    BY <1>1 DEF ReaddOK, Key
  <1>2. CASE UNCHANGED <<pc, cur, doneTrades, tradeStore>>
    BY <1>1, <1>2
  <1>3. CASE External
    BY <1>2, <1>3 DEF External, ForeignOrder, Cancel, Execute, Disconnect
  <1>4. ASSUME NEW o \in Own, Submit(o) \/ Respond(o)
        PROVE  ReaddOK'
    <2>1. UNCHANGED <<cur, doneTrades, tradeStore>>
      BY <1>4 DEF Submit, Respond, Created, ResponseLost
    <2>2. \A p \in Threads : pc'[p] = "readd" => pc[p] = "readd"
      BY <1>4 DEF Submit, Respond, Created, ResponseLost, Goto, TypeOK, Threads
    <2> QED
      BY <1>1, <2>1, <2>2
  <1>5. ASSUME NEW x \in Exchanges, Deliver(x)
        PROVE  ReaddOK'
    <2>1. UNCHANGED <<doneTrades, tradeStore>>
      BY <1>5 DEF Deliver, ReceiveOrder, RemoveFilledOrder, ReceiveTrade, QueueTrade
    <2>2. \A p \in Threads : pc'[p] = "readd" => pc[p] = "readd" /\ cur'[p] = cur[p]
      <3>1. x \in Threads
        BY DEF Threads
      <3>2. CASE ReceiveOrder(x) \/ RemoveFilledOrder(x) \/ QueueTrade(x)
        BY <3>1, <3>2 DEF ReceiveOrder, RemoveFilledOrder, QueueTrade, Goto, TypeOK
      <3>3. CASE ReceiveTrade(x)
        BY <3>1, <3>3 DEF ReceiveTrade, Goto, TypeOK
      <3> QED
        BY <1>5, <3>2, <3>3 DEF Deliver
    <2> QED
      BY <1>1, <2>1, <2>2
  <1>6. ASSUME NEW p \in Runners, Tick(p) \/ Dequeue(p)
        PROVE  ReaddOK'
    <2>1. p \in Threads /\ UNCHANGED <<doneTrades, tradeStore>>
      BY <1>6 DEF Threads, Tick, Dequeue
    <2>2. \A q \in Threads : pc'[q] = "readd" => pc[q] = "readd" /\ cur'[q] = cur[q]
      BY <1>6, <2>1 DEF Tick, Dequeue, Goto, TypeOK
    <2> QED
      BY <1>1, <2>1, <2>2
  <1>7. ASSUME NEW p \in Recoverers, Scan(p) \/ \E x \in Exchanges : TickScan(p, x)
        PROVE  ReaddOK'
    <2>1. p \in Threads /\ UNCHANGED <<doneTrades, tradeStore>>
      BY <1>7 DEF Threads, Scan, RecoverTrade, RecoverEnd, TickScan, Recover, RecoverFails
    <2>2. \A q \in Threads : pc'[q] = "readd" => pc[q] = "readd" /\ cur'[q] = cur[q]
      BY <1>7, <2>1 DEF Scan, RecoverTrade, RecoverEnd, TickScan, Recover, RecoverFails, Goto, TypeOK
    <2> QED
      BY <1>1, <2>1, <2>2
  <1>8. ASSUME NEW p \in Recoverers, StoreAgain(p)
        PROVE  ReaddOK'
    <2>1. p \in Threads
      BY DEF Threads
    <2>2. PICK u \in Trades : cur[p] = {u}
      BY <1>8, <2>1 DEF StoreAgain, ControlInv, CurOK, Holding
    <2>3. tradeStore' = tradeStore \cup {u} /\ UNCHANGED doneTrades
      BY <1>8, <2>2, PutAdds DEF StoreAgain, TypeOK
    <2>4. \A q \in Threads : pc'[q] = "readd" => pc[q] = "readd" /\ cur'[q] = cur[q]
      BY <1>8, <2>1 DEF StoreAgain, Goto, TypeOK
    <2> QED
      BY <1>1, <2>3, <2>4
  <1>9. ASSUME NEW p \in Threads, Lock(p)
        PROVE  ReaddOK'
    <2>1. CASE CheckDone(p)
      <3>1. PICK u \in Trades : cur[p] = {u} /\ Key(u) \in doneTrades
        BY <2>1 DEF CheckDone, NotDone, TypeOK, ControlInv, CurOK, Holding
      <3>2. UNCHANGED <<doneTrades, tradeStore>> /\ cur'[p] \subseteq cur[p]
        BY <2>1 DEF CheckDone, Refused, TypeOK
      <3>3. \A q \in Threads \ {p} : pc'[q] = pc[q] /\ cur'[q] = cur[q]
        BY <2>1 DEF CheckDone, Refused, Goto, TypeOK
      <3> QED
        BY <3>1, <3>2, <3>3 DEF ReaddOK, Key
    <2>2. CASE CheckKnown(p)
      <3>1. PICK u \in cur[p] : MarkDone(u)
        BY <2>2 DEF CheckKnown
      <3>2. tradeStore' = tradeStore /\ doneTrades \subseteq doneTrades'
        BY <2>2, <3>1 DEF CheckKnown, MarkDone
      <3>3. \A q \in Threads : pc'[q] = "readd" => pc[q] = "readd" /\ cur'[q] = cur[q]
        BY <2>2 DEF CheckKnown, Goto, TypeOK
      <3> QED
        BY <1>1, <3>2, <3>3
    <2>3. CASE CheckUnknown(p) \/ FilterBegin(p)
      <3>1. UNCHANGED <<cur, doneTrades, tradeStore>>
        BY <2>3 DEF CheckUnknown, FilterBegin
      <3>2. \A q \in Threads : pc'[q] = "readd" => pc[q] = "readd"
        BY <2>3 DEF CheckUnknown, FilterBegin, Goto, TypeOK
      <3> QED
        BY <1>1, <3>1, <3>2
    <2> QED
      BY <1>9, <2>1, <2>2, <2>3 DEF Lock
  <1>10. ASSUME NEW p \in Threads, Work(p)
         PROVE  ReaddOK'
    <2>1. CASE Store(p)
      <3>1. PICK u \in Trades : cur[p] = {u}
        BY <2>1 DEF Store, ControlInv, CurOK, Holding
      <3>2. tradeStore' = tradeStore \cup {u} /\ UNCHANGED doneTrades
        BY <2>1, <3>1, PutAdds DEF Store, TypeOK
      <3>3. \A q \in Threads \ {p} : pc'[q] = pc[q] /\ cur'[q] = cur[q]
        BY <2>1 DEF Store, Refused, Goto, TypeOK
      <3>4. cur'[p] \subseteq {u}
        BY <2>1, <3>1 DEF Store, Refused, TypeOK
      <3> QED
        BY <3>2, <3>3, <3>4 DEF ReaddOK, Key
    <2>2. CASE VisitDone(p) \/ VisitKnown(p)
      <3>1. PICK u \in visit : /\ tradeStore' = tradeStore \ {u}
                               /\ doneTrades \subseteq doneTrades'
                               /\ Key(u) \in doneTrades'
        BY <2>2 DEF VisitDone, VisitKnown, NotDone, MarkDone
      <3>2. UNCHANGED <<pc, cur>>
        BY <2>2 DEF VisitDone, VisitKnown
      <3> QED
        BY <1>1, <3>1, <3>2
    <2>3. CASE VisitUnknown(p) \/ FilterEnd(p) \/ AddTrade(p) \/ EmitPositionUpdate(p)
      <3>1. UNCHANGED <<cur, doneTrades, tradeStore>>
        BY <2>3 DEF VisitUnknown, FilterEnd, AddTrade, EmitPositionUpdate
      <3>2. \A q \in Threads : pc'[q] = "readd" => pc[q] = "readd"
        BY <2>3 DEF VisitUnknown, FilterEnd, AddTrade, EmitPositionUpdate, ThenEmit, Goto, Resume, TypeOK
      <3> QED
        BY <1>1, <3>1, <3>2
    <2> QED
      BY <1>10, <2>1, <2>2, <2>3 DEF Work
  <1>11. CASE UNCHANGED vars
    BY <1>2, <1>11 DEF vars
  <1> QED
    BY <1>3, <1>4, <1>5, <1>6, <1>7, <1>8, <1>9, <1>10, <1>11 DEF Next

(* What keeps ComingOK: a trade that is new in the store is done or of an unknown
   order, and so is one nobody is coming for any more. *)
LEMMA StillComing ==
    ASSUME ComingOK, doneTrades \subseteq doneTrades', orderStore' \subseteq orderStore,
           \A t \in Trades : Waiting(t)' => Waiting(t) \/ ~NotDone(t)' \/ t.order \notin orderStore',
           \A t \in Trades : Coming(t) => Coming(t)' \/ ~NotDone(t)' \/ t.order \notin orderStore'
    PROVE  ComingOK'
  <1> SUFFICES ASSUME NEW t \in Trades, Waiting(t)', NotDone(t)', t.order \in orderStore'
               PROVE  Coming(t)'
    BY DEF ComingOK
  <1>1. Waiting(t) /\ t.order \in orderStore
    OBVIOUS
  <1>2. NotDone(t)
    BY DEF NotDone
  <1> QED
    BY <1>1, <1>2 DEF ComingOK

(* A goroutine that is elsewhere moves, and not to store a trade. *)
LEMMA MovesElsewhere ==
    ASSUME TypeOK, ComingOK, NEW p \in Threads, NEW l \in Control \ {"store"}, Goto(p, l),
           pc[p] \notin {"process", "filter"}, \A q \in Threads \ {p} : cur'[q] = cur[q],
           UNCHANGED <<tradeStore, visit>>, doneTrades \subseteq doneTrades', orderStore' \subseteq orderStore
    PROVE  ComingOK'
  <1>1. pc'[p] = l /\ \A q \in Threads \ {p} : pc'[q] = pc[q]
    BY DEF Goto, TypeOK
  <1>2. \A t \in Trades : Waiting(t)' => Waiting(t)
    BY <1>1 DEF Waiting
  <1>3. \A t \in Trades : Coming(t) => Coming(t)'
    BY <1>1 DEF Coming
  <1> QED
    BY <1>2, <1>3, StillComing

LEMMA NextComing ==
    ASSUME TypeOK, ControlInv, DistinctIDs, ReaddOK, ComingOK, AddOrderUpdate = FALSE, [Next]_vars
    PROVE  ComingOK'
  <1> USE DEF exchangeVars, collectorVars, positionVars, threadVars
  <1>1. CASE UNCHANGED <<pc, cur, tradeStore, visit, doneTrades>> /\ orderStore' \subseteq orderStore
    <2>1. \A t \in Trades : (Waiting(t)' => Waiting(t)) /\ (Coming(t) => Coming(t)')
      BY <1>1 DEF Waiting, Coming
    <2> QED
      BY <1>1, <2>1, StillComing
  <1>2. CASE External
    BY <1>1, <1>2 DEF External, ForeignOrder, Cancel, Execute, Disconnect
  <1>3. ASSUME NEW o \in Own, Submit(o) \/ Respond(o)
        PROVE  ComingOK'
    <2>1. o \in Threads
      BY DEF Threads
    <2>2. CASE Submit(o)
      BY <2>1, <2>2, MovesElsewhere DEF Submit, Control
    <2>3. CASE Created(o) \/ ResponseLost(o)
      <3>1. pc'[o] = "process"
        BY <2>1, <2>3 DEF Created, ResponseLost, Goto, TypeOK
      <3> QED
        BY <2>1, <3>1 DEF ComingOK, Coming
    <2> QED
      BY <1>3, <2>2, <2>3 DEF Respond
  <1>4. ASSUME NEW x \in Exchanges, Deliver(x)
        PROVE  ComingOK'
    <2>1. x \in Threads
      BY DEF Threads
    <2>2. CASE ReceiveOrder(x)
      <3>1. orderStore' \subseteq orderStore
        BY <2>2 DEF ReceiveOrder, OS!HandleOrderUpdate, OS!Tracked, OS!Exists, OS!Add, OS!Remove
      <3>2. UNCHANGED <<cur, tradeStore, visit, doneTrades>> /\ pc[x] = "idle"
        BY <2>2 DEF ReceiveOrder, Receive
      <3>3. UNCHANGED pc \/ Goto(x, "removeFilled")
        BY <2>2 DEF ReceiveOrder
      <3> QED
        BY <1>1, <2>1, <3>1, <3>2, <3>3, MovesElsewhere DEF Control
    <2>3. CASE RemoveFilledOrder(x)
      BY <2>1, <2>3, MovesElsewhere DEF RemoveFilledOrder, OS!Remove, Control
    <2>4. CASE ReceiveTrade(x)
      <3>1. \A q \in Threads \ {x} : cur'[q] = cur[q]
        BY <2>4 DEF ReceiveTrade, TypeOK
      <3> QED
        BY <2>1, <2>4, <3>1, MovesElsewhere DEF ReceiveTrade, Receive, Control
    <2>5. CASE QueueTrade(x)
      BY <1>1, <2>5 DEF QueueTrade
    <2> QED
      BY <1>4, <2>2, <2>3, <2>4, <2>5 DEF Deliver
  <1>5. ASSUME NEW p \in Runners, Tick(p) \/ Dequeue(p)
        PROVE  ComingOK'
    <2>1. p \in Threads /\ \A q \in Threads \ {p} : cur'[q] = cur[q]
      BY <1>5 DEF Threads, Tick, Dequeue, TypeOK
    <2> QED
      BY <1>5, <2>1, MovesElsewhere DEF Tick, Dequeue, Control
  <1>6. ASSUME NEW p \in Recoverers, Scan(p) \/ \E x \in Exchanges : TickScan(p, x)
        PROVE  ComingOK'
    <2>1. p \in Threads /\ \A q \in Threads \ {p} : cur'[q] = cur[q]
      BY <1>6 DEF Threads, Scan, RecoverTrade, RecoverEnd, TickScan, Recover, RecoverFails, TypeOK
    <2> QED
      <3>1. CASE \E x \in Exchanges : RecoverFails(p, x)
        BY <1>1, <3>1 DEF RecoverFails
      <3>2. CASE Scan(p) \/ \E x \in Exchanges : Recover(p, x)
        BY <2>1, <3>2, MovesElsewhere DEF Scan, RecoverTrade, RecoverEnd, Recover, Control
      <3> QED
        BY <1>6, <3>1, <3>2 DEF TickScan
  <1>7. ASSUME NEW p \in Recoverers, StoreAgain(p)
        PROVE  ComingOK'
    <2>1. p \in Threads /\ UNCHANGED <<doneTrades, orderStore, visit>>
      BY <1>7 DEF Threads, StoreAgain
    <2>2. PICK u \in Trades : cur[p] = {u}
      BY <1>7, <2>1 DEF StoreAgain, ControlInv, CurOK, Holding
    <2>3. tradeStore' = tradeStore \cup {u} /\ (Key(u) \in doneTrades \/ u \in tradeStore)
      BY <1>7, <2>1, <2>2, PutAdds DEF StoreAgain, ReaddOK, TypeOK
    <2>4. /\ pc[p] = "readd" /\ pc'[p] = "scan"
          /\ \A q \in Threads \ {p} : pc'[q] = pc[q] /\ cur'[q] = cur[q]
      BY <1>7, <2>1 DEF StoreAgain, Goto, TypeOK
    <2>5. \A t \in Trades : Waiting(t)' => Waiting(t) \/ ~NotDone(t)'
      BY <2>1, <2>3, <2>4 DEF Waiting, NotDone
    <2>6. \A t \in Trades : Coming(t) => Coming(t)'
      BY <2>1, <2>4 DEF Coming
    <2> QED
      BY <2>1, <2>5, <2>6, StillComing
  <1>8. ASSUME NEW p \in Threads, Lock(p)
        PROVE  ComingOK'
    <2>1. CASE CheckDone(p)
      <3>1. /\ pc[p] = "check" /\ UNCHANGED <<doneTrades, orderStore, visit, tradeStore>>
            /\ \A q \in Threads \ {p} : cur'[q] = cur[q]
        BY <2>1 DEF CheckDone, Refused, TypeOK
      <3>2. PICK l \in {"readd", "done", "scan", "idle"} : Goto(p, l)
        BY <2>1 DEF CheckDone, Refused, Resume
      <3> QED
        BY <3>1, <3>2, MovesElsewhere DEF Control
    <2>2. CASE CheckKnown(p)
      <3>1. /\ pc[p] = "check" /\ Goto(p, "apply") /\ UNCHANGED <<orderStore, visit, tradeStore>>
            /\ \A q \in Threads \ {p} : cur'[q] = cur[q]
            /\ doneTrades \subseteq doneTrades'
        BY <2>2 DEF CheckKnown, MarkDone, TypeOK
      <3> QED
        BY <3>1, MovesElsewhere DEF Control
    <2>3. CASE CheckUnknown(p)
      <3>1. PICK u \in Trades : cur[p] = {u} /\ u.order \notin orderStore
        BY <2>3 DEF CheckUnknown, OS!Exists, TypeOK, ControlInv, CurOK, Holding
      <3>2. /\ pc[p] = "check" /\ pc'[p] = "store" /\ UNCHANGED <<cur, doneTrades, orderStore, visit, tradeStore>>
            /\ \A q \in Threads \ {p} : pc'[q] = pc[q]
        BY <2>3 DEF CheckUnknown, Goto, TypeOK
      <3>3. \A t \in Trades : Waiting(t)' => Waiting(t) \/ t.order \notin orderStore'
        BY <3>1, <3>2 DEF Waiting
      <3>4. \A t \in Trades : Coming(t) => Coming(t)'
        BY <3>2 DEF Coming
      <3> QED
        BY <3>2, <3>3, <3>4, StillComing
    <2>4. CASE FilterBegin(p)
      <3>1. /\ mu = {} /\ visit' = tradeStore /\ tradeStore' = tradeStore
            /\ pc'[p] = "filter" /\ \A q \in Threads \ {p} : pc'[q] = pc[q]
        BY <2>4 DEF FilterBegin, Goto, TypeOK
      <3>2. \A q \in Threads : pc'[q] # "store"
        BY <3>1 DEF ControlInv, MutexOK
      <3>3. \A t \in Trades : Waiting(t)' => Coming(t)'
        BY <3>1, <3>2 DEF Waiting, Coming
      <3> QED
        BY <3>3 DEF ComingOK
    <2> QED
      BY <1>8, <2>1, <2>2, <2>3, <2>4 DEF Lock
  <1>9. ASSUME NEW p \in Threads, Work(p)
        PROVE  ComingOK'
    <2>1. CASE Store(p)
      <3>1. PICK u \in Trades : cur[p] = {u}
        BY <2>1 DEF Store, ControlInv, CurOK, Holding
      <3>2. tradeStore' = tradeStore \cup {u} /\ UNCHANGED <<doneTrades, orderStore, visit>>
        BY <2>1, <3>1, PutAdds DEF Store, TypeOK
      <3>3. /\ pc[p] = "store" /\ pc'[p] \notin {"store", "process", "filter"}
            /\ \A q \in Threads \ {p} : pc'[q] = pc[q] /\ cur'[q] = cur[q]
        BY <2>1 DEF Store, Refused, Goto, Resume, TypeOK
      <3>4. \A t \in Trades : Waiting(t)' => Waiting(t)
        BY <3>1, <3>2, <3>3 DEF Waiting
      <3>5. \A t \in Trades : Coming(t) => Coming(t)'
        BY <3>2, <3>3 DEF Coming
      <3> QED
        BY <3>2, <3>4, <3>5, StillComing
    <2>2. CASE VisitDone(p) \/ VisitKnown(p)
      <3>1. PICK u \in visit : /\ tradeStore' = tradeStore \ {u} /\ visit' = visit \ {u}
                               /\ doneTrades \subseteq doneTrades' /\ Key(u) \in doneTrades'
        BY <2>2 DEF VisitDone, VisitKnown, NotDone, MarkDone
      <3>2. UNCHANGED <<pc, cur, orderStore>>
        BY <2>2 DEF VisitDone, VisitKnown
      <3>3. \A t \in Trades : Waiting(t)' => Waiting(t)
        BY <3>1, <3>2 DEF Waiting
      <3>4. \A t \in Trades : Coming(t) => Coming(t)' \/ ~NotDone(t)'
        BY <3>1, <3>2 DEF Coming, NotDone
      <3> QED
        BY <3>1, <3>2, <3>3, <3>4, StillComing
    <2>3. CASE VisitUnknown(p)
      <3>1. PICK u \in visit : u.order \notin orderStore /\ visit' = visit \ {u}
        BY <2>3 DEF VisitUnknown, OS!Exists
      <3>2. UNCHANGED <<pc, cur, doneTrades, orderStore, tradeStore>>
        BY <2>3 DEF VisitUnknown
      <3>3. \A t \in Trades : Waiting(t)' => Waiting(t)
        BY <3>2 DEF Waiting
      <3>4. \A t \in Trades : Coming(t) => Coming(t)' \/ t.order \notin orderStore'
        BY <3>1, <3>2 DEF Coming
      <3> QED
        BY <3>2, <3>3, <3>4, StillComing
    <2>4. CASE FilterEnd(p)
      <3>1. /\ visit = {} /\ pc[p] = "filter" /\ pc'[p] # "store"
            /\ \A q \in Threads \ {p} : pc'[q] = pc[q]
            /\ UNCHANGED <<cur, doneTrades, orderStore, tradeStore, visit>>
        BY <2>4 DEF FilterEnd, Goto, Resume, TypeOK
      <3>2. \A t \in Trades : Waiting(t)' => Waiting(t)
        BY <3>1 DEF Waiting
      <3>3. \A t \in Trades : Coming(t) => Coming(t)'
        BY <3>1 DEF Coming
      <3> QED
        BY <3>1, <3>2, <3>3, StillComing
    <2>5. CASE AddTrade(p) \/ EmitPositionUpdate(p)
      <3>1. pc[p] \in {"apply", "emit"} /\ UNCHANGED <<cur, doneTrades, orderStore, tradeStore, visit>>
        BY <2>5 DEF AddTrade, EmitPositionUpdate
      <3>2. PICK l \in {"apply", "emit", "done", "scan", "idle"} : Goto(p, l)
        BY <2>5 DEF AddTrade, EmitPositionUpdate, ThenEmit, Resume
      <3> QED
        BY <3>1, <3>2, MovesElsewhere DEF Control
    <2> QED
      BY <1>9, <2>1, <2>2, <2>3, <2>4, <2>5 DEF Work
  <1>10. CASE UNCHANGED vars
    BY <1>1, <1>10 DEF vars
  <1> QED
    BY <1>2, <1>3, <1>4, <1>5, <1>6, <1>7, <1>8, <1>9, <1>10 DEF Next

-----------------------------------------------------------------------------
(* Once everything is still, the position holds every executed trade of a known
   order exactly once: adding an order to the store is always followed by a
   Process that finds the trades waiting for it (SubmitOrders, Process). *)
THEOREM NothingLeftBehindInvariant ==
    DistinctIDs /\ AddOrderUpdate = FALSE => (Spec => []NothingLeftBehind)
  <1> SUFFICES ASSUME DistinctIDs, AddOrderUpdate = FALSE
               PROVE  Spec => []NothingLeftBehind
    OBVIOUS
  <1>1. Init => AbsorbedOK /\ ReaddOK /\ ComingOK
    BY DEF Init, AbsorbedOK, ReaddOK, ComingOK, Waiting
  <1>2. TypeOK /\ ControlInv /\ BookedOnce /\ (AbsorbedOK /\ ReaddOK /\ ComingOK) /\ [Next]_vars
            => (AbsorbedOK /\ ReaddOK /\ ComingOK)'
    BY NextAbsorbed, NextReadd, NextComing
  <1>3. TypeOK /\ ControlInv /\ NoTradeLost /\ (AbsorbedOK /\ ReaddOK /\ ComingOK) => NothingLeftBehind
    <2> SUFFICES ASSUME TypeOK, ControlInv, NoTradeLost, AbsorbedOK, ComingOK,
                        Quiet, drops = 0, NEW t \in executed, t.order \in orderStore
                 PROVE  applied[t] = 1
      BY DEF NothingLeftBehind
    <2>1. t \in Trades
      BY DEF TypeOK
    <2>2. \A p \in Threads : pc[p] \in {"idle", "done"} /\ cur[p] = {} /\ work[p] = {}
      BY DEF Quiet, ControlInv, CurOK, WorkOK, Holding
    <2>3. ~OnFeed(t) /\ ~Queued(t)
      BY DEF Quiet, OnFeed, Queued
    <2>4. Key(t) \in doneTrades
      <3>1. ~Coming(t)
        BY <2>2 DEF Coming
      <3>2. t \in tradeStore => Key(t) \in doneTrades
        BY <2>1, <3>1 DEF ComingOK, Waiting, NotDone
      <3> QED
        BY <2>2, <2>3, <3>2 DEF NoTradeLost
    <2> QED
      BY <2>1, <2>2, <2>4 DEF AbsorbedOK
  <1> QED
    BY <1>1, <1>2, <1>3, TypeCorrect, ControlInvariant, BookedOnceInvariant, NoTradeLostInvariant, PTL DEF Spec


-----------------------------------------------------------------------------
(***************************************************************************)
(* NoneMissedByRemoval.  The reports of an order are in flight in one      *)
(* order: its first update, its trades, the update that closes it.  The    *)
(* order is in the store from the first to the last, so a stream bound     *)
(* directly always finds it.                                               *)
(***************************************************************************)
Open == {"New", "PartiallyFilled"}

Fills(e, o) == e.kind = "trade" /\ e.trade.order = o

Opens(e, o) == e.kind = "order" /\ e.order = o /\ e.status = "New"

Closes(e, o) == e.kind = "order" /\ e.order = o /\ e.status \notin Open

(* What may be in flight of order o, given the order store, the orders about to be
   removed from it and the status of the order at the exchange. *)
InOrder(s, o, store, shut, status) ==
    /\ \A i \in DOMAIN s : Fills(s[i], o) =>
            /\ o \in store \/ \E j \in DOMAIN s : j < i /\ Opens(s[j], o)
            /\ \A j \in DOMAIN s : j < i => ~Closes(s[j], o)
            /\ o \notin shut
    /\ status \in Open \cup {"None"} =>
            o \notin shut /\ \A j \in DOMAIN s : ~Closes(s[j], o)
    /\ status \in Open => o \in store \/ \E j \in DOMAIN s : Opens(s[j], o)

OrdersOK ==
    \A o \in Orders :
        InOrder(feed[ExchangeOf[o]], o, orderStore, closing[ExchangeOf[o]], exStatus[o])

(* Every report is on the stream of its order's exchange. *)
OrderOf(e) == IF e.kind = "trade" THEN e.trade.order ELSE e.order

PlacesOK ==
    \A x \in Exchanges :
        /\ \A i \in DOMAIN feed[x] : ExchangeOf[OrderOf(feed[x][i])] = x
        /\ \A o \in closing[x] : ExchangeOf[o] = x

(* A stream that holds a trade is about to find its order in the store, *)
HandsOK ==
    \A x \in Exchanges :
        /\ pc[x] # "store"
        /\ \A t \in cur[x] : t.ex = x /\ t.order \in orderStore

(* and an executed trade is on the stream, in the stream's hands or done. *)
HandledOK ==
    \A t \in executed :
        \/ \E i \in DOMAIN feed[t.ex] : feed[t.ex][i] = TradeEvent(t)
        \/ t \in cur[t.ex]
        \/ Key(t) \in doneTrades

UndroppedOK == drops = 0 => OrdersOK /\ HandsOK /\ HandledOK

(* A report is appended to what is in flight, and may change the order's status. *)
LEMMA AppendInOrder ==
    ASSUME NEW s \in Seq(Events), NEW e \in Events, NEW o, NEW store, NEW shut, NEW status, NEW next,
           InOrder(s, o, store, shut, status),
           Fills(e, o) => status \in Open,
           next \in Open \cup {"None"} => status \in Open \cup {"None"} /\ ~Closes(e, o),
           next \in Open => status \in Open \/ Opens(e, o)
    PROVE  InOrder(Append(s, e), o, store, shut, next)
  <1> DEFINE r == Append(s, e)
             n == Len(s) + 1
  <1>1. /\ \A i \in DOMAIN r : i \in DOMAIN s \/ i = n
        /\ \A i \in DOMAIN s : i \in DOMAIN r /\ i \in Int /\ i < n /\ r[i] = s[i]
        /\ n \in DOMAIN r /\ r[n] = e /\ n \in Int
    OBVIOUS
  <1> HIDE DEF r, n
  <1>2. ASSUME NEW i \in DOMAIN r, Fills(r[i], o)
        PROVE  /\ o \in store \/ \E j \in DOMAIN r : j < i /\ Opens(r[j], o)
               /\ \A j \in DOMAIN r : j < i => ~Closes(r[j], o)
               /\ o \notin shut
    <2>1. CASE i \in DOMAIN s
      <3>1. \A j \in DOMAIN r : j < i => j \in DOMAIN s
        BY <1>1, <2>1
      <3> QED
        BY <1>1, <1>2, <2>1, <3>1 DEF InOrder
    <2>2. CASE i = n
      <3>1. status \in Open
        BY <1>1, <1>2, <2>2
      <3>2. \A j \in DOMAIN r : j < i => j \in DOMAIN s
        BY <1>1, <2>2
      <3> QED
        BY <1>1, <2>2, <3>1, <3>2 DEF InOrder
    <2> QED
      BY <1>1, <2>1, <2>2
  <1>3. next \in Open \cup {"None"} => o \notin shut /\ \A j \in DOMAIN r : ~Closes(r[j], o)
    BY <1>1 DEF InOrder
  <1>4. next \in Open => o \in store \/ \E j \in DOMAIN r : Opens(r[j], o)
    BY <1>1 DEF InOrder
  <1> QED
    BY <1>2, <1>3, <1>4 DEF InOrder, r

(* The first report is delivered: an order it opens is in the store from now on, an
   order it closes may be taken out. *)
LEMMA TailInOrder ==
    ASSUME NEW s \in Seq(Events), s # <<>>, NEW o, NEW store, NEW shut, NEW status, NEW after, NEW closed,
           InOrder(s, o, store, shut, status),
           (o \in store \/ Opens(Head(s), o)) /\ ~Closes(Head(s), o) => o \in after,
           o \in closed => o \in shut \/ Closes(Head(s), o)
    PROVE  InOrder(Tail(s), o, after, closed, status)
  <1> DEFINE r == Tail(s)
  <1>1. /\ \A i \in DOMAIN r : i \in Int /\ i + 1 \in DOMAIN s /\ r[i] = s[i + 1] /\ 1 < i + 1
        /\ \A i \in DOMAIN s : i \in Int /\ (i = 1 \/ (i - 1 \in DOMAIN r /\ r[i - 1] = s[i]))
        /\ 1 \in DOMAIN s /\ s[1] = Head(s)
    OBVIOUS
  <1> HIDE DEF r
  <1>2. ASSUME NEW i \in DOMAIN r, Fills(r[i], o)
        PROVE  /\ o \in after \/ \E j \in DOMAIN r : j < i /\ Opens(r[j], o)
               /\ \A j \in DOMAIN r : j < i => ~Closes(r[j], o)
               /\ o \notin closed
    <2> DEFINE k == i + 1
    <2>1. k \in DOMAIN s /\ Fills(s[k], o) /\ 1 < k /\ k \in Int /\ k - 1 = i
      BY <1>1, <1>2
    <2> HIDE DEF k
    <2>2. /\ o \in store \/ \E j \in DOMAIN s : j < k /\ Opens(s[j], o)
          /\ \A j \in DOMAIN s : j < k => ~Closes(s[j], o)
          /\ o \notin shut
      BY <2>1 DEF InOrder
    <2>3. ~Closes(Head(s), o)
      BY <1>1, <2>1, <2>2
    <2>4. o \in after \/ \E j \in DOMAIN r : j < i /\ Opens(r[j], o)
      <3>1. CASE o \in store
        BY <2>3, <3>1
      <3>2. ASSUME NEW j \in DOMAIN s, j < k, Opens(s[j], o)
            PROVE  o \in after \/ \E m \in DOMAIN r : m < i /\ Opens(r[m], o)
        <4>1. CASE j = 1
          BY <1>1, <2>3, <3>2, <4>1
        <4>2. CASE j # 1
          <5>1. j - 1 \in DOMAIN r /\ r[j - 1] = s[j] /\ j - 1 < i
            BY <1>1, <2>1, <3>2, <4>2
          <5> QED
            BY <3>2, <5>1
        <4> QED
          BY <4>1, <4>2
      <3> QED
        BY <2>2, <3>1, <3>2
    <2>5. ASSUME NEW j \in DOMAIN r, j < i
          PROVE  ~Closes(r[j], o)
      <3>1. j + 1 \in DOMAIN s /\ r[j] = s[j + 1] /\ j + 1 < k
        BY <1>1, <2>1, <2>5
      <3> QED
        BY <2>2, <3>1
    <2> QED
      BY <2>2, <2>3, <2>4, <2>5
  <1>3. status \in Open \cup {"None"} => o \notin closed /\ \A j \in DOMAIN r : ~Closes(r[j], o)
    BY <1>1 DEF InOrder
  <1>4. status \in Open => o \in after \/ \E j \in DOMAIN r : Opens(r[j], o)
    <2> SUFFICES ASSUME status \in Open
                 PROVE  o \in after \/ \E j \in DOMAIN r : Opens(r[j], o)
      OBVIOUS
    <2>1. ~Closes(Head(s), o) /\ (o \in store \/ \E j \in DOMAIN s : Opens(s[j], o))
      BY <1>1 DEF InOrder
    <2>2. ASSUME NEW j \in DOMAIN s, Opens(s[j], o)
          PROVE  o \in after \/ \E m \in DOMAIN r : Opens(r[m], o)
      BY <1>1, <2>1, <2>2
    <2> QED
      BY <2>1, <2>2
  <1> QED
    BY <1>2, <1>3, <1>4 DEF InOrder, r

(* The store loses an order only while it is about to be removed. *)
LEMMA KeepInOrder ==
    ASSUME NEW s, NEW o, NEW store, NEW shut, NEW status, NEW after, NEW closed,
           InOrder(s, o, store, shut, status),
           o \in store => o \in after \/ o \in shut,
           o \in closed => o \in shut
    PROVE  InOrder(s, o, after, closed, status)
  BY DEF InOrder

(* An order is reported on the stream of its exchange; the other orders are as before. *)
LEMMA ReportInOrder ==
    ASSUME NEW f \in [Exchanges -> Seq(Events)], NEW st \in [Orders -> OS!OrderStatus \cup {"None"}],
           \A o \in Orders : InOrder(f[ExchangeOf[o]], o, orderStore, closing[ExchangeOf[o]], st[o]),
           NEW u \in Orders, NEW e \in Events, OrderOf(e) = u, NEW next \in OS!OrderStatus,
           e.kind = "trade" => st[u] \in Open /\ next = st[u],
           e.kind = "order" => /\ e.status = next
                               /\ IF next = "New" THEN st[u] = "None" ELSE st[u] \in Open
    PROVE  \A o \in Orders :
               InOrder([f EXCEPT ![ExchangeOf[u]] = Append(@, e)][ExchangeOf[o]], o, orderStore,
                       closing[ExchangeOf[o]], [st EXCEPT ![u] = next][o])
  <1> DEFINE X == ExchangeOf[u]
             g == [f EXCEPT ![X] = Append(@, e)]
             st2 == [st EXCEPT ![u] = next]
  <1>1. /\ X \in Exchanges /\ f[X] \in Seq(Events) /\ g[X] = Append(f[X], e)
        /\ \A x \in Exchanges \ {X} : g[x] = f[x]
        /\ st2[u] = next /\ \A o \in Orders \ {u} : st2[o] = st[o]
    BY CollectorAssumption
  <1> HIDE DEF g, st2
  <1> SUFFICES ASSUME NEW o \in Orders
               PROVE  InOrder(g[ExchangeOf[o]], o, orderStore, closing[ExchangeOf[o]], st2[o])
    BY DEF g, st2
  <1>2. e.kind \in {"trade", "order"} /\ ExchangeOf[o] \in Exchanges
    BY CollectorAssumption DEF Events
  <1>3. CASE ExchangeOf[o] # X
    <2>1. o # u
      BY <1>3
    <2> QED
      BY <1>1, <1>2, <1>3, <2>1
  <1>4. CASE ExchangeOf[o] = X /\ o # u
    <2>1. ~Fills(e, o) /\ ~Closes(e, o)
      BY <1>2, <1>4 DEF OrderOf, Fills, Closes
    <2>2. InOrder(f[X], o, orderStore, closing[X], st[o])
      BY <1>4
    <2>3. InOrder(Append(f[X], e), o, orderStore, closing[X], st[o])
      BY <1>1, <2>1, <2>2, AppendInOrder
    <2> QED
      BY <1>1, <1>4, <2>3
  <1>5. CASE o = u
    <2>1. InOrder(f[X], o, orderStore, closing[X], st[o])
      BY <1>5
    <2>2. /\ Fills(e, o) => st[o] \in Open
          /\ next \in Open \cup {"None"} => st[o] \in Open \cup {"None"} /\ ~Closes(e, o)
          /\ next \in Open => st[o] \in Open \/ Opens(e, o)
      <3>1. CASE e.kind = "trade"
        <4>1. ~Closes(e, o)
          BY <3>1 DEF Closes
        <4>2. st[o] \in Open /\ next = st[o]
          BY <1>5, <3>1
        <4> QED
          BY <4>1, <4>2
      <3>2. CASE e.kind = "order"
        <4>1. ~Fills(e, o) /\ e.order = o
          BY <1>5, <3>2 DEF Fills, OrderOf
        <4>2. e.status = next /\ IF next = "New" THEN st[o] = "None" ELSE st[o] \in Open
          BY <1>5, <3>2
        <4>3. next # "None"
          BY DEF OS!OrderStatus
        <4> QED
          BY <3>2, <4>1, <4>2, <4>3 DEF Closes, Opens, Open
      <3> QED
        BY <1>2, <3>1, <3>2
    <2>3. InOrder(Append(f[X], e), o, orderStore, closing[X], next)
      BY <1>1, <2>1, <2>2, AppendInOrder
    <2> QED
      BY <1>1, <1>5, <2>3
  <1> QED
    BY <1>3, <1>4, <1>5

LEMMA AppendsConcat ==
    ASSUME NEW S, NEW s \in Seq(S), NEW a \in S, NEW b \in S
    PROVE  s \o <<a>> = Append(s, a) /\ s \o <<a, b>> = Append(Append(s, a), b)
  OBVIOUS

(* One report or two are reports appended one after the other. *)
LEMMA ReportAppends ==
    ASSUME TypeOK, NEW u \in Orders, NEW a \in Events, NEW b \in Events
    PROVE  /\ Report(u, <<a>>) => feed' = [feed EXCEPT ![ExchangeOf[u]] = Append(@, a)]
           /\ Report(u, <<a, b>>) =>
                feed' = [[feed EXCEPT ![ExchangeOf[u]] = Append(@, a)]
                              EXCEPT ![ExchangeOf[u]] = Append(@, b)]
  <1> DEFINE X == ExchangeOf[u]
             s == feed[X]
  <1>1. X \in Exchanges /\ s \in Seq(Events)
    BY CollectorAssumption DEF TypeOK
  <1>2. s \o <<a>> = Append(s, a) /\ s \o <<a, b>> = Append(Append(s, a), b)
    BY <1>1, AppendsConcat
  <1> HIDE DEF s
  <1>3. Report(u, <<a>>) => feed' = [feed EXCEPT ![X] = Append(@, a)]
    BY <1>1, <1>2 DEF Report, TypeOK, s
  <1>4. Report(u, <<a, b>>) => feed' = [feed EXCEPT ![X] = Append(Append(s, a), b)]
    BY <1>1, <1>2 DEF Report, TypeOK, s
  <1>5. [feed EXCEPT ![X] = Append(Append(s, a), b)]
            = [[feed EXCEPT ![X] = Append(@, a)] EXCEPT ![X] = Append(@, b)]
    BY <1>1 DEF TypeOK, s
  <1> QED
    BY <1>3, <1>4, <1>5

(* What the exchange does to an order: it is accepted, executed or cancelled, its
   reports are appended in the order of these steps, or everything in flight is lost. *)
LEMMA ExternalInOrder ==
    ASSUME TypeOK, OrdersOK, TradeFirst, drops' = 0,
           (\E o \in Orders : Accept(o)) \/ External, UNCHANGED <<orderStore, closing>>
    PROVE  OrdersOK'
  <1> DEFINE All(f, st) == \A o \in Orders :
                 InOrder(f[ExchangeOf[o]], o, orderStore, closing[ExchangeOf[o]], st[o])
  <1>1. feed \in [Exchanges -> Seq(Events)] /\ exStatus \in [Orders -> OS!OrderStatus \cup {"None"}]
    BY DEF TypeOK
  <1>2. All(feed, exStatus)
    BY DEF OrdersOK
  <1>3. ASSUME All(feed', exStatus')
        PROVE  OrdersOK'
    BY <1>3 DEF OrdersOK, InOrder
  <1> HIDE DEF All
  <1>4. ASSUME NEW u \in Orders, Accept(u) \/ Cancel(u)
        PROVE  OrdersOK'
    <2>1. PICK e \in Events, next \in OS!OrderStatus :
              /\ OrderOf(e) = u /\ e.kind = "order" /\ e.status = next
              /\ IF next = "New" THEN exStatus[u] = "None" ELSE exStatus[u] \in Open
              /\ Report(u, <<e>>) /\ exStatus' = [exStatus EXCEPT ![u] = next]
      <3>1. CASE Accept(u)
        <4> DEFINE e == OrderEvent(u, "New", FALSE)
        <4>1. e \in Events /\ "New" \in OS!OrderStatus
          BY OrderEventType DEF OS!OrderStatus
        <4>2. OrderOf(e) = u /\ e.kind = "order" /\ e.status = "New"
          BY DEF OrderEvent, OrderOf
        <4>3. exStatus[u] = "None" /\ Report(u, <<e>>) /\ exStatus' = [exStatus EXCEPT ![u] = "New"]
          BY <3>1 DEF Accept
        <4> HIDE DEF e
        <4> QED
          BY <4>1, <4>2, <4>3
      <3>2. CASE Cancel(u)
        <4> DEFINE e == OrderEvent(u, "Canceled", Traded(u))
        <4>1. e \in Events /\ "Canceled" \in OS!OrderStatus
          <5>1. Traded(u) \in BOOLEAN
            BY DEF Traded
          <5> QED
            BY <5>1, OrderEventType DEF OS!OrderStatus
        <4>2. OrderOf(e) = u /\ e.kind = "order" /\ e.status = "Canceled"
          BY DEF OrderEvent, OrderOf
        <4>3. /\ exStatus[u] \in Open /\ Report(u, <<e>>)
              /\ exStatus' = [exStatus EXCEPT ![u] = "Canceled"]
          BY <3>2 DEF Cancel, Open
        <4> HIDE DEF e
        <4> QED
          BY <4>1, <4>2, <4>3
      <3> QED
        BY <1>4, <3>1, <3>2
    <2>2. feed' = [feed EXCEPT ![ExchangeOf[u]] = Append(@, e)]
      BY <2>1, ReportAppends
    <2>3. All(feed', exStatus')
      BY <1>1, <1>2, <2>1, <2>2, ReportInOrder DEF All
    <2> QED
      BY <1>3, <2>3
  <1>5. ASSUME NEW t \in Trades, Execute(t)
        PROVE  OrdersOK'
    <2> DEFINE u == t.order
               status == IF TradesOf(u) \subseteq executed \cup {t} THEN "Filled" ELSE "PartiallyFilled"
               a == TradeEvent(t)
               b == OrderEvent(u, status, TRUE)
               f == [feed EXCEPT ![ExchangeOf[u]] = Append(@, a)]
    <2>1. u \in Orders /\ ExchangeOf[u] \in Exchanges
      BY CollectorAssumption
    <2>2. status \in OS!OrderStatus /\ status # "New"
      BY DEF OS!OrderStatus
    <2>3. a \in Events /\ b \in Events
      BY <2>1, <2>2, TradeEventType, OrderEventType
    <2>4. /\ OrderOf(a) = u /\ a.kind = "trade"
          /\ OrderOf(b) = u /\ b.kind = "order" /\ b.status = status
      BY DEF TradeEvent, OrderEvent, OrderOf
    <2>5. /\ exStatus[u] \in Open /\ Report(u, <<a, b>>)
          /\ exStatus' = [exStatus EXCEPT ![u] = status]
      BY <1>5 DEF Execute, Open
    <2> HIDE DEF u, status, a, b
    <2>6. f \in [Exchanges -> Seq(Events)]
      <3>1. Append(feed[ExchangeOf[u]], a) \in Seq(Events)
        BY <1>1, <2>1, <2>3
      <3> QED
        BY <1>1, <2>1, <3>1
    <2>7. [exStatus EXCEPT ![u] = exStatus[u]] = exStatus /\ exStatus[u] \in OS!OrderStatus
      BY <1>1, <2>1, <2>5 DEF Open, OS!OrderStatus
    <2>8. All(f, exStatus)
      <3> DEFINE st == exStatus[u]
      <3>1. st \in OS!OrderStatus /\ st \in Open /\ [exStatus EXCEPT ![u] = st] = exStatus
        BY <2>5, <2>7
      <3> HIDE DEF st
      <3>2. a.kind # "order"
        BY <2>4
      <3>3. \A o \in Orders :
               InOrder([feed EXCEPT ![ExchangeOf[u]] = Append(@, a)][ExchangeOf[o]], o, orderStore,
                       closing[ExchangeOf[o]], [exStatus EXCEPT ![u] = st][o])
        BY <1>1, <1>2, <2>1, <2>3, <2>4, <3>1, <3>2, ReportInOrder DEF All, st
      <3> QED
        BY <3>1, <3>3 DEF All
    <2> HIDE DEF f
    <2>9. feed' = [f EXCEPT ![ExchangeOf[u]] = Append(@, b)]
      BY <2>1, <2>3, <2>5, ReportAppends DEF f
    <2>10. All(feed', exStatus')
      BY <1>1, <2>1, <2>2, <2>3, <2>4, <2>5, <2>6, <2>8, <2>9, ReportInOrder DEF All
    <2> QED
      BY <1>3, <2>10
  <1>6. ASSUME NEW x \in Exchanges, Disconnect(x)
        PROVE  FALSE
    BY <1>6 DEF Disconnect, TypeOK
  <1> QED
    BY <1>4, <1>5, <1>6 DEF External, ForeignOrder

(* An event that leaves a stream has been on it, and what is reported is placed. *)
LEMMA ReceivePlaces ==
    ASSUME TypeOK, PlacesOK, NEW x \in Exchanges, Receive(x)
    PROVE  /\ ExchangeOf[OrderOf(Head(feed[x]))] = x
           /\ \A y \in Exchanges : \A i \in DOMAIN feed'[y] : ExchangeOf[OrderOf(feed'[y][i])] = y
  <1>1. feed[x] \in Seq(Events) /\ feed[x] # <<>>
    BY DEF TypeOK, Receive
  <1>2. /\ 1 \in DOMAIN feed[x] /\ feed[x][1] = Head(feed[x])
        /\ \A i \in DOMAIN Tail(feed[x]) : i + 1 \in DOMAIN feed[x] /\ Tail(feed[x])[i] = feed[x][i + 1]
    BY <1>1
  <1>3. feed'[x] = Tail(feed[x]) /\ \A y \in Exchanges \ {x} : feed'[y] = feed[y]
    BY DEF Receive, TypeOK
  <1>4. \A i \in DOMAIN feed'[x] : ExchangeOf[OrderOf(feed'[x][i])] = x
    BY <1>2, <1>3 DEF PlacesOK
  <1>5. ExchangeOf[OrderOf(feed[x][1])] = x
    BY <1>2 DEF PlacesOK
  <1>6. ASSUME NEW y \in Exchanges \ {x}
        PROVE  \A i \in DOMAIN feed'[y] : ExchangeOf[OrderOf(feed'[y][i])] = y
    BY <1>3 DEF PlacesOK
  <1> QED
    BY <1>2, <1>4, <1>5, <1>6

LEMMA ConcatElements ==
    ASSUME NEW S, NEW s \in Seq(S), NEW a \in S, NEW b \in S, NEW r \in {<<a>>, <<a, b>>}
    PROVE  \A i \in DOMAIN (s \o r) : (i \in DOMAIN s /\ (s \o r)[i] = s[i]) \/ (s \o r)[i] \in {a, b}
  <1>1. s \o <<a>> = Append(s, a) /\ s \o <<a, b>> = Append(Append(s, a), b)
    BY AppendsConcat
  <1>2. Append(s, a) \in Seq(S)
    OBVIOUS
  <1>3. \A q \in Seq(S), c \in S : \A i \in DOMAIN Append(q, c) :
            (i \in DOMAIN q /\ Append(q, c)[i] = q[i]) \/ Append(q, c)[i] = c
    OBVIOUS
  <1>4. \A i \in DOMAIN (s \o <<a>>) : (i \in DOMAIN s /\ (s \o <<a>>)[i] = s[i]) \/ (s \o <<a>>)[i] \in {a, b}
    BY <1>1, <1>3
  <1>5. \A i \in DOMAIN (s \o <<a, b>>) :
            (i \in DOMAIN s /\ (s \o <<a, b>>)[i] = s[i]) \/ (s \o <<a, b>>)[i] \in {a, b}
    BY <1>1, <1>2, <1>3
  <1> QED
    BY <1>4, <1>5

LEMMA ReportPlaces ==
    ASSUME TypeOK, PlacesOK, NEW u \in Orders, NEW a \in Events, NEW b \in Events,
           OrderOf(a) = u, OrderOf(b) = u, Report(u, <<a>>) \/ Report(u, <<a, b>>), closing' = closing
    PROVE  PlacesOK'
  <1> DEFINE X == ExchangeOf[u]
             s == feed[X]
  <1>1. X \in Exchanges /\ s \in Seq(Events)
    BY CollectorAssumption DEF TypeOK
  <1>2. PICK r \in {<<a>>, <<a, b>>} : Report(u, r)
    OBVIOUS
  <1>3. feed'[X] = s \o r /\ \A x \in Exchanges \ {X} : feed'[x] = feed[x]
    BY <1>1, <1>2 DEF Report, TypeOK
  <1>4. \A i \in DOMAIN (s \o r) : (i \in DOMAIN s /\ (s \o r)[i] = s[i]) \/ (s \o r)[i] \in {a, b}
    BY <1>1, <1>2, ConcatElements, ZenonT(60)
  <1> HIDE DEF s
  <1>5. ASSUME NEW i \in DOMAIN feed'[X]
        PROVE  ExchangeOf[OrderOf(feed'[X][i])] = X
    <2>1. (i \in DOMAIN s /\ feed'[X][i] = s[i]) \/ feed'[X][i] = a \/ feed'[X][i] = b
      BY <1>3, <1>4
    <2>2. i \in DOMAIN s => ExchangeOf[OrderOf(s[i])] = X
      BY <1>1 DEF PlacesOK, s
    <2> QED
      BY <2>1, <2>2
  <1>6. \A x \in Exchanges : \A i \in DOMAIN feed'[x] : ExchangeOf[OrderOf(feed'[x][i])] = x
    BY <1>3, <1>5 DEF PlacesOK
  <1> QED
    BY <1>6 DEF PlacesOK, OrderOf

LEMMA NextPlaces == TypeOK /\ PlacesOK /\ [Next]_vars => PlacesOK'
  <1> SUFFICES ASSUME TypeOK, PlacesOK, [Next]_vars
               PROVE  PlacesOK'
    OBVIOUS
  <1> USE DEF exchangeVars, collectorVars, positionVars, threadVars
  <1>1. CASE UNCHANGED <<feed, closing>>
    BY <1>1 DEF PlacesOK, OrderOf
  <1>2. ASSUME NEW u \in Orders, Accept(u) \/ Cancel(u), closing' = closing
        PROVE  PlacesOK'
    <2>1. PICK status \in OS!OrderStatus, traded \in BOOLEAN : Report(u, <<OrderEvent(u, status, traded)>>)
      BY <1>2 DEF Accept, Cancel, Traded, OS!OrderStatus
    <2>2. OrderEvent(u, status, traded) \in Events /\ OrderOf(OrderEvent(u, status, traded)) = u
      BY OrderEventType DEF OrderOf, OrderEvent
    <2> QED
      BY <1>2, <2>1, <2>2, ReportPlaces
  <1>3. CASE External
    <2>1. ASSUME NEW t \in Trades, Execute(t)
          PROVE  PlacesOK'
      <3> DEFINE u == t.order
                 status == IF TradesOf(u) \subseteq executed \cup {t} THEN "Filled" ELSE "PartiallyFilled"
                 a == TradeEvent(t)
                 b == OrderEvent(u, status, TRUE)
      <3>1. u \in Orders /\ status \in OS!OrderStatus
        BY CollectorAssumption DEF OS!OrderStatus
      <3>2. a \in Events /\ b \in Events
        BY <3>1, TradeEventType, OrderEventType
      <3>3. OrderOf(a) = u /\ OrderOf(b) = u
        BY DEF TradeEvent, OrderEvent, OrderOf
      <3>4. (Report(u, <<a, b>>) \/ Report(u, <<b, a>>)) /\ closing' = closing
        BY <2>1 DEF Execute
      <3> HIDE DEF u, status, a, b
      <3> QED
        BY <3>1, <3>2, <3>3, <3>4, ReportPlaces
    <2>2. ASSUME NEW x \in Exchanges, Disconnect(x)
          PROVE  PlacesOK'
      <3>1. feed' = [feed EXCEPT ![x] = <<>>] /\ closing' = closing
        BY <2>2 DEF Disconnect
      <3>2. feed'[x] = <<>> /\ \A y \in Exchanges \ {x} : feed'[y] = feed[y]
        BY <3>1 DEF TypeOK
      <3>3. \A y \in Exchanges : \A i \in DOMAIN feed'[y] : ExchangeOf[OrderOf(feed'[y][i])] = y
        BY <3>2 DEF PlacesOK
      <3> QED
        BY <3>1, <3>3 DEF PlacesOK, OrderOf
    <2> QED
      BY <1>2, <1>3, <2>1, <2>2 DEF External, ForeignOrder, Cancel
  <1>4. ASSUME NEW o \in Own, Submit(o) \/ Respond(o)
        PROVE  PlacesOK'
    <2>1. o \in Orders
      BY CollectorAssumption
    <2> QED
      BY <1>1, <1>2, <1>4, <2>1 DEF Submit, Respond, Created, ResponseLost
  <1>5. ASSUME NEW x \in Exchanges, Deliver(x)
        PROVE  PlacesOK'
    <2>1. CASE ReceiveOrder(x)
      <3> DEFINE e == Head(feed[x])
      <3>1. Receive(x) /\ e.kind = "order"
        BY <2>1 DEF ReceiveOrder
      <3>2. /\ ExchangeOf[e.order] = x
            /\ \A y \in Exchanges : \A i \in DOMAIN feed'[y] : ExchangeOf[OrderOf(feed'[y][i])] = y
        <4>1. OrderOf(e) = e.order
          BY <3>1 DEF OrderOf
        <4> QED
          BY <3>1, <4>1, ReceivePlaces
      <3>3. closing' = [closing EXCEPT ![x] = {e.order}] \/ closing' = closing
        BY <2>1 DEF ReceiveOrder
      <3>4. \A y \in Exchanges : \A o \in closing'[y] : ExchangeOf[o] = y
        <4>1. \A y \in Exchanges : closing'[y] \subseteq closing[y] \/ (y = x /\ closing'[y] = {e.order})
          BY <3>3 DEF TypeOK
        <4>2. \A y \in Exchanges : \A o \in closing[y] : ExchangeOf[o] = y
          BY DEF PlacesOK
        <4> HIDE DEF e
        <4> QED
          BY <3>2, <4>1, <4>2
      <3> QED
        BY <3>2, <3>4 DEF PlacesOK, OrderOf
    <2>2. CASE RemoveFilledOrder(x)
      <3>1. feed' = feed /\ \A y \in Exchanges : closing'[y] \subseteq closing[y]
        BY <2>2 DEF RemoveFilledOrder, TypeOK
      <3> QED
        BY <3>1 DEF PlacesOK, OrderOf
    <2>3. CASE ReceiveTrade(x) \/ QueueTrade(x)
      <3>1. Receive(x) /\ closing' = closing
        BY <2>3 DEF ReceiveTrade, QueueTrade
      <3> QED
        BY <3>1, ReceivePlaces DEF PlacesOK, OrderOf
    <2> QED
      BY <1>5, <2>1, <2>2, <2>3 DEF Deliver
  <1>6. ASSUME NEW p \in Runners, Tick(p) \/ Dequeue(p)
        PROVE  PlacesOK'
    BY <1>1, <1>6 DEF Tick, Dequeue
  <1>7. ASSUME NEW p \in Recoverers, Scan(p) \/ StoreAgain(p) \/ \E x \in Exchanges : TickScan(p, x)
        PROVE  PlacesOK'
    BY <1>1, <1>7 DEF Scan, RecoverTrade, RecoverEnd, StoreAgain, TickScan, Recover, RecoverFails
  <1>8. ASSUME NEW p \in Threads, Lock(p)
        PROVE  PlacesOK'
    BY <1>1, <1>8 DEF Lock, CheckDone, CheckUnknown, CheckKnown, FilterBegin
  <1>9. ASSUME NEW p \in Threads, Work(p)
        PROVE  PlacesOK'
    BY <1>1, <1>9 DEF Work, Store, VisitDone, VisitKnown, VisitUnknown, FilterEnd, AddTrade, EmitPositionUpdate
  <1>10. CASE UNCHANGED vars
    BY <1>1, <1>10 DEF vars
  <1> QED
    BY <1>3, <1>4, <1>5, <1>6, <1>7, <1>8, <1>9, <1>10 DEF Next

(* An update of an open order keeps it in the store or adds it; no other order is touched. *)
LEMMA UpdateKeeps ==
    ASSUME AddOrderUpdate, NEW store, NEW o, NEW status, NEW traded
    PROVE  /\ status \in Open => o \in OS!HandleOrderUpdate(store, o, status, traded)
           /\ \A u : u # o => (u \in store <=> u \in OS!HandleOrderUpdate(store, o, status, traded))
  <1>1. status \in Open => OS!Tracked(store, o, status) /\ OS!Kept(status, traded)
    BY DEF OS!Tracked, OS!Kept, Open
  <1> QED
    BY <1>1 DEF OS!HandleOrderUpdate, OS!Add, OS!Remove

LEMMA ReceiveOrderInOrder ==
    ASSUME TypeOK, PlacesOK, OrdersOK, AddOrderUpdate, NEW x \in Exchanges, ReceiveOrder(x)
    PROVE  OrdersOK'
  <1> DEFINE e == Head(feed[x])
  <1>1. Receive(x) /\ e.kind = "order" /\ exStatus' = exStatus
    BY DEF ReceiveOrder, Receive
  <1>2. e \in Events /\ ExchangeOf[e.order] = x
    <2>1. OrderOf(e) = e.order
      BY <1>1 DEF OrderOf
    <2> QED
      BY <1>1, <2>1, ReceiveType, ReceivePlaces
  <1>3. feed[x] \in Seq(Events) /\ feed[x] # <<>>
    BY <1>1 DEF TypeOK, Receive
  <1>4. feed'[x] = Tail(feed[x]) /\ \A y \in Exchanges \ {x} : feed'[y] = feed[y]
    BY <1>1 DEF Receive, TypeOK
  <1>5. /\ e.status \in Open => e.order \in orderStore'
        /\ \A u : u # e.order => (u \in orderStore <=> u \in orderStore')
    BY UpdateKeeps DEF ReceiveOrder
  <1>6. /\ \A y \in Exchanges \ {x} : closing'[y] = closing[y]
        /\ \A u \in closing'[x] : u \in closing[x] \/ (u = e.order /\ e.status = "Filled")
    <2>1. CASE OS!RemovedNext(e.status)
      <3>1. closing' = [closing EXCEPT ![x] = {e.order}] /\ e.status = "Filled"
        BY <2>1 DEF ReceiveOrder, OS!RemovedNext
      <3> QED
        BY <3>1 DEF TypeOK
    <2>2. CASE ~OS!RemovedNext(e.status)
      BY <2>2 DEF ReceiveOrder
    <2> QED
      BY <2>1, <2>2
  <1> SUFFICES ASSUME NEW o \in Orders
               PROVE  InOrder(feed'[ExchangeOf[o]], o, orderStore', closing'[ExchangeOf[o]], exStatus[o])
    BY <1>1 DEF OrdersOK, InOrder
  <1>7. InOrder(feed[ExchangeOf[o]], o, orderStore, closing[ExchangeOf[o]], exStatus[o])
    BY DEF OrdersOK
  <1>8. ExchangeOf[o] \in Exchanges
    BY CollectorAssumption
  <1> HIDE DEF e
  <1>9. CASE ExchangeOf[o] # x
    <2>1. o # e.order
      BY <1>2, <1>9
    <2>2. feed'[ExchangeOf[o]] = feed[ExchangeOf[o]] /\ closing'[ExchangeOf[o]] = closing[ExchangeOf[o]]
      BY <1>4, <1>6, <1>8, <1>9
    <2>3. o \in orderStore => o \in orderStore'
      BY <1>5, <2>1
    <2> QED
      BY <1>7, <2>2, <2>3, KeepInOrder
  <1>10. CASE ExchangeOf[o] = x
    <2>1. (o \in orderStore \/ Opens(e, o)) /\ ~Closes(e, o) => o \in orderStore'
      BY <1>1, <1>5 DEF Opens, Closes
    <2>2. o \in closing'[x] => o \in closing[x] \/ Closes(e, o)
      BY <1>1, <1>6 DEF Closes, Open
    <2>3. InOrder(Tail(feed[x]), o, orderStore', closing'[x], exStatus[o])
      BY <1>3, <1>7, <1>10, <2>1, <2>2, TailInOrder DEF e
    <2> QED
      BY <1>4, <1>10, <2>3
  <1> QED
    BY <1>9, <1>10

LEMMA ReceiveTradeInOrder ==
    ASSUME TypeOK, OrdersOK, NEW x \in Exchanges, ReceiveTrade(x)
    PROVE  OrdersOK'
  <1> DEFINE e == Head(feed[x])
  <1>1. Receive(x) /\ e.kind = "trade" /\ UNCHANGED <<exStatus, orderStore, closing>>
    BY DEF ReceiveTrade, Receive, collectorVars
  <1>2. feed[x] \in Seq(Events) /\ feed[x] # <<>>
    BY <1>1 DEF TypeOK, Receive
  <1>3. feed'[x] = Tail(feed[x]) /\ \A y \in Exchanges \ {x} : feed'[y] = feed[y]
    BY <1>1 DEF Receive, TypeOK
  <1> SUFFICES ASSUME NEW o \in Orders
               PROVE  InOrder(feed'[ExchangeOf[o]], o, orderStore, closing[ExchangeOf[o]], exStatus[o])
    BY <1>1 DEF OrdersOK, InOrder
  <1>4. InOrder(feed[ExchangeOf[o]], o, orderStore, closing[ExchangeOf[o]], exStatus[o])
    BY DEF OrdersOK
  <1>5. ExchangeOf[o] \in Exchanges
    BY CollectorAssumption
  <1>6. ~Opens(e, o) /\ ~Closes(e, o)
    BY <1>1 DEF Opens, Closes
  <1>7. CASE ExchangeOf[o] = x
    <2>1. InOrder(Tail(feed[x]), o, orderStore, closing[x], exStatus[o])
      BY <1>2, <1>4, <1>6, <1>7, TailInOrder
    <2> QED
      BY <1>3, <1>7, <2>1
  <1> QED
    BY <1>3, <1>4, <1>5, <1>7

LEMMA NextOrders ==
    ASSUME TypeOK, PlacesOK, OrdersOK, AddOrderUpdate, TradeFirst, Background = {}, drops' = 0, [Next]_vars
    PROVE  OrdersOK'
  <1> USE DEF exchangeVars, collectorVars, positionVars, threadVars
  <1>1. CASE UNCHANGED <<feed, exStatus, orderStore, closing>>
    BY <1>1 DEF OrdersOK, InOrder
  <1>2. CASE External
    <2>1. UNCHANGED <<orderStore, closing>>
      BY <1>2 DEF External, ForeignOrder, Cancel, Execute, Disconnect
    <2> QED
      BY <1>2, <2>1, ExternalInOrder
  <1>3. ASSUME NEW o \in Own, Submit(o) \/ Respond(o)
        PROVE  OrdersOK'
    <2>1. o \in Orders
      BY CollectorAssumption
    <2>2. CASE Submit(o)
      BY <2>1, <2>2, ExternalInOrder DEF Submit
    <2>3. CASE Created(o)
      <3>1. UNCHANGED <<feed, exStatus, closing>> /\ orderStore \subseteq orderStore'
        BY <2>3 DEF Created, OS!Add
      <3>2. ASSUME NEW u \in Orders
            PROVE  InOrder(feed[ExchangeOf[u]], u, orderStore', closing[ExchangeOf[u]], exStatus[u])
        <4>1. InOrder(feed[ExchangeOf[u]], u, orderStore, closing[ExchangeOf[u]], exStatus[u])
          BY DEF OrdersOK
        <4> QED
          BY <3>1, <4>1, KeepInOrder
      <3> QED
        BY <3>1, <3>2 DEF OrdersOK, InOrder
    <2>4. CASE ResponseLost(o)
      BY <1>1, <2>4 DEF ResponseLost
    <2> QED
      BY <1>3, <2>2, <2>3, <2>4 DEF Respond
  <1>4. ASSUME NEW x \in Exchanges, Deliver(x)
        PROVE  OrdersOK'
    <2>1. CASE RemoveFilledOrder(x)
      <3>1. PICK o \in closing[x] : orderStore' = orderStore \ {o} /\ closing' = [closing EXCEPT ![x] = {}]
        BY <2>1 DEF RemoveFilledOrder, OS!Remove
      <3>2. UNCHANGED <<feed, exStatus>> /\ \A y \in Exchanges : closing'[y] \subseteq closing[y]
        BY <2>1, <3>1 DEF RemoveFilledOrder, TypeOK
      <3>3. ASSUME NEW u \in Orders
            PROVE  InOrder(feed[ExchangeOf[u]], u, orderStore', closing'[ExchangeOf[u]], exStatus[u])
        <4>1. InOrder(feed[ExchangeOf[u]], u, orderStore, closing[ExchangeOf[u]], exStatus[u])
          BY DEF OrdersOK
        <4>2. ExchangeOf[u] \in Exchanges /\ (u = o => ExchangeOf[u] = x)
          BY <3>1, CollectorAssumption DEF PlacesOK
        <4>3. u \in orderStore => u \in orderStore' \/ u \in closing[ExchangeOf[u]]
          BY <3>1, <4>2
        <4>4. u \in closing'[ExchangeOf[u]] => u \in closing[ExchangeOf[u]]
          BY <3>2, <4>2
        <4> QED
          BY <4>1, <4>3, <4>4, KeepInOrder
      <3> QED
        BY <3>2, <3>3 DEF OrdersOK, InOrder
    <2>2. ~QueueTrade(x)
      BY DEF QueueTrade
    <2> QED
      BY <1>4, <2>1, <2>2, ReceiveOrderInOrder, ReceiveTradeInOrder DEF Deliver
  <1>5. ASSUME NEW p \in Runners, Tick(p) \/ Dequeue(p)
        PROVE  OrdersOK'
    BY <1>1, <1>5 DEF Tick, Dequeue
  <1>6. ASSUME NEW p \in Recoverers, Scan(p) \/ StoreAgain(p) \/ \E x \in Exchanges : TickScan(p, x)
        PROVE  OrdersOK'
    BY <1>1, <1>6 DEF Scan, RecoverTrade, RecoverEnd, StoreAgain, TickScan, Recover, RecoverFails
  <1>7. ASSUME NEW p \in Threads, Lock(p)
        PROVE  OrdersOK'
    BY <1>1, <1>7 DEF Lock, CheckDone, CheckUnknown, CheckKnown, FilterBegin
  <1>8. ASSUME NEW p \in Threads, Work(p)
        PROVE  OrdersOK'
    BY <1>1, <1>8 DEF Work, Store, VisitDone, VisitKnown, VisitUnknown, FilterEnd, AddTrade, EmitPositionUpdate
  <1>9. CASE UNCHANGED vars
    BY <1>1, <1>9 DEF vars
  <1> QED
    BY <1>2, <1>3, <1>4, <1>5, <1>6, <1>7, <1>8, <1>9 DEF Next

(* A stream that takes up a trade finds its order known. *)
LEMMA TradeFindsOrder ==
    ASSUME TypeOK, PlacesOK, OrdersOK, NEW x \in Exchanges, ReceiveTrade(x)
    PROVE  LET t == Head(feed[x]).trade IN t \in Trades /\ t.ex = x /\ t.order \in orderStore
  <1> DEFINE e == Head(feed[x])
             o == e.trade.order
             s == feed[x]
  <1>1. Receive(x) /\ e.kind = "trade"
    BY DEF ReceiveTrade
  <1>2. s \in Seq(Events) /\ s # <<>>
    BY <1>1 DEF TypeOK, Receive
  <1>3. 1 \in DOMAIN s /\ s[1] = e /\ \A j \in DOMAIN s : ~(j < 1)
    BY <1>2
  <1>4. e.trade \in Trades /\ o \in Orders /\ e.trade.ex = ExchangeOf[o]
    BY <1>1, ReceiveType, EventFields, CollectorAssumption
  <1>5. ExchangeOf[o] = x
    <2>1. OrderOf(e) = o
      BY <1>1 DEF OrderOf
    <2> QED
      BY <1>1, <2>1, ReceivePlaces
  <1>6. InOrder(s, o, orderStore, closing[x], exStatus[o])
    BY <1>4, <1>5 DEF OrdersOK
  <1>7. Fills(s[1], o)
    BY <1>1, <1>3 DEF Fills
  <1> HIDE DEF s, o
  <1>8. o \in orderStore
    BY <1>3, <1>6, <1>7 DEF InOrder
  <1> QED
    BY <1>4, <1>5, <1>8 DEF o

LEMMA NextHands ==
    ASSUME TypeOK, PlacesOK, OrdersOK, ControlInv, HandsOK, AddOrderUpdate, Background = {}, [Next]_vars
    PROVE  HandsOK'
  <1> USE DEF exchangeVars, collectorVars, positionVars, threadVars
  <1>1. \A x \in Exchanges : x \in Threads /\ x \notin Own \cup Runners \cup Recoverers
    BY CollectorAssumption DEF Threads
  (* No stream moves, and the store loses nothing. *)
  <1>2. ASSUME orderStore \subseteq orderStore',
               \A x \in Exchanges : pc'[x] # "store" /\ cur'[x] \subseteq cur[x]
        PROVE  HandsOK'
    BY <1>2 DEF HandsOK
  <1>3. CASE UNCHANGED <<pc, cur, orderStore>>
    BY <1>3 DEF HandsOK
  <1>4. CASE External
    BY <1>3, <1>4 DEF External, ForeignOrder, Cancel, Execute, Disconnect
  <1>5. ASSUME NEW o \in Own, Submit(o) \/ Respond(o)
        PROVE  HandsOK'
    <2>1. orderStore \subseteq orderStore' /\ cur' = cur
      BY <1>5 DEF Submit, Respond, Created, ResponseLost, OS!Add
    <2>2. \A x \in Exchanges : pc'[x] = pc[x]
      BY <1>1, <1>5 DEF Submit, Respond, Created, ResponseLost, Goto, TypeOK
    <2> QED
      BY <1>2, <2>1, <2>2 DEF HandsOK
  <1>6. ASSUME NEW x \in Exchanges, Deliver(x)
        PROVE  HandsOK'
    (* The store loses an order of this stream only, which holds no trade now. *)
    <2>1. ASSUME NEW o, ExchangeOf[o] = x, \A u : u # o /\ u \in orderStore => u \in orderStore',
                 cur' = cur, pc[x] \notin Holding, pc'[x] # "store",
                 \A y \in Exchanges \ {x} : pc'[y] = pc[y]
          PROVE  HandsOK'
      <3>1. cur[x] = {}
        BY <1>1, <2>1 DEF ControlInv, CurOK
      <3>2. ASSUME NEW y \in Exchanges \ {x}, NEW t \in cur[y]
            PROVE  t.ex = y /\ t.order \in orderStore'
        <4>1. t.ex = y /\ t.order \in orderStore
          BY <3>2 DEF HandsOK
        <4>2. t \in Trades
          BY <1>1, <3>2 DEF TypeOK
        <4>3. ExchangeOf[t.order] = y
          BY <4>1, <4>2, CollectorAssumption
        <4> QED
          BY <2>1, <4>1, <4>3
      <3> QED
        BY <2>1, <3>1, <3>2 DEF HandsOK
    <2>2. CASE ReceiveOrder(x)
      <3> DEFINE e == Head(feed[x])
      <3>1. Receive(x) /\ e.kind = "order" /\ cur' = cur
        BY <2>2 DEF ReceiveOrder
      <3>2. ExchangeOf[e.order] = x
        <4>1. OrderOf(e) = e.order
          BY <3>1 DEF OrderOf
        <4> QED
          BY <3>1, <4>1, ReceivePlaces
      <3>3. \A u : u # e.order /\ u \in orderStore => u \in orderStore'
        BY <2>2, UpdateKeeps DEF ReceiveOrder
      <3>4. pc[x] = "idle" /\ (pc' = pc \/ pc' = [pc EXCEPT ![x] = "removeFilled"])
        BY <2>2 DEF ReceiveOrder, Receive, Goto
      <3>5. /\ pc[x] \notin Holding /\ pc'[x] # "store"
            /\ \A y \in Exchanges \ {x} : pc'[y] = pc[y]
        BY <1>1, <3>4 DEF Holding, TypeOK
      <3> QED
        BY <2>1, <3>1, <3>2, <3>3, <3>5
    <2>3. CASE RemoveFilledOrder(x)
      <3>1. PICK o \in closing[x] : orderStore' = orderStore \ {o}
        BY <2>3 DEF RemoveFilledOrder, OS!Remove
      <3>2. pc[x] = "removeFilled" /\ pc' = [pc EXCEPT ![x] = "idle"] /\ cur' = cur
        BY <2>3 DEF RemoveFilledOrder, Goto
      <3>3. /\ pc[x] \notin Holding /\ pc'[x] # "store"
            /\ \A y \in Exchanges \ {x} : pc'[y] = pc[y]
        BY <1>1, <3>2 DEF Holding, TypeOK
      <3>4. ExchangeOf[o] = x
        BY DEF PlacesOK
      <3> QED
        BY <2>1, <3>1, <3>2, <3>3, <3>4
    <2>4. CASE ReceiveTrade(x)
      <3> DEFINE t == Head(feed[x]).trade
      <3>1. t.ex = x /\ t.order \in orderStore
        BY <2>4, TradeFindsOrder
      <3>2. /\ cur' = [cur EXCEPT ![x] = {t}] /\ pc' = [pc EXCEPT ![x] = "check"]
            /\ orderStore' = orderStore
        BY <2>4 DEF ReceiveTrade, Goto
      <3> HIDE DEF t
      <3>3. cur'[x] = {t} /\ pc'[x] = "check" /\ \A y \in Exchanges \ {x} : cur'[y] = cur[y] /\ pc'[y] = pc[y]
        BY <1>1, <3>2 DEF TypeOK
      <3> QED
        BY <3>1, <3>2, <3>3 DEF HandsOK
    <2>5. ~QueueTrade(x)
      BY DEF QueueTrade
    <2> QED
      BY <1>6, <2>2, <2>3, <2>4, <2>5 DEF Deliver
  <1>7. ASSUME NEW p \in Runners \cup Recoverers,
               orderStore' = orderStore, NEW l, NEW ts,
               pc' = [pc EXCEPT ![p] = l] \/ pc' = pc, cur' = [cur EXCEPT ![p] = ts] \/ cur' = cur
        PROVE  HandsOK'
    <2>1. p \in Threads /\ \A x \in Exchanges : x # p
      BY <1>1 DEF Threads
    <2>2. \A x \in Exchanges : pc'[x] = pc[x] /\ cur'[x] = cur[x]
      BY <1>1, <1>7, <2>1 DEF TypeOK
    <2> QED
      BY <1>2, <1>7, <2>2 DEF HandsOK
  <1>8. ASSUME NEW p \in Runners, Tick(p) \/ Dequeue(p)
        PROVE  HandsOK'
    BY <1>7, <1>8 DEF Tick, Dequeue, Goto
  <1>9. ASSUME NEW p \in Recoverers, Scan(p) \/ StoreAgain(p) \/ \E x \in Exchanges : TickScan(p, x)
        PROVE  HandsOK'
    <2>1. CASE RecoverTrade(p)
      <3>1. PICK t \in todo[p] : /\ cur' = [cur EXCEPT ![p] = {t}] /\ pc' = [pc EXCEPT ![p] = "check"]
                                 /\ orderStore' = orderStore
        BY <2>1 DEF RecoverTrade, Goto
      <3>2. p \in Runners \cup Recoverers
        OBVIOUS
      <3> QED
        BY <1>7, <3>1, <3>2
    <2>2. CASE RecoverEnd(p) \/ StoreAgain(p) \/ \E x \in Exchanges : TickScan(p, x)
      BY <1>7, <2>2 DEF RecoverEnd, StoreAgain, TickScan, Recover, RecoverFails, Goto
    <2> QED
      BY <1>9, <2>1, <2>2 DEF Scan
  <1>10. ASSUME NEW p \in Threads, Lock(p)
         PROVE  HandsOK'
    <2>1. CASE CheckDone(p)
      <3>1. /\ orderStore' = orderStore /\ \A q \in Threads : cur'[q] \subseteq cur[q]
            /\ \A q \in Threads : pc'[q] = "store" => pc[q] = "store"
        BY <2>1 DEF CheckDone, Refused, Resume, Goto, TypeOK
      <3> QED
        BY <1>1, <1>2, <3>1 DEF HandsOK
    <2>2. CASE CheckUnknown(p)
      <3>1. PICK t \in cur[p] : t.order \notin orderStore
        BY <2>2 DEF CheckUnknown, OS!Exists
      <3>2. p \notin Exchanges
        BY <3>1 DEF HandsOK
      <3>3. /\ UNCHANGED <<cur, orderStore>> /\ \A q \in Threads \ {p} : pc'[q] = pc[q]
        BY <2>2 DEF CheckUnknown, Goto, TypeOK
      <3> QED
        BY <1>1, <1>2, <3>2, <3>3 DEF HandsOK
    <2>3. CASE CheckKnown(p) \/ FilterBegin(p)
      <3>1. /\ orderStore' = orderStore /\ \A q \in Threads : cur'[q] \subseteq cur[q]
            /\ \A q \in Threads : pc'[q] = "store" => pc[q] = "store"
        BY <2>3 DEF CheckKnown, FilterBegin, Goto, TypeOK
      <3> QED
        BY <1>1, <1>2, <3>1 DEF HandsOK
    <2> QED
      BY <1>10, <2>1, <2>2, <2>3 DEF Lock
  <1>11. ASSUME NEW p \in Threads, Work(p)
         PROVE  HandsOK'
    <2>1. CASE Store(p)
      <3>1. /\ orderStore' = orderStore /\ \A q \in Threads : cur'[q] \subseteq cur[q]
            /\ \A q \in Threads : pc'[q] = "store" => pc[q] = "store"
        BY <2>1 DEF Store, Refused, Resume, Goto, TypeOK
      <3> QED
        BY <1>1, <1>2, <3>1 DEF HandsOK
    <2>2. CASE VisitDone(p) \/ VisitKnown(p) \/ VisitUnknown(p)
      BY <1>3, <2>2 DEF VisitDone, VisitKnown, VisitUnknown
    <2>3. CASE FilterEnd(p) \/ AddTrade(p) \/ EmitPositionUpdate(p)
      <3>1. /\ orderStore' = orderStore /\ cur' = cur
            /\ \A q \in Threads : pc'[q] = "store" => pc[q] = "store"
        BY <2>3 DEF FilterEnd, AddTrade, EmitPositionUpdate, ThenEmit, Resume, Goto, TypeOK
      <3> QED
        BY <1>1, <1>2, <3>1 DEF HandsOK
    <2> QED
      BY <1>11, <2>1, <2>2, <2>3 DEF Work
  <1>12. CASE UNCHANGED vars
    BY <1>3, <1>12 DEF vars
  <1> QED
    BY <1>4, <1>5, <1>6, <1>8, <1>9, <1>10, <1>11, <1>12 DEF Next

LEMMA ConcatCarries ==
    ASSUME NEW S, NEW s \in Seq(S), NEW r \in Seq(S)
    PROVE  /\ \A i \in DOMAIN s : i \in DOMAIN (s \o r) /\ (s \o r)[i] = s[i]
           /\ \A i \in DOMAIN r : i + Len(s) \in DOMAIN (s \o r) /\ (s \o r)[i + Len(s)] = r[i]
  OBVIOUS

LEMMA TailElements ==
    ASSUME NEW S, NEW s \in Seq(S), s # <<>>, NEW i \in DOMAIN s
    PROVE  s[i] = Head(s) \/ (i - 1 \in DOMAIN Tail(s) /\ Tail(s)[i - 1] = s[i])
  OBVIOUS

(* An executed trade stays on its stream until the stream takes it up, and in the
   stream's hands until it is marked. *)
LEMMA NextHandled ==
    ASSUME TypeOK, ControlInv, HandsOK, HandledOK, TradeFirst, Background = {}, drops' = 0, [Next]_vars
    PROVE  HandledOK'
  <1> USE DEF exchangeVars, collectorVars, positionVars, threadVars
  <1> DEFINE On(t) == \E i \in DOMAIN feed[t.ex] : feed[t.ex][i] = TradeEvent(t)
             Handled(t) == On(t) \/ t \in cur[t.ex] \/ Key(t) \in doneTrades
  <1>1. \A x \in Exchanges : x \in Threads /\ x \notin Own \cup Runners \cup Recoverers
    BY CollectorAssumption DEF Threads
  <1>2. \A t \in Trades : t.ex \in Exchanges
    BY CollectorAssumption
  <1>3. \A t \in executed : t \in Trades /\ Handled(t)
    BY DEF HandledOK, TypeOK
  (* The stream and its hands stay as they are, or the trade is marked. *)
  <1>4. ASSUME executed' = executed, feed' = feed, doneTrades \subseteq doneTrades',
               \A x \in Exchanges : \A t \in cur[x] : t \in cur'[x] \/ Key(t) \in doneTrades'
        PROVE  HandledOK'
    <2>1. ASSUME NEW t \in executed
          PROVE  Handled(t)'
      <3>1. Handled(t) /\ t.ex \in Exchanges
        BY <1>2, <1>3
      <3>2. On(t)' = On(t) /\ Key(t)' = Key(t)
        BY <1>4 DEF TradeEvent, Key
      <3>3. t \in cur[t.ex] => t \in cur'[t.ex] \/ Key(t) \in doneTrades'
        BY <1>4, <3>1
      <3> QED
        BY <1>4, <3>1, <3>2, <3>3 DEF Key
    <2>2. \A t \in executed' : Handled(t)'
      BY <1>4, <2>1
    <2> QED
      BY <2>2 DEF HandledOK
  <1>5. ASSUME UNCHANGED <<executed, feed, doneTrades, cur>>
        PROVE  HandledOK'
    BY <1>4, <1>5
  <1>6. CASE External
    <2>1. ASSUME NEW u \in Orders, NEW events \in Seq(Events), Report(u, events),
                 UNCHANGED <<doneTrades, cur>>,
                 \A t \in executed' : t \in executed \/ (t \in Trades /\ t.order = u
                                      /\ \E i \in DOMAIN events : events[i] = TradeEvent(t))
          PROVE  HandledOK'
      <3> DEFINE X == ExchangeOf[u]
                 s == feed[X]
      <3>1. X \in Exchanges /\ s \in Seq(Events)
        BY CollectorAssumption DEF TypeOK
      <3>2. feed'[X] = s \o events /\ \A x \in Exchanges \ {X} : feed'[x] = feed[x]
        BY <2>1, <3>1 DEF Report, TypeOK
      <3> HIDE DEF s, X
      <3>3. /\ \A i \in DOMAIN s : i \in DOMAIN (s \o events) /\ (s \o events)[i] = s[i]
            /\ \A i \in DOMAIN events : /\ i + Len(s) \in DOMAIN (s \o events)
                                        /\ (s \o events)[i + Len(s)] = events[i]
        BY <3>1, ConcatCarries
      <3>4. ASSUME NEW t \in executed', t \in executed
            PROVE  Handled(t)'
        <4>1. t \in Trades /\ Handled(t) /\ t.ex \in Exchanges
          BY <1>2, <1>3, <3>4
        <4>2. ASSUME NEW i \in DOMAIN feed[t.ex], feed[t.ex][i] = TradeEvent(t)
              PROVE  i \in DOMAIN feed'[t.ex] /\ feed'[t.ex][i] = TradeEvent(t)
          BY <3>2, <3>3, <4>1, <4>2 DEF s
        <4> QED
          BY <2>1, <4>1, <4>2 DEF TradeEvent, Key
      <3>5. ASSUME NEW t \in executed', t \notin executed
            PROVE  Handled(t)'
        <4>1. PICK i \in DOMAIN events : events[i] = TradeEvent(t)
          BY <2>1, <3>5
        <4>2. t.ex = X
          BY <2>1, <3>5, CollectorAssumption DEF X
        <4>3. i + Len(s) \in DOMAIN feed'[t.ex] /\ feed'[t.ex][i + Len(s)] = TradeEvent(t)
          BY <3>2, <3>3, <4>1, <4>2
        <4> QED
          BY <4>3 DEF TradeEvent
      <3>6. \A t \in executed' : Handled(t)'
        BY <3>4, <3>5
      <3> QED
        BY <3>6 DEF HandledOK
    <2>2. ASSUME NEW u \in Orders, ForeignOrder(u) \/ Cancel(u)
          PROVE  HandledOK'
      <3>1. PICK status \in OS!OrderStatus, traded \in BOOLEAN : Report(u, <<OrderEvent(u, status, traded)>>)
        BY <2>2 DEF ForeignOrder, Accept, Cancel, Traded, OS!OrderStatus
      <3>2. <<OrderEvent(u, status, traded)>> \in Seq(Events)
        BY OrderEventType, ShortSeq
      <3>3. UNCHANGED <<executed, doneTrades, cur>>
        BY <2>2 DEF ForeignOrder, Accept, Cancel
      <3> QED
        BY <2>1, <3>1, <3>2, <3>3
    <2>3. ASSUME NEW t \in Trades, Execute(t)
          PROVE  HandledOK'
      <3> DEFINE u == t.order
                 status == IF TradesOf(u) \subseteq executed \cup {t} THEN "Filled" ELSE "PartiallyFilled"
                 events == <<TradeEvent(t), OrderEvent(u, status, TRUE)>>
      <3>1. u \in Orders /\ status \in OS!OrderStatus
        BY CollectorAssumption DEF OS!OrderStatus
      <3>2. events \in Seq(Events)
        BY <3>1, TradeEventType, OrderEventType, ShortSeq
      <3>3. 1 \in DOMAIN events /\ events[1] = TradeEvent(t)
        OBVIOUS
      <3>4. Report(u, events) /\ executed' = executed \cup {t} /\ UNCHANGED <<doneTrades, cur>>
        BY <2>3 DEF Execute
      <3> HIDE DEF events, status
      <3> QED
        BY <2>1, <3>1, <3>2, <3>3, <3>4
    <2>4. \A x \in Exchanges : ~Disconnect(x)
      BY DEF Disconnect, TypeOK
    <2> QED
      BY <1>6, <2>2, <2>3, <2>4 DEF External
  <1>7. ASSUME NEW o \in Own, Submit(o) \/ Respond(o)
        PROVE  HandledOK'
    <2>1. CASE Submit(o)
      <3>1. o \in Orders /\ OrderEvent(o, "New", FALSE) \in Events
        BY CollectorAssumption, OrderEventType DEF OS!OrderStatus
      <3>2. feed' = [feed EXCEPT ![ExchangeOf[o]] = Append(@, OrderEvent(o, "New", FALSE))]
        BY <2>1, <3>1, ReportAppends DEF Submit, Accept
      <3>3. UNCHANGED <<executed, doneTrades, cur>>
        BY <2>1 DEF Submit, Accept
      <3>4. \A x \in Exchanges : feed[x] \in Seq(Events)
        BY DEF TypeOK
      <3>5. \A x \in Exchanges : \A i \in DOMAIN feed[x] : i \in DOMAIN feed'[x] /\ feed'[x][i] = feed[x][i]
        <4> DEFINE X == ExchangeOf[o]
                   e == OrderEvent(o, "New", FALSE)
        <4>1. X \in Exchanges /\ feed[X] \in Seq(Events) /\ e \in Events
          BY <3>1, <3>4, CollectorAssumption
        <4> HIDE DEF e
        <4>2. feed'[X] = Append(feed[X], e) /\ \A x \in Exchanges \ {X} : feed'[x] = feed[x]
          BY <3>2, <4>1 DEF TypeOK, e
        <4>3. \A i \in DOMAIN feed[X] : i \in DOMAIN Append(feed[X], e) /\ Append(feed[X], e)[i] = feed[X][i]
          BY <4>1
        <4> QED
          BY <4>2, <4>3
      <3>6. ASSUME NEW t \in executed
            PROVE  Handled(t)'
        <4>1. t \in Trades /\ Handled(t) /\ t.ex \in Exchanges
          BY <1>2, <1>3
        <4>2. On(t) => On(t)'
          BY <3>5, <4>1 DEF TradeEvent
        <4> QED
          BY <3>3, <4>1, <4>2 DEF Key
      <3>7. \A t \in executed' : Handled(t)'
        BY <3>3, <3>6
      <3> QED
        BY <3>7 DEF HandledOK
    <2>2. CASE Respond(o)
      BY <1>5, <2>2 DEF Respond, Created, ResponseLost
    <2> QED
      BY <1>7, <2>1, <2>2
  <1>8. ASSUME NEW x \in Exchanges, Deliver(x)
        PROVE  HandledOK'
    <2>1. ASSUME Receive(x), UNCHANGED <<executed, doneTrades>>,
                 \A y \in Exchanges : cur[y] \subseteq cur'[y],
                 \A t \in Trades : Head(feed[x]) = TradeEvent(t) => t \in cur'[x]
          PROVE  HandledOK'
      <3>1. feed[x] \in Seq(Events) /\ feed[x] # <<>>
        BY <2>1 DEF TypeOK, Receive
      <3>2. feed'[x] = Tail(feed[x]) /\ \A y \in Exchanges \ {x} : feed'[y] = feed[y]
        BY <2>1 DEF Receive, TypeOK
      <3> DEFINE e == Head(feed[x])
                 r == Tail(feed[x])
      <3> HIDE DEF e, r
      <3>3. \A i \in DOMAIN feed[x] : feed[x][i] = e \/ (i - 1 \in DOMAIN feed'[x] /\ feed'[x][i - 1] = feed[x][i])
        <4>1. \A i \in DOMAIN feed[x] : feed[x][i] = e \/ (i - 1 \in DOMAIN r /\ r[i - 1] = feed[x][i])
          BY <3>1, TailElements DEF e, r
        <4>2. feed'[x] = r
          BY <3>2 DEF r
        <4> QED
          BY <4>1, <4>2
      <3>4. ASSUME NEW t \in executed
            PROVE  Handled(t)'
        <4>1. t \in Trades /\ Handled(t) /\ t.ex \in Exchanges
          BY <1>2, <1>3
        <4>2. ASSUME NEW i \in DOMAIN feed[t.ex], feed[t.ex][i] = TradeEvent(t)
              PROVE  Handled(t)'
          <5>1. CASE t.ex = x
            <6>1. CASE feed[x][i] = e
              BY <2>1, <4>1, <4>2, <5>1, <6>1 DEF e
            <6>2. CASE i - 1 \in DOMAIN feed'[x] /\ feed'[x][i - 1] = feed[x][i]
              BY <4>2, <5>1, <6>2 DEF TradeEvent
            <6> QED
              BY <3>3, <4>2, <5>1, <6>1, <6>2
          <5>2. CASE t.ex # x
            BY <3>2, <4>1, <4>2, <5>2 DEF TradeEvent
          <5> QED
            BY <5>1, <5>2
        <4> QED
          BY <2>1, <4>1, <4>2 DEF Key
      <3>5. \A t \in executed' : Handled(t)'
        BY <2>1, <3>4
      <3> QED
        BY <3>5 DEF HandledOK
    <2>2. CASE ReceiveOrder(x)
      <3>1. Receive(x) /\ Head(feed[x]).kind = "order" /\ UNCHANGED <<executed, doneTrades, cur>>
        BY <2>2 DEF ReceiveOrder, Receive
      <3>2. \A t \in Trades : Head(feed[x]) # TradeEvent(t)
        BY <3>1 DEF TradeEvent
      <3> QED
        BY <2>1, <3>1, <3>2
    <2>3. CASE RemoveFilledOrder(x)
      BY <1>5, <2>3 DEF RemoveFilledOrder
    <2>4. CASE ReceiveTrade(x)
      <3>1. /\ Receive(x) /\ pc[x] = "idle" /\ UNCHANGED <<executed, doneTrades>>
            /\ cur' = [cur EXCEPT ![x] = {Head(feed[x]).trade}]
        BY <2>4 DEF ReceiveTrade, Receive
      <3>2. cur[x] = {}
        BY <1>1, <3>1 DEF ControlInv, CurOK, Holding
      <3>3. \A y \in Exchanges : cur[y] \subseteq cur'[y]
        BY <1>1, <3>1, <3>2 DEF TypeOK
      <3>4. cur'[x] = {Head(feed[x]).trade}
        BY <1>1, <3>1 DEF TypeOK
      <3>5. \A t \in Trades : Head(feed[x]) = TradeEvent(t) => t \in cur'[x]
        BY <3>4 DEF TradeEvent
      <3> QED
        BY <2>1, <3>1, <3>3, <3>5
    <2>5. ~QueueTrade(x)
      BY DEF QueueTrade
    <2> QED
      BY <1>8, <2>2, <2>3, <2>4, <2>5 DEF Deliver
  (* A goroutine that is not a stream's takes or gives up a trade. *)
  <1>9. ASSUME NEW p \in Runners \cup Recoverers, NEW ts, cur' = [cur EXCEPT ![p] = ts],
               UNCHANGED <<executed, feed, doneTrades>>
        PROVE  HandledOK'
    <2>1. \A x \in Exchanges : cur'[x] = cur[x]
      BY <1>1, <1>9 DEF TypeOK
    <2> QED
      BY <1>4, <1>9, <2>1
  <1>10. ASSUME NEW p \in Runners, Tick(p) \/ Dequeue(p)
         PROVE  HandledOK'
    BY <1>5, <1>9, <1>10 DEF Tick, Dequeue
  <1>11. ASSUME NEW p \in Recoverers, Scan(p) \/ StoreAgain(p) \/ \E x \in Exchanges : TickScan(p, x)
         PROVE  HandledOK'
    <2>1. CASE RecoverTrade(p)
      <3>1. PICK t \in todo[p] : cur' = [cur EXCEPT ![p] = {t}] /\ UNCHANGED <<executed, feed, doneTrades>>
        BY <2>1 DEF RecoverTrade
      <3>2. p \in Runners \cup Recoverers
        OBVIOUS
      <3> QED
        BY <1>9, <3>1, <3>2
    <2>2. CASE RecoverEnd(p) \/ \E x \in Exchanges : TickScan(p, x)
      BY <1>5, <2>2 DEF RecoverEnd, TickScan, Recover, RecoverFails
    <2>3. CASE StoreAgain(p)
      BY <1>9, <2>3 DEF StoreAgain
    <2> QED
      BY <1>11, <2>1, <2>2, <2>3 DEF Scan
  <1>12. ASSUME NEW p \in Threads, Lock(p)
         PROVE  HandledOK'
    <2>1. CASE CheckDone(p)
      <3>1. PICK u \in Trades : cur[p] = {u} /\ Key(u) \in doneTrades
        BY <2>1 DEF CheckDone, NotDone, TypeOK, ControlInv, CurOK, Holding
      <3>2. UNCHANGED <<executed, feed, doneTrades>> /\ \A q \in Threads \ {p} : cur'[q] = cur[q]
        BY <2>1 DEF CheckDone, Refused, TypeOK
      <3> QED
        BY <1>1, <1>4, <3>1, <3>2
    <2>2. CASE CheckKnown(p)
      <3>1. PICK u \in cur[p] : MarkDone(u)
        BY <2>2 DEF CheckKnown
      <3>2. u \in Trades /\ cur[p] = {u}
        BY <2>2, <3>1 DEF CheckKnown, TypeOK, ControlInv, CurOK, Holding
      <3>3. UNCHANGED <<executed, feed>> /\ \A q \in Threads \ {p} : cur'[q] = cur[q]
        BY <2>2 DEF CheckKnown, TypeOK
      <3>4. doneTrades \subseteq doneTrades' /\ Key(u) \in doneTrades'
        BY <3>1 DEF MarkDone
      <3> QED
        BY <1>1, <1>4, <3>2, <3>3, <3>4
    <2>3. CASE CheckUnknown(p) \/ FilterBegin(p)
      BY <1>5, <2>3 DEF CheckUnknown, FilterBegin
    <2> QED
      BY <1>12, <2>1, <2>2, <2>3 DEF Lock
  <1>13. ASSUME NEW p \in Threads, Work(p)
         PROVE  HandledOK'
    <2>1. CASE Store(p)
      <3>1. p \notin Exchanges
        BY <2>1 DEF Store, HandsOK
      <3>2. UNCHANGED <<executed, feed, doneTrades>> /\ \A q \in Threads \ {p} : cur'[q] = cur[q]
        BY <2>1 DEF Store, Refused, TypeOK
      <3> QED
        BY <1>1, <1>4, <3>1, <3>2
    <2>2. CASE VisitDone(p) \/ VisitKnown(p) \/ VisitUnknown(p)
      <3>1. UNCHANGED <<executed, feed, cur>> /\ doneTrades \subseteq doneTrades'
        BY <2>2 DEF VisitDone, VisitKnown, VisitUnknown, MarkDone
      <3> QED
        BY <1>4, <3>1
    <2>3. CASE FilterEnd(p) \/ AddTrade(p) \/ EmitPositionUpdate(p)
      BY <1>5, <2>3 DEF FilterEnd, AddTrade, EmitPositionUpdate
    <2> QED
      BY <1>13, <2>1, <2>2, <2>3 DEF Work
  <1>14. CASE UNCHANGED vars
    BY <1>5, <1>14 DEF vars
  <1> QED
    BY <1>6, <1>7, <1>8, <1>10, <1>11, <1>12, <1>13, <1>14 DEF Next

(* Although filled and cancelled orders leave the store, a stream bound directly that
   reports a trade before the update closing its order books every trade
   (OrderStore.handleOrderUpdate, TradeCollector.BindStream). *)
THEOREM NoneMissedInvariant == Spec => []NoneMissedByRemoval
  <1>1. CASE ~(AddOrderUpdate /\ TradeFirst /\ Background = {})
    <2>1. NoneMissedByRemoval
      BY <1>1 DEF NoneMissedByRemoval
    <2> QED
      BY <2>1, PTL
  <1>2. CASE AddOrderUpdate /\ TradeFirst /\ Background = {}
    <2> DEFINE Inv == PlacesOK /\ UndroppedOK /\ AbsorbedOK
    <2>1. Init => Inv
      <3> SUFFICES ASSUME Init
                   PROVE  Inv
        OBVIOUS
      <3>1. PlacesOK /\ AbsorbedOK
        BY DEF Init, PlacesOK, AbsorbedOK
      <3>2. OrdersOK
        BY CollectorAssumption DEF Init, OrdersOK, InOrder, Open
      <3>3. HandsOK /\ HandledOK
        BY DEF Init, HandsOK, HandledOK, Threads
      <3> QED
        BY <3>1, <3>2, <3>3 DEF UndroppedOK
    <2>2. TypeOK /\ ControlInv /\ BookedOnce /\ Inv /\ [Next]_vars => Inv'
      <3> SUFFICES ASSUME TypeOK, ControlInv, BookedOnce, Inv, [Next]_vars
                   PROVE  Inv'
        OBVIOUS
      <3>1. PlacesOK' /\ AbsorbedOK'
        BY NextPlaces, NextAbsorbed
      <3>2. ASSUME drops' = 0
            PROVE  (OrdersOK /\ HandsOK /\ HandledOK)'
        <4>1. OrdersOK /\ HandsOK /\ HandledOK
          BY <3>2, NextExecuted DEF UndroppedOK
        <4> QED
          BY <1>2, <3>2, <4>1, NextOrders, NextHands, NextHandled
      <3> QED
        BY <3>1, <3>2 DEF UndroppedOK
    <2>3. TypeOK /\ ControlInv /\ Inv => NoneMissedByRemoval
      <3> SUFFICES ASSUME TypeOK, ControlInv, Inv, Quiet, drops = 0, NEW t \in executed
                   PROVE  applied[t] = 1
        BY DEF NoneMissedByRemoval
      <3>1. t \in Trades /\ t.ex \in Exchanges /\ t.ex \in Threads
        BY CollectorAssumption DEF TypeOK, Threads
      <3>2. \A p \in Threads : cur[p] = {} /\ work[p] = {}
        BY DEF Quiet, ControlInv, CurOK, WorkOK, Holding
      <3>3. feed[t.ex] = <<>>
        BY <3>1 DEF Quiet
      <3>4. Key(t) \in doneTrades
        BY <3>1, <3>2, <3>3 DEF UndroppedOK, HandledOK
      <3> QED
        BY <3>1, <3>2, <3>4 DEF AbsorbedOK
    <2> QED
      BY <2>1, <2>2, <2>3, TypeCorrect, ControlInvariant, BookedOnceInvariant, PTL DEF Spec
  <1> QED
    BY <1>1, <1>2

=============================================================================
