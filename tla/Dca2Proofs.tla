------------------------------ MODULE Dca2Proofs ------------------------------
(***************************************************************************)
(* Theorems about dca2, for any number of orders, rounds and failed        *)
(* submissions: its rounds end settled, its take-profit order is alone,    *)
(* and a restart finds what is held.  The reason is the order of events in *)
(* a round: every open order is followed until the cancelling has closed   *)
(* it, so nothing can be traded between the cancelling and the take-profit *)
(* order, and until a K-line signal is stale nothing but the fill of this  *)
(* order ends the round.  The rounds before the current one therefore left *)
(* nothing, and the start after a crash finds what is held in the orders   *)
(* of the current one.                                                     *)
(***************************************************************************)
EXTENDS Dca2, SequenceTheorems, Lemmas

-----------------------------------------------------------------------------
(***************************************************************************)
(* dca2                                                                    *)
(***************************************************************************)
(* The profit statistics, and an open order as the start was told of it. *)
Stats == [from : Nat, investment : Int, round : Nat, current : Int, total : Int]

Opened == [id : Nat, executed : Nat]

OrderTypes ==
    /\ orders \in Seq(Order)
    /\ feed \in Seq(Update) /\ \A n \in DOMAIN feed : feed[n].order \in IDs

ControlTypes ==
    /\ state \in State /\ out \in State
    /\ nextStateC \in Seq(State) /\ Len(nextStateC) <= 1
    /\ pc \in {"off", "recover", "select", "send", "place", "cancel", "sell", "failed", "down"}
    /\ ticked \in BOOLEAN /\ left \in 0 .. MaxOrderCount /\ failed \in BOOLEAN
    /\ quantity \in Nat /\ kline \in BOOLEAN

BookTypes ==
    /\ active \subseteq IDs /\ store \subseteq IDs
    /\ DOMAIN waiting \subseteq IDs /\ (\A i \in DOMAIN waiting : waiting[i] \in Nat)
    /\ base \in Int

StatsTypes ==
    /\ stats \in Stats /\ stats.round <= MaxRounds
    /\ saved \in Stats /\ saved.round <= MaxRounds

OpenedTypes == opened \subseteq Opened /\ OpenedIDs \subseteq IDs

BoundTypes ==
    /\ stale \in BOOLEAN /\ late \in BOOLEAN
    /\ faults \in 0 .. MaxFaults /\ crashes \in 0 .. MaxCrashes

Types == OrderTypes /\ ControlTypes /\ BookTypes /\ StatsTypes /\ OpenedTypes /\ BoundTypes

(* What the state goroutine does belongs to its state, and before the state is
   recovered nothing is followed and nothing signalled. *)
Stages ==
    /\ pc \in {"off", "recover", "failed", "down"} <=> state = "None"
    /\ pc = "place" => state = "PositionOpening"
    /\ pc = "cancel" => state = "OpenPositionOrdersCancelling"
    /\ pc = "sell" => state = "OpenPositionOrdersCancelled"
    /\ pc = "send" => state \in Triggered
    /\ state = "None" => active = {} /\ nextStateC = <<>> /\ ~kline
    /\ state = "OpenPositionOrdersCancelled" => active = {}

LastID == Len(orders)

LastIsBuy == LastID >= 1 /\ orders[LastID].side = "BUY"

LastIsSell == LastID >= 1 /\ orders[LastID].side = "SELL"

(* A take-profit order follows a buy order, and is the last one while it is
   open, *)
SellsLast ==
    \A i \in Of("SELL") :
        /\ i > 1 /\ orders[i - 1].side = "BUY"
        /\ IsOpen(i) => i = LastID /\ state \in {"None", "TakeProfitReady"}

(* so that the last one is a buy order when the next one may be placed. *)
BuysLast ==
    \/ state \in {"OpenPositionReady", "OpenPositionOrderFilled", "OpenPositionOrdersCancelling",
                  "OpenPositionOrdersCancelled"}
    \/ pc = "place" /\ ~failed /\ left < MaxOrderCount
    => LastIsBuy

(* As long as no signal was stale, only the end of the take-profit order is
   signalled when it is awaited, *)
SellAwaited ==
    state = "TakeProfitReady" =>
        /\ LastIsSell
        /\ active \subseteq {LastID}
        /\ IsOpen(LastID) => LastID \in active /\ nextStateC = <<>>

(* nothing is reported to be filled that is open, *)
FilledIsClosed == \A n \in DOMAIN feed : feed[n].filled => ~IsOpen(feed[n].order)

(* and what is open during the recovery was open before it. *)
OpenIsOpened == pc = "recover" => \A i \in IDs : IsOpen(i) => i \in OpenedIDs

SellsInv == Types /\ Stages /\ SellsLast /\ BuysLast /\ SellAwaited /\ FilledIsClosed /\ OpenIsOpened

-----------------------------------------------------------------------------
(* Before the first crash: nothing is there before the state is recovered,
   every order is known, *)
Fresh ==
    /\ pc \notin {"down", "failed"}
    /\ state = "None" => /\ orders = <<>> /\ feed = <<>> /\ opened = {}
                         /\ stats = [from |-> 0, investment |-> 0, round |-> 0, current |-> 0, total |-> 0]
    /\ store = IDs /\ DOMAIN waiting = {}

(* every open order is followed, and none is open between the cancelling and
   the next round but the take-profit order. *)
Following ==
    /\ \A i \in IDs : IsOpen(i) => i \in active
    /\ state \in {"WaitToOpenPosition", "OpenPositionOrdersCancelled"} => \A i \in IDs : ~IsOpen(i)
    /\ state = "TakeProfitReady" => \A i \in IDs : IsOpen(i) => i = LastID

(* What the fills under way will add to the position. *)
Flow == SumFunctionOnSet([n \in DOMAIN feed |-> Change(feed[n].order, feed[n].qty)], DOMAIN feed)

(* While no take-profit order was placed too early, the position and the fills
   under way are what was bought and not sold, *)
Counted == base + Flow = Executed("BUY") - Executed("SELL")

(* a round begins without either, and buys, *)
Buying ==
    /\ state # "TakeProfitReady" => base >= 0 /\ \A n \in DOMAIN feed : orders[feed[n].order].side = "BUY"
    /\ state = "WaitToOpenPosition" => base = 0 /\ feed = <<>>

(* and the take-profit order sells it all: it is open, or its fill is under
   way, or it was handled. *)
Selling ==
    state = "TakeProfitReady" =>
        \/ /\ IsOpen(LastID) /\ orders[LastID].qty = base /\ orders[LastID].executed = 0
           /\ feed = <<>> /\ nextStateC = <<>>
        \/ /\ ~IsOpen(LastID) /\ nextStateC = <<>> /\ LastID \in active
           /\ feed = <<[order |-> LastID, qty |-> base, filled |-> TRUE]>>
        \/ ~IsOpen(LastID) /\ base = 0 /\ feed = <<>>

(* The profit: the orders before stats.from were counted, in every round. *)
Accounted ==
    /\ stats.investment = stats.total
    /\ stats.total = Sum({i \in IDs : i < stats.from})
    /\ \A i \in IDs : i < stats.from => ~IsOpen(i)
    /\ state \notin {"None", "WaitToOpenPosition"} => stats.current = 0
    /\ stats.from <= LastID + 1
    /\ state = "WaitToOpenPosition" => stats.from = LastID + 1
    /\ state = "TakeProfitReady" => stats.from <= LastID

Rounds ==
    crashes = 0 =>
        /\ Fresh
        /\ Following
        /\ ~late => Counted /\ Buying /\ Selling
        /\ faults = 0 => Accounted

-----------------------------------------------------------------------------
LEMMA OrdersAre ==
    ASSUME Types
    PROVE  /\ IDs = 1 .. LastID /\ LastID \in Nat /\ IsFiniteSet(IDs)
           /\ \A i \in IDs : orders[i] \in Order /\ orders[i].side \in {"BUY", "SELL"} /\ i \in Nat
  <1>1. orders \in Seq(Order)
    BY DEF Types, OrderTypes
  <1>2. IDs = 1 .. LastID /\ LastID \in Nat /\ \A i \in 1 .. LastID : orders[i] \in Order
    BY <1>1 DEF IDs, LastID
  <1>3. \A o \in Order : o.side \in {"BUY", "SELL"}
    BY DEF Order
  <1> QED
    BY <1>2, <1>3, FS_Interval

(* A new order is the last one. *)
LEMMA OrdersGrow ==
    ASSUME Types, NEW o \in Order, orders' = Append(orders, o)
    PROVE  /\ LastID' = LastID + 1 /\ IDs' = IDs \cup {LastID + 1} /\ LastID + 1 \notin IDs
           /\ orders' \in Seq(Order)
           /\ orders'[LastID + 1] = o /\ \A i \in IDs : orders'[i] = orders[i]
  <1>1. orders \in Seq(Order)
    BY DEF Types, OrderTypes
  <1>2. /\ orders' \in Seq(Order) /\ Len(orders') = Len(orders) + 1
        /\ orders'[Len(orders) + 1] = o /\ \A i \in 1 .. Len(orders) : orders'[i] = orders[i]
    BY <1>1
  <1>3. IDs = 1 .. LastID /\ LastID \in Nat
    BY OrdersAre
  <1>4. IDs' = 1 .. LastID + 1
    BY <1>2 DEF IDs, LastID
  <1> QED
    BY <1>2, <1>3, <1>4 DEF LastID

(* An order is changed in its place. *)
LEMMA OrdersChange ==
    ASSUME Types, NEW i \in IDs, NEW o \in Order, orders' = [orders EXCEPT ![i] = o]
    PROVE  /\ LastID' = LastID /\ IDs' = IDs /\ orders' \in Seq(Order)
           /\ orders'[i] = o /\ \A j \in IDs : j # i => orders'[j] = orders[j]
  <1>1. orders \in Seq(Order) /\ i \in 1 .. Len(orders)
    BY OrdersAre DEF Types, OrderTypes, LastID
  <1> QED
    BY <1>1 DEF IDs, LastID

LEMMA TradedIs ==
    ASSUME Types, NEW i \in IDs, NEW qty \in Nat
    PROVE  \E o \in Order :
              /\ Traded(i, qty) = [orders EXCEPT ![i] = o]
              /\ o.side = orders[i].side /\ o.qty = orders[i].qty
              /\ o.executed = orders[i].executed + qty
              /\ o.status = IF o.executed = o.qty THEN "Filled" ELSE "New"
  <1> DEFINE e == orders[i].executed + qty
             s == IF e = orders[i].qty THEN "Filled" ELSE "New"
             o == [orders[i] EXCEPT !.executed = e, !.status = s]
  <1>1. orders[i] \in Order
    BY OrdersAre
  <1>2. e \in Nat /\ s \in {"Filled", "New"}
    BY <1>1 DEF Order
  <1>3. Traded(i, qty) = [orders EXCEPT ![i] = o]
    BY DEF Traded
  <1> HIDE DEF e, s
  <1>4. \A r \in Order : LET c == [r EXCEPT !.executed = e, !.status = s]
                         IN  /\ c \in Order /\ c.side = r.side /\ c.qty = r.qty
                             /\ c.executed = e /\ c.status = s
    BY <1>2 DEF Order
  <1>5. o \in Order /\ o.side = orders[i].side /\ o.qty = orders[i].qty /\ o.executed = e /\ o.status = s
    BY <1>1, <1>4
  <1> HIDE DEF o
  <1> QED
    BY <1>3, <1>5 DEF e, s

LEMMA CanceledIs ==
    ASSUME Types, NEW i \in IDs
    PROVE  \E o \in Order :
              /\ [orders EXCEPT ![i].status = "Canceled"] = [orders EXCEPT ![i] = o]
              /\ o.side = orders[i].side /\ o.qty = orders[i].qty
              /\ o.executed = orders[i].executed /\ o.status = "Canceled"
  <1> DEFINE o == [orders[i] EXCEPT !.status = "Canceled"]
  <1>1. orders[i] \in Order
    BY OrdersAre
  <1>2. \A r \in Order : LET c == [r EXCEPT !.status = "Canceled"]
                         IN  /\ c \in Order /\ c.side = r.side /\ c.qty = r.qty
                             /\ c.executed = r.executed /\ c.status = "Canceled"
    BY DEF Order
  <1> QED
    BY <1>1, <1>2

LEMMA EmitType ==
    ASSUME nextStateC \in Seq(State), Len(nextStateC) <= 1, NEW s \in State, Emit(s)
    PROVE  nextStateC' \in Seq(State) /\ Len(nextStateC') <= 1
  BY DEF Emit

(* The fills under way. *)
LEMMA FeedParts ==
    ASSUME Types, feed # <<>>
    PROVE  /\ Head(feed) = feed[1] /\ 1 \in DOMAIN feed /\ Head(feed) \in Update
           /\ Head(feed).order \in IDs
           /\ Tail(feed) \in Seq(Update)
           /\ \A n \in DOMAIN Tail(feed) : n + 1 \in DOMAIN feed /\ Tail(feed)[n] = feed[n + 1]
  <1>1. feed \in Seq(Update) /\ \A n \in DOMAIN feed : feed[n].order \in IDs
    BY DEF Types, OrderTypes
  <1>2. Len(feed) \in Nat \ {0} /\ DOMAIN feed = 1 .. Len(feed)
    BY <1>1, EmptySeq
  <1>3. /\ Tail(feed) \in Seq(Update) /\ Len(Tail(feed)) = Len(feed) - 1
        /\ \A n \in 1 .. Len(feed) - 1 : Tail(feed)[n] = feed[n + 1]
    BY <1>1, <1>2
  <1>4. DOMAIN Tail(feed) = 1 .. Len(feed) - 1
    BY <1>3
  <1> QED
    BY <1>1, <1>2, <1>3, <1>4

LEMMA FeedGrows ==
    ASSUME Types, NEW u \in Update, feed' = Append(feed, u)
    PROVE  /\ feed' \in Seq(Update) /\ DOMAIN feed' = DOMAIN feed \cup {Len(feed) + 1}
           /\ Len(feed) \in Nat /\ Len(feed) + 1 \notin DOMAIN feed
           /\ feed'[Len(feed) + 1] = u /\ \A n \in DOMAIN feed : feed'[n] = feed[n]
  <1>1. feed \in Seq(Update) /\ DOMAIN feed = 1 .. Len(feed) /\ Len(feed) \in Nat
    BY DEF Types, OrderTypes
  <1>2. /\ feed' \in Seq(Update) /\ Len(feed') = Len(feed) + 1
        /\ feed'[Len(feed) + 1] = u /\ \A n \in 1 .. Len(feed) : feed'[n] = feed[n]
    BY <1>1
  <1>3. DOMAIN feed' = 1 .. Len(feed) + 1
    BY <1>2
  <1> QED
    BY <1>1, <1>2, <1>3

-----------------------------------------------------------------------------
(***************************************************************************)
(* Types                                                                   *)
(***************************************************************************)
(* Every step but the stuttering. *)
FillStep == \E i \in IDs : Fill(i)

CancelStep == \E i \in IDs : CancelOne(i)

FoundStep == \E i \in IDs : FoundFilled(i)

(* The steps of the state goroutine, the K-lines and the start that change
   only what controls them, and the active orders. *)
ControlStep ==
    \/ OnKLine \/ KLineEmits \/ Ticks \/ Tick \/ Send \/ TooEarly \/ BeginPlacing \/ PlaceFails
    \/ OrderFilled \/ TargetReached \/ BeginCancelling \/ FoundStep \/ Cancelled \/ BeginSelling
    \/ RecoverFails \/ Restart

LEMMA NextIs ==
    ASSUME Next
    PROVE  \/ FillStep \/ HandleFill \/ ControlStep \/ OpenRound \/ Place \/ Placed \/ CancelStep
           \/ PlaceTakeProfit \/ PlaceTakeProfitFails \/ CloseRound
           \/ QueryOpenOrders \/ Recover \/ Crash
  BY DEF Next, RunState, Placing, Cancelling, TakingProfit, FillStep, CancelStep, FoundStep, ControlStep

(* What such a step leaves alone. *)
LEMMA ControlFrame ==
    ASSUME ControlStep
    PROVE  /\ orders' = orders /\ feed' = feed /\ store' = store /\ waiting' = waiting /\ base' = base
           /\ stats' = stats /\ saved' = saved /\ opened' = opened /\ late' = late /\ crashes' = crashes
           /\ stale' = stale \/ (stale' \in BOOLEAN /\ (stale => stale'))
           /\ \/ faults' = faults
              \/ CanFail /\ faults' = faults + 1
           /\ active' = active \/ active' = {} \/ \E i \in IDs : active' = active \ {i}
  <1> USE DEF exchangeVars, stateVars, loop, work, bookVars, statsVars, bounds, Receive
  <1>1. CASE OnKLine \/ Ticks \/ Tick \/ Send \/ TooEarly \/ BeginPlacing \/ BeginSelling
    BY <1>1 DEF OnKLine, Ticks, Tick, Send, TooEarly, BeginPlacing, BeginSelling
  <1>5. CASE KLineEmits
    BY <1>5 DEF KLineEmits
  <1>2. CASE PlaceFails
    BY <1>2 DEF PlaceFails
  <1>3. CASE OrderFilled \/ TargetReached \/ BeginCancelling \/ Cancelled \/ RecoverFails \/ Restart
    BY <1>3 DEF OrderFilled, TargetReached, BeginCancelling, Cancelled, RecoverFails, Restart
  <1>4. CASE FoundStep
    BY <1>4 DEF FoundStep, FoundFilled
  <1> QED
    BY <1>1, <1>2, <1>3, <1>4, <1>5 DEF ControlStep

LEMMA ControlTypesControl ==
    ASSUME Parameters, Types, ControlStep
    PROVE  ControlTypes'
  <1> USE DEF exchangeVars, stateVars, loop, work, bookVars, statsVars, bounds
  <1>0. ControlTypes
    BY DEF Types
  <1>1. \A s \in Triggered : StateTransition[s] \in State
    BY DEF StateTransition, Triggered, State
  <1>2. \A i \in IDs : FilledState(i) \in State
    BY DEF FilledState, State
  <1>3. "OpenPositionOrdersCancelling" \in State
    BY DEF State
  <1> DEFINE None == <<>>
  <1>e. None \in Seq(State) /\ Len(None) <= 1
    BY EmptySeq
  <1> HIDE DEF None
  <1>4. CASE OnKLine
    BY <1>0, <1>4 DEF OnKLine, ControlTypes
  <1>5. CASE KLineEmits
    <2>1. nextStateC' \in Seq(State) /\ Len(nextStateC') <= 1
      BY <1>0, <1>3, <1>5, EmitType DEF KLineEmits, ControlTypes
    <2> QED
      BY <1>0, <1>5, <2>1 DEF KLineEmits, ControlTypes
  <1>6. CASE Ticks
    BY <1>0, <1>6 DEF Ticks, ControlTypes
  <1>7. CASE Tick
    BY <1>0, <1>1, <1>7 DEF Tick, ControlTypes
  <1>8. CASE Send
    <2>1. nextStateC' = <<out>> /\ "None" \in State
      BY <1>8 DEF Send, State
    <2>2. nextStateC' \in Seq(State) /\ Len(nextStateC') <= 1
      BY <1>0, <2>1 DEF ControlTypes
    <2> QED
      BY <1>0, <1>8, <2>1, <2>2 DEF Send, ControlTypes
  <1>9. CASE TooEarly \/ OrderFilled \/ BeginCancelling
    BY <1>0, <1>e, <1>9 DEF None, TooEarly, OrderFilled, BeginCancelling, Receive, ControlTypes, State
  <1>10. CASE BeginPlacing
    <2>1. /\ nextStateC' = None /\ pc' = "place" /\ left' = MaxOrderCount /\ failed' = FALSE
          /\ UNCHANGED <<state, out, ticked, quantity, kline>>
      BY <1>10 DEF BeginPlacing, Receive, None
    <2>2. MaxOrderCount \in 0 .. MaxOrderCount
      BY DEF Parameters
    <2> QED
      BY <1>0, <1>e, <2>1, <2>2 DEF ControlTypes
  <1>11. CASE PlaceFails
    BY <1>0, <1>11 DEF PlaceFails, ControlTypes, Parameters
  <1>12. CASE TargetReached
    BY <1>0, <1>e, <1>12 DEF None, TargetReached, Receive, ControlTypes, State
  <1>13. CASE Cancelled
    BY <1>0, <1>13 DEF Cancelled, ControlTypes, State
  <1>14. CASE FoundStep
    <2>1. PICK i \in IDs : FoundFilled(i)
      BY <1>14 DEF FoundStep
    <2>2. nextStateC' \in Seq(State) /\ Len(nextStateC') <= 1
      BY <1>0, <1>2, <2>1, EmitType DEF FoundFilled, ControlTypes
    <2> QED
      BY <1>0, <2>1, <2>2 DEF FoundFilled, ControlTypes
  <1>15. CASE RecoverFails \/ Restart
    BY <1>0, <1>15 DEF RecoverFails, Restart, ControlTypes
  <1>16. CASE BeginSelling
    <2>1. /\ nextStateC' = None /\ pc' = "sell" /\ quantity' = Absolute(base)
          /\ UNCHANGED <<state, out, ticked, left, failed, kline>>
      BY <1>16 DEF BeginSelling, Receive, None
    <2>2. Absolute(base) \in Nat
      BY DEF Absolute, Types, BookTypes
    <2> QED
      BY <1>0, <1>e, <2>1, <2>2 DEF ControlTypes
  <1> QED
    BY <1>4, <1>5, <1>6, <1>7, <1>8, <1>9, <1>10, <1>11, <1>12, <1>13, <1>14, <1>15, <1>16 DEF ControlStep

LEMMA ControlStepTypes ==
    ASSUME Parameters, Types, ControlStep
    PROVE  Types'
  <1>1. ControlTypes'
    BY ControlTypesControl
  <1>2. /\ orders' = orders /\ feed' = feed /\ store' = store /\ waiting' = waiting /\ base' = base
        /\ stats' = stats /\ saved' = saved /\ opened' = opened /\ late' = late /\ crashes' = crashes
        /\ stale' = stale \/ (stale' \in BOOLEAN /\ (stale => stale'))
        /\ \/ faults' = faults
           \/ CanFail /\ faults' = faults + 1
        /\ active' \subseteq active
    BY ControlFrame
  <1>3. OrderTypes' /\ BookTypes' /\ StatsTypes' /\ OpenedTypes'
    BY <1>2 DEF Types, OrderTypes, BookTypes, StatsTypes, OpenedTypes, OpenedIDs, IDs
  <1>5. stale' \in BOOLEAN
    BY <1>2 DEF Types, BoundTypes
  <1>4. BoundTypes'
    BY <1>2, <1>5 DEF Types, BoundTypes, Parameters, CanFail
  <1> QED
    BY <1>1, <1>3, <1>4 DEF Types

-----------------------------------------------------------------------------
LEMMA ChangeType ==
    ASSUME NEW i, NEW q \in Int
    PROVE  Change(i, q) \in Int
  BY DEF Change

LEMMA ProcessTypes ==
    ASSUME Types, NEW ids, Process(ids)
    PROVE  /\ base' \in Int /\ DOMAIN waiting' \subseteq DOMAIN waiting
           /\ \A i \in DOMAIN waiting' : waiting'[i] \in Nat
  <1> DEFINE f == [i \in DOMAIN waiting |-> Change(i, waiting[i])]
             S == DOMAIN waiting \cap ids
  <1>1. /\ base \in Int /\ DOMAIN waiting \subseteq IDs /\ \A i \in DOMAIN waiting : waiting[i] \in Nat
    BY DEF Types, BookTypes
  <1>2. IsFiniteSet(S)
    BY <1>1, OrdersAre, FS_Subset
  <1>3. \A i \in S : f[i] \in Int
    BY <1>1, ChangeType
  <1>4. SumFunctionOnSet(f, S) \in Int
    <2> HIDE DEF f, S
    <2> QED
      BY <1>2, <1>3, SumType
  <1>5. base' = base + SumFunctionOnSet(f, S)
    BY DEF Process
  <1>6. DOMAIN waiting' = DOMAIN waiting \ ids /\ \A i \in DOMAIN waiting' : waiting'[i] = waiting[i]
    BY DEF Process, Restrict
  <1> HIDE DEF f, S
  <1> QED
    BY <1>1, <1>4, <1>5, <1>6

LEMMA SumOfTypes ==
    ASSUME Types, NEW ids \in SUBSET IDs
    PROVE  /\ IsFiniteSet(ids)
           /\ \A i \in IDs : Value(i) \in Int /\ orders[i].executed \in Nat
           /\ Sum(ids) \in Int
           /\ SumFunctionOnSet([i \in IDs |-> orders[i].executed], ids) \in Int
           /\ SumFunctionOnSet([i \in IDs |-> Change(i, orders[i].executed)], ids) \in Int
  <1> DEFINE f == [i \in IDs |-> Value(i)]
             g == [i \in IDs |-> orders[i].executed]
             h == [i \in IDs |-> Change(i, orders[i].executed)]
  <1>1. IsFiniteSet(ids)
    BY OrdersAre, FS_Subset
  <1>2. \A i \in IDs : orders[i].executed \in Nat
    BY OrdersAre DEF Order
  <1>3. \A i \in IDs : Value(i) \in Int
    BY <1>2 DEF Value
  <1>4. \A i \in ids : f[i] \in Int /\ g[i] \in Int /\ h[i] \in Int
    BY <1>2, <1>3, ChangeType
  <1>5. SumFunctionOnSet(f, ids) \in Int /\ SumFunctionOnSet(g, ids) \in Int /\ SumFunctionOnSet(h, ids) \in Int
    <2> HIDE DEF f, g, h
    <2> QED
      BY <1>1, <1>4, SumType
  <1> QED
    BY <1>1, <1>2, <1>3, <1>5 DEF Sum

LEMMA MaxIs ==
    ASSUME NEW b \in Nat, NEW S \in SUBSET (0 .. b), S # {}
    PROVE  Max(S) \in S /\ \A m \in S : m <= Max(S)
  <1>1. PICK n \in S : \A m \in S : m <= n
    BY GreatestNat
  <1>2. \A m \in S : n >= m
    BY <1>1
  <1>3. Max(S) \in S /\ \A m \in S : Max(S) >= m
    BY <1>2 DEF Max
  <1> QED
    BY <1>3

LEMMA FromNextIs ==
    ASSUME Types, NEW ids \in SUBSET IDs
    PROVE  /\ FromNext(ids) \in Nat
           /\ \E m \in ids \cup {stats.from} : FromNext(ids) = m + 1 /\ \A i \in ids \cup {stats.from} : i <= m
  <1> DEFINE S == ids \cup {stats.from}
             b == LastID + stats.from
  <1>1. stats.from \in Nat /\ LastID \in Nat /\ IDs = 1 .. LastID
    BY OrdersAre DEF Types, StatsTypes, Stats
  <1>2. S \in SUBSET (0 .. b) /\ S # {} /\ b \in Nat
    <2>1. b \in Nat /\ stats.from \in 0 .. b
      BY <1>1
    <2>2. ids \subseteq 0 .. b
      BY <1>1
    <2> QED
      BY <2>1, <2>2
  <1>3. Max(S) \in S /\ \A m \in S : m <= Max(S)
    <2> HIDE DEF S, b
    <2> QED
      BY <1>2, MaxIs
  <1>4. Max(S) \in Nat
    BY <1>2, <1>3
  <1> QED
    BY <1>3, <1>4 DEF FromNext

LEMMA CalculateTypes ==
    ASSUME Parameters, Types, CalculateProfit
    PROVE  /\ StatsTypes' /\ saved' = stats'
           /\ \/ stats' = Calculated /\ faults' = faults
              \/ CanFail /\ faults' = faults + 1
  <1>1. Closed \in SUBSET IDs
    BY DEF Closed
  <1>2. FromNext(Closed) \in Nat /\ Sum(Closed) \in Int
    BY <1>1, FromNextIs, SumOfTypes
  <1>3. stats \in Stats /\ stats.round <= MaxRounds
    BY DEF Types, StatsTypes
  <1>5. stats.current \in Int /\ stats.total \in Int /\ stats.investment \in Int
    BY <1>3 DEF Stats
  <1>6. saved' = stats'
    BY DEF CalculateProfit
  <1>7. CASE stats' = Calculated /\ UNCHANGED faults
    <2>1. stats' \in Stats /\ stats'.round = stats.round
      <3> DEFINE c == stats.current + Sum(Closed)
                 t == stats.total + Sum(Closed)
                 v == stats.investment + stats.current + Sum(Closed)
      <3>1. c \in Int /\ t \in Int /\ v \in Int
        BY <1>2, <1>5
      <3>2. stats' = [stats EXCEPT !.from = FromNext(Closed), !.current = c, !.total = t, !.investment = v]
        BY <1>7 DEF Calculated
      <3> HIDE DEF c, t, v
      <3>3. stats' \in Stats
        BY <1>2, <1>3, <3>1, <3>2 DEF Stats
      <3>4. stats'.round = stats.round
        BY <1>2, <1>3, <3>1, <3>2 DEF Stats
      <3> QED
        BY <3>3, <3>4
    <2> QED
      BY <1>3, <1>6, <1>7, <2>1 DEF StatsTypes
  <1>8. CASE /\ CanFail /\ faults' = faults + 1
             /\ \E i \in Closed : orders[i].executed > 0 /\ stats' = CalculatedUpTo(i)
    <2>1. PICK i \in Closed : stats' = CalculatedUpTo(i)
      BY <1>8
    <2> DEFINE before == {j \in Closed : j < i}
    <2>2. i \in Nat /\ before \in SUBSET IDs
      BY <1>1, OrdersAre
    <2>3. Sum(before) \in Int
      <3> HIDE DEF before
      <3> QED
        BY <2>2, SumOfTypes
    <2>4. stats' \in Stats /\ stats'.round = stats.round
      <3> DEFINE c == stats.current + Sum(before)
                 t == stats.total + Sum(before)
      <3>1. c \in Int /\ t \in Int
        BY <1>5, <2>3
      <3>2. stats' = [stats EXCEPT !.from = i, !.current = c, !.total = t]
        BY <2>1 DEF CalculatedUpTo
      <3> HIDE DEF c, t
      <3>3. stats' \in Stats
        BY <1>3, <2>2, <3>1, <3>2 DEF Stats
      <3>4. stats'.round = stats.round
        BY <1>3, <2>2, <3>1, <3>2 DEF Stats
      <3> QED
        BY <3>3, <3>4
    <2> QED
      BY <1>3, <1>6, <1>8, <2>4 DEF StatsTypes
  <1> QED
    BY <1>7, <1>8 DEF CalculateProfit

-----------------------------------------------------------------------------
(* The orders by type. *)
LEMMA NewIs ==
    ASSUME NEW side \in {"BUY", "SELL"}, NEW qty \in Nat
    PROVE  /\ New(side, qty) \in Order /\ New(side, qty).side = side /\ New(side, qty).qty = qty
           /\ New(side, qty).executed = 0 /\ New(side, qty).status = "New"
  BY DEF New, Order

(* A fill: the order, and what is reported of it. *)
LEMMA FillIs ==
    ASSUME Types, NEW i \in IDs, Fill(i)
    PROVE  \E o \in Order, qty \in Nat :
              /\ IsOpen(i) /\ Best(i)
              /\ qty = IF orders[i].side = "BUY" THEN 1 ELSE orders[i].qty
              /\ orders' = [orders EXCEPT ![i] = o]
              /\ o.side = orders[i].side /\ o.qty = orders[i].qty
              /\ o.executed = orders[i].executed + qty
              /\ o.status = IF o.executed = o.qty THEN "Filled" ELSE "New"
              /\ LastID' = LastID /\ IDs' = IDs /\ orders' \in Seq(Order)
              /\ orders'[i] = o /\ \A j \in IDs : j # i => orders'[j] = orders[j]
              /\ feed' = IF pc = "down" THEN feed
                         ELSE Append(feed, [order |-> i, qty |-> qty, filled |-> o.status = "Filled"])
              /\ [order |-> i, qty |-> qty, filled |-> o.status = "Filled"] \in Update
  <1> DEFINE qty == IF orders[i].side = "BUY" THEN 1 ELSE orders[i].qty
  <1>1. orders[i] \in Order /\ i \in Nat
    BY OrdersAre
  <1>2. qty \in Nat
    BY <1>1 DEF Order
  <1>3. /\ IsOpen(i) /\ Best(i) /\ orders' = Traded(i, qty)
        /\ feed' = IF pc = "down" THEN feed
                   ELSE Append(feed, [order |-> i, qty |-> qty, filled |-> orders'[i].status = "Filled"])
    BY DEF Fill
  <1>4. qty = IF orders[i].side = "BUY" THEN 1 ELSE orders[i].qty
    OBVIOUS
  <1> HIDE DEF qty
  <1>5. PICK o \in Order : /\ Traded(i, qty) = [orders EXCEPT ![i] = o]
                           /\ o.side = orders[i].side /\ o.qty = orders[i].qty
                           /\ o.executed = orders[i].executed + qty
                           /\ o.status = IF o.executed = o.qty THEN "Filled" ELSE "New"
    BY <1>2, TradedIs
  <1>6. orders' = [orders EXCEPT ![i] = o]
    BY <1>3, <1>5
  <1>7. /\ LastID' = LastID /\ IDs' = IDs /\ orders' \in Seq(Order)
        /\ orders'[i] = o /\ \A j \in IDs : j # i => orders'[j] = orders[j]
    BY <1>6, OrdersChange
  <1>8. [order |-> i, qty |-> qty, filled |-> o.status = "Filled"] \in Update
    BY <1>1, <1>2 DEF Update
  <1> QED
    BY <1>2, <1>3, <1>4, <1>5, <1>6, <1>7, <1>8

LEMMA CancelOneIs ==
    ASSUME Types, NEW i \in IDs, CancelOne(i)
    PROVE  \E o \in Order :
              /\ IsOpen(i) /\ orders' = [orders EXCEPT ![i] = o]
              /\ o.side = orders[i].side /\ o.qty = orders[i].qty
              /\ o.executed = orders[i].executed /\ o.status = "Canceled"
              /\ LastID' = LastID /\ IDs' = IDs /\ orders' \in Seq(Order)
              /\ orders'[i] = o /\ \A j \in IDs : j # i => orders'[j] = orders[j]
  <1>1. PICK o \in Order : /\ [orders EXCEPT ![i].status = "Canceled"] = [orders EXCEPT ![i] = o]
                           /\ o.side = orders[i].side /\ o.qty = orders[i].qty
                           /\ o.executed = orders[i].executed /\ o.status = "Canceled"
    BY CanceledIs
  <1>2. IsOpen(i) /\ orders' = [orders EXCEPT ![i] = o]
    BY <1>1 DEF CancelOne
  <1> QED
    BY <1>1, <1>2, OrdersChange

(* Steps that change the orders keep their types. *)
LEMMA FillTypes ==
    ASSUME Types, FillStep
    PROVE  Types'
  <1>1. PICK i \in IDs : Fill(i)
    BY DEF FillStep
  <1>2. PICK o \in Order, qty \in Nat :
              /\ IDs' = IDs /\ orders' \in Seq(Order)
              /\ feed' = IF pc = "down" THEN feed
                         ELSE Append(feed, [order |-> i, qty |-> qty, filled |-> o.status = "Filled"])
              /\ [order |-> i, qty |-> qty, filled |-> o.status = "Filled"] \in Update
    BY <1>1, FillIs
  <1> DEFINE u == [order |-> i, qty |-> qty, filled |-> o.status = "Filled"]
  <1>3. feed' \in Seq(Update) /\ \A n \in DOMAIN feed' : feed'[n].order \in IDs
    <2>1. u \in Update /\ u.order = i
      BY <1>2
    <2>2. feed' = feed \/ feed' = Append(feed, u)
      BY <1>2
    <2>3. feed \in Seq(Update) /\ \A n \in DOMAIN feed : feed[n].order \in IDs
      BY DEF Types, OrderTypes
    <2> HIDE DEF u
    <2>4. CASE feed' = feed
      BY <2>3, <2>4
    <2>5. CASE feed' = Append(feed, u)
      BY <1>1, <2>1, <2>3, <2>5, FeedGrows
    <2> QED
      BY <2>2, <2>4, <2>5
  <1>4. OrderTypes'
    BY <1>2, <1>3 DEF OrderTypes
  <1>5. UNCHANGED <<stateVars, bookVars, statsVars, kline, bounds>>
    BY <1>1 DEF Fill
  <1>6. ControlTypes' /\ BookTypes' /\ StatsTypes' /\ OpenedTypes' /\ BoundTypes'
    BY <1>2, <1>5 DEF Types, ControlTypes, BookTypes, StatsTypes, OpenedTypes, OpenedIDs, BoundTypes,
                      stateVars, loop, work, bookVars, statsVars, bounds
  <1> QED
    BY <1>4, <1>6 DEF Types

LEMMA CancelTypes ==
    ASSUME Types, CancelStep
    PROVE  Types'
  <1>1. PICK i \in IDs : CancelOne(i)
    BY DEF CancelStep
  <1>2. IDs' = IDs /\ orders' \in Seq(Order)
    BY <1>1, CancelOneIs
  <1>3. UNCHANGED <<feed, stateVars, bookVars, statsVars, kline, bounds>>
    BY <1>1 DEF CancelOne
  <1>4. OrderTypes'
    BY <1>2, <1>3 DEF Types, OrderTypes
  <1>5. ControlTypes' /\ BookTypes' /\ StatsTypes' /\ OpenedTypes' /\ BoundTypes'
    BY <1>2, <1>3 DEF Types, ControlTypes, BookTypes, StatsTypes, OpenedTypes, OpenedIDs, BoundTypes,
                      stateVars, loop, work, bookVars, statsVars, bounds
  <1> QED
    BY <1>4, <1>5 DEF Types

LEMMA HandleFillTypes ==
    ASSUME Types, HandleFill
    PROVE  Types'
  <1> DEFINE u == Head(feed)
  <1>1. /\ u \in Update /\ u.order \in IDs
        /\ Tail(feed) \in Seq(Update)
        /\ \A n \in DOMAIN Tail(feed) : n + 1 \in DOMAIN feed /\ Tail(feed)[n] = feed[n + 1]
    BY FeedParts DEF HandleFill
  <1>2. /\ feed' = Tail(feed) /\ orders' = orders /\ IDs' = IDs
        /\ UNCHANGED <<state, loop, work, store, stats, kline, bounds>>
        /\ ProcessTrade(u)
        /\ \/ active' = active \ {u.order} /\ Emit(FilledState(u.order))
           \/ active' = active /\ nextStateC' = nextStateC
    BY DEF HandleFill, IDs
  <1> HIDE DEF u
  <1>3. OrderTypes'
    BY <1>1, <1>2 DEF Types, OrderTypes
  <1>4. BookTypes'
    <2>1. BookTypes /\ u.qty \in Nat
      BY <1>1 DEF Types, Update
    <2>2. active' \subseteq IDs' /\ store' \subseteq IDs'
      BY <1>2, <2>1 DEF BookTypes
    <2>3. CASE u.order \in store
      <3>1. base' = base + Change(u.order, u.qty) /\ waiting' = waiting
        BY <1>2, <2>3 DEF ProcessTrade
      <3>2. Change(u.order, u.qty) \in Int
        BY <2>1, ChangeType
      <3> QED
        BY <1>2, <2>1, <2>2, <3>1, <3>2 DEF BookTypes
    <2>4. CASE u.order \notin store
      <3>1. base' = base /\ waiting' = Wait(u)
        BY <1>2, <2>4 DEF ProcessTrade
      <3>2. /\ DOMAIN waiting' = DOMAIN waiting \cup {u.order}
            /\ \A i \in DOMAIN waiting' :
                  waiting'[i] = (IF i \in DOMAIN waiting THEN waiting[i] ELSE 0)
                                + (IF i = u.order THEN u.qty ELSE 0)
        BY <3>1 DEF Wait
      <3>3. \A i \in DOMAIN waiting : waiting[i] \in Nat
        BY <2>1 DEF BookTypes
      <3>4. \A i \in DOMAIN waiting' : waiting'[i] \in Nat
        BY <2>1, <3>2, <3>3
      <3> QED
        BY <1>1, <1>2, <2>1, <2>2, <3>1, <3>2, <3>4 DEF BookTypes
    <2> QED
      BY <2>3, <2>4
  <1>5. ControlTypes'
    <2>1. FilledState(u.order) \in State
      BY DEF FilledState, State
    <2>2. nextStateC' \in Seq(State) /\ Len(nextStateC') <= 1
      BY <1>2, <2>1, EmitType DEF Types, ControlTypes
    <2> QED
      BY <1>2, <2>2 DEF Types, ControlTypes, loop, work
  <1>6. StatsTypes'
    <2>1. saved' = saved \/ saved' = stats
      BY <1>2 DEF ProcessTrade
    <2> QED
      BY <1>2, <2>1 DEF Types, StatsTypes
  <1>7. OpenedTypes' /\ BoundTypes'
    BY <1>2 DEF Types, OpenedTypes, OpenedIDs, BoundTypes, work, bounds
  <1> QED
    BY <1>3, <1>4, <1>5, <1>6, <1>7 DEF Types

LEMMA ChannelEmpty ==
    ASSUME nextStateC' = <<>>
    PROVE  nextStateC' \in Seq(State) /\ Len(nextStateC') <= 1
  BY EmptySeq

LEMMA PlaceIs ==
    ASSUME Parameters, Types, Place
    PROVE  /\ New("BUY", Qty) \in Order
           /\ orders' = Append(orders, New("BUY", Qty))
           /\ LastID' = LastID + 1 /\ IDs' = IDs \cup {LastID + 1} /\ LastID + 1 \notin IDs
           /\ orders' \in Seq(Order)
           /\ orders'[LastID + 1] = New("BUY", Qty) /\ \A i \in IDs : orders'[i] = orders[i]
           /\ active' = active \cup {LastID + 1} /\ store' = store \cup {LastID + 1}
  <1>1. New("BUY", Qty) \in Order
    BY NewIs DEF Parameters
  <1>2. orders' = Append(orders, New("BUY", Qty))
    BY DEF Place
  <1>3. /\ LastID' = LastID + 1 /\ IDs' = IDs \cup {LastID + 1} /\ LastID + 1 \notin IDs
        /\ orders' \in Seq(Order)
        /\ orders'[LastID + 1] = New("BUY", Qty) /\ \A i \in IDs : orders'[i] = orders[i]
    BY <1>1, <1>2, OrdersGrow
  <1>4. active' = active \cup {LastID + 1} /\ store' = store \cup {LastID + 1}
    BY <1>3 DEF Place, Known, LastID
  <1> QED
    BY <1>1, <1>2, <1>3, <1>4

LEMMA PlaceTakeProfitIs ==
    ASSUME Types, PlaceTakeProfit
    PROVE  /\ quantity \in Nat
           /\ New("SELL", quantity) \in Order
           /\ LastID' = LastID + 1 /\ IDs' = IDs \cup {LastID + 1} /\ LastID + 1 \notin IDs
           /\ orders' \in Seq(Order)
           /\ orders'[LastID + 1] = New("SELL", quantity) /\ \A i \in IDs : orders'[i] = orders[i]
           /\ active' = active \cup {LastID + 1} /\ store' = store \cup {LastID + 1}
  <1>1. quantity \in Nat
    BY DEF Types, ControlTypes
  <1>2. orders' = Append(orders, New("SELL", quantity))
    BY DEF PlaceTakeProfit
  <1>4. New("SELL", quantity) \in Order
    BY <1>1, NewIs
  <1>5. /\ LastID' = LastID + 1 /\ IDs' = IDs \cup {LastID + 1} /\ LastID + 1 \notin IDs
        /\ orders' \in Seq(Order)
        /\ orders'[LastID + 1] = New("SELL", quantity) /\ \A i \in IDs : orders'[i] = orders[i]
    BY <1>2, <1>4, OrdersGrow
  <1>6. active' = active \cup {LastID + 1} /\ store' = store \cup {LastID + 1}
    BY <1>5 DEF PlaceTakeProfit, Known, LastID
  <1> QED
    BY <1>1, <1>4, <1>5, <1>6

LEMMA OpenRoundTypes ==
    ASSUME Parameters, Types, OpenRound
    PROVE  Types'
  <1> USE DEF exchangeVars, loop, work, bounds
  <1>1. OrderTypes' /\ BookTypes' /\ OpenedTypes' /\ BoundTypes'
    BY DEF Types, OrderTypes, BookTypes, OpenedTypes, OpenedIDs, BoundTypes, IDs, OpenRound
  <1>2. ControlTypes'
    <2>1. nextStateC' \in Seq(State) /\ Len(nextStateC') <= 1
      BY ChannelEmpty DEF OpenRound, Receive
    <2> QED
      BY <2>1 DEF Types, ControlTypes, OpenRound, Receive, State
  <1>3. StatsTypes'
    <2>1. stats \in Stats /\ stats.round < MaxRounds /\ stats.round \in Nat
      BY DEF Types, StatsTypes, OpenRound, Stats
    <2>2. stats' = [stats EXCEPT !.round = stats.round + 1, !.current = 0] /\ saved' = stats'
      BY DEF OpenRound
    <2> DEFINE n == stats.round + 1
               none == 0
    <2>a. n \in Nat /\ n <= MaxRounds /\ none \in Int
      BY <2>1 DEF Parameters
    <2>b. stats' = [stats EXCEPT !.round = n, !.current = none]
      BY <2>2
    <2> HIDE DEF n, none
    <2>3. stats' \in Stats
      BY <2>1, <2>a, <2>b DEF Stats
    <2>4. stats'.round = n
      BY <2>1, <2>b DEF Stats
    <2> QED
      BY <2>2, <2>3, <2>4, <2>a DEF StatsTypes
  <1> QED
    BY <1>1, <1>2, <1>3 DEF Types

LEMMA PlaceTypes ==
    ASSUME Parameters, Types, Place
    PROVE  Types'
  <1>1. /\ IDs' = IDs \cup {LastID + 1} /\ orders' \in Seq(Order)
        /\ active' = active \cup {LastID + 1} /\ store' = store \cup {LastID + 1}
    BY PlaceIs
  <1>2. UNCHANGED <<feed, state, nextStateC, loop, failed, quantity, opened, waiting, base, statsVars, kline, bounds>>
    BY DEF Place
  <1>3. OrderTypes' /\ BookTypes' /\ OpenedTypes' /\ BoundTypes' /\ StatsTypes'
    BY <1>1, <1>2 DEF Types, OrderTypes, BookTypes, OpenedTypes, OpenedIDs, BoundTypes, StatsTypes,
                      statsVars, bounds
  <1>4. left' \in 0 .. MaxOrderCount
    BY DEF Types, ControlTypes, Place, Parameters
  <1>5. ControlTypes'
    BY <1>2, <1>4 DEF Types, ControlTypes, loop
  <1> QED
    BY <1>3, <1>5 DEF Types

LEMMA PlacedTypes ==
    ASSUME Parameters, Types, Placed
    PROVE  Types'
  <1>1. UNCHANGED <<exchangeVars, nextStateC, ticked, out, work, active, store, statsVars, kline, bounds>>
    BY DEF Placed
  <1>2. base' \in Int /\ DOMAIN waiting' \subseteq DOMAIN waiting /\ \A i \in DOMAIN waiting' : waiting'[i] \in Nat
    BY ProcessTypes DEF Placed
  <1>3. OrderTypes' /\ OpenedTypes' /\ BoundTypes' /\ StatsTypes'
    BY <1>1 DEF Types, OrderTypes, OpenedTypes, OpenedIDs, BoundTypes, StatsTypes, IDs,
                statsVars, bounds, exchangeVars, work
  <1>4. BookTypes'
    BY <1>1, <1>2 DEF Types, BookTypes, IDs, exchangeVars
  <1>5. ControlTypes'
    BY <1>1 DEF Types, ControlTypes, State, Placed, ReadyUnlessFailed, work
  <1> QED
    BY <1>3, <1>4, <1>5 DEF Types

LEMMA PlaceTakeProfitTypes ==
    ASSUME Types, PlaceTakeProfit
    PROVE  Types'
  <1>1. /\ IDs' = IDs \cup {LastID + 1} /\ orders' \in Seq(Order)
        /\ active' = active \cup {LastID + 1} /\ store' = store \cup {LastID + 1}
    BY PlaceTakeProfitIs
  <1>2. /\ UNCHANGED <<feed, nextStateC, ticked, out, left, failed, opened, statsVars, kline, faults, crashes>>
        /\ pc' = "select" /\ quantity' = 0
        /\ late' \in {late, TRUE, feed # <<>> \/ quantity # Absolute(base)}
        /\ stale' \in {stale, TRUE, nextStateC # <<>>}
    BY DEF PlaceTakeProfit
  <1>3. base' \in Int /\ DOMAIN waiting' \subseteq DOMAIN waiting /\ \A i \in DOMAIN waiting' : waiting'[i] \in Nat
    BY ProcessTypes DEF PlaceTakeProfit
  <1>4. OrderTypes' /\ BookTypes' /\ OpenedTypes' /\ StatsTypes'
    BY <1>1, <1>2, <1>3 DEF Types, OrderTypes, BookTypes, OpenedTypes, OpenedIDs, StatsTypes, statsVars
  <1>5. BoundTypes'
    BY <1>2 DEF Types, BoundTypes
  <1>6. ControlTypes'
    <2>2. state' \in State
      BY DEF PlaceTakeProfit, State
    <2> QED
      BY <1>2, <2>2 DEF Types, ControlTypes
  <1> QED
    BY <1>4, <1>5, <1>6 DEF Types

LEMMA PlaceTakeProfitFailsTypes ==
    ASSUME Parameters, Types, PlaceTakeProfitFails
    PROVE  Types'
  <1>1. /\ UNCHANGED <<exchangeVars, state, nextStateC, ticked, out, left, failed, opened, active, store,
                       statsVars, kline, stale, late, crashes>>
        /\ pc' = "select" /\ quantity' = 0
        /\ \/ faults' = faults
           \/ CanFail /\ faults' = faults + 1
    BY DEF PlaceTakeProfitFails
  <1>2. base' \in Int /\ DOMAIN waiting' \subseteq DOMAIN waiting /\ \A i \in DOMAIN waiting' : waiting'[i] \in Nat
    BY ProcessTypes DEF PlaceTakeProfitFails
  <1>3. OrderTypes' /\ OpenedTypes' /\ StatsTypes'
    BY <1>1 DEF Types, OrderTypes, OpenedTypes, OpenedIDs, StatsTypes, IDs, statsVars, exchangeVars
  <1>4. BookTypes'
    BY <1>1, <1>2 DEF Types, BookTypes, IDs, exchangeVars
  <1>5. BoundTypes'
    BY <1>1 DEF Types, BoundTypes, Parameters, CanFail
  <1>6. ControlTypes'
    BY <1>1 DEF Types, ControlTypes
  <1> QED
    BY <1>3, <1>4, <1>5, <1>6 DEF Types

LEMMA CloseRoundTypes ==
    ASSUME Parameters, Types, CloseRound
    PROVE  Types'
  <1>1. /\ UNCHANGED <<exchangeVars, pc, out, work, bookVars, kline, stale, late, crashes>>
        /\ CalculateProfit
    BY DEF CloseRound
  <1>2. /\ StatsTypes'
        /\ faults' = faults \/ (CanFail /\ faults' = faults + 1)
    BY <1>1, CalculateTypes
  <1>3. OrderTypes' /\ OpenedTypes' /\ BookTypes'
    BY <1>1 DEF Types, OrderTypes, OpenedTypes, OpenedIDs, BookTypes, IDs, exchangeVars, bookVars, work
  <1>4. BoundTypes'
    BY <1>1, <1>2 DEF Types, BoundTypes, Parameters, CanFail
  <1>5. ControlTypes'
    <2>1. nextStateC' \in Seq(State) /\ Len(nextStateC') <= 1
      BY ChannelEmpty DEF CloseRound, Receive
    <2>2. state' \in State /\ (ticked \in BOOLEAN => ticked' \in BOOLEAN)
      BY DEF CloseRound, State
    <2> QED
      BY <1>1, <2>1, <2>2 DEF Types, ControlTypes, work
  <1> QED
    BY <1>2, <1>3, <1>4, <1>5 DEF Types

LEMMA QueryOpenOrdersTypes ==
    ASSUME Types, QueryOpenOrders
    PROVE  Types' /\ OpenedIDs' = {i \in IDs : IsOpen(i)}
  <1>1. UNCHANGED <<exchangeVars, state, nextStateC, ticked, out, left, failed, quantity, bookVars, statsVars, kline, bounds>>
    BY DEF QueryOpenOrders
  <1>2. pc' = "recover"
        /\ opened' = {[id |-> i, executed |-> orders[i].executed] : i \in {j \in IDs : IsOpen(j)}}
    BY DEF QueryOpenOrders
  <1>3. OpenedIDs' = {i \in IDs : IsOpen(i)}
    <2> DEFINE record(i) == [id |-> i, executed |-> orders[i].executed]
    <2>1. \A i : record(i).id = i
      OBVIOUS
    <2>2. opened' = {record(i) : i \in {j \in IDs : IsOpen(j)}}
      BY <1>2
    <2> HIDE DEF record
    <2> QED
      BY <2>1, <2>2 DEF OpenedIDs
  <1>4. opened' \subseteq Opened
    <2>1. \A i \in IDs : i \in Nat /\ orders[i].executed \in Nat
      BY OrdersAre DEF Order
    <2> QED
      BY <1>2, <2>1 DEF Opened
  <1>5. OrderTypes' /\ BookTypes' /\ StatsTypes' /\ BoundTypes'
    BY <1>1 DEF Types, OrderTypes, BookTypes, StatsTypes, BoundTypes, IDs, exchangeVars, bookVars, statsVars, bounds
  <1>6. ControlTypes'
    BY <1>1, <1>2 DEF Types, ControlTypes
  <1>7. OpenedTypes'
    BY <1>1, <1>3, <1>4 DEF OpenedTypes, IDs, exchangeVars
  <1> QED
    BY <1>3, <1>5, <1>6, <1>7 DEF Types

LEMMA RecoverTypes ==
    ASSUME Parameters, Types, Recover
    PROVE  Types'
  <1>1. /\ UNCHANGED <<exchangeVars, ticked, out, left, failed, quantity, waiting, kline, stale, late, crashes>>
        /\ CalculateProfit /\ base' = RecoverPosition /\ state' = RecoverState /\ Readopt(RecoverState)
        /\ pc' = "select" /\ opened' = {}
    BY DEF Recover
  <1>2. /\ StatsTypes'
        /\ faults' = faults \/ (CanFail /\ faults' = faults + 1)
    BY <1>1, CalculateTypes
  <1>3. RecoverState \in State
    BY DEF RecoverState, StateOfBuys, State
  <1>4. RecoverPosition \in Int
    <2> DEFINE recorded == {o.id : o \in {r \in opened : r.executed > 0}} \cap CurrentRound
               closed == {i \in CurrentRound : ~IsOpen(i)}
               changes(ids) == SumFunctionOnSet([i \in IDs |-> Change(i, orders[i].executed)], ids)
    <2>1. recorded \in SUBSET IDs /\ closed \in SUBSET IDs
      BY DEF CurrentRound
    <2>2. RecoverPosition = 0 \/ RecoverPosition = changes(recorded) + changes(closed)
      BY DEF RecoverPosition
    <2> HIDE DEF recorded, closed
    <2>3. changes(recorded) \in Int /\ changes(closed) \in Int
      BY <2>1, SumOfTypes
    <2> HIDE DEF changes
    <2> QED
      BY <2>2, <2>3
  <1>5. active' \subseteq IDs /\ store' \subseteq IDs
    <2>1. OpenedIDs \subseteq IDs /\ active \subseteq IDs /\ store \subseteq IDs
      BY DEF Types, OpenedTypes, BookTypes
    <2> QED
      BY <1>1, <2>1 DEF Readopt
  <1>6. nextStateC' \in Seq(State) /\ Len(nextStateC') <= 1
    <2>1. nextStateC \in Seq(State) /\ Len(nextStateC) <= 1
      BY DEF Types, ControlTypes
    <2>2. \A i : FilledState(i) \in State
      BY DEF FilledState, State
    <2>3. nextStateC' = nextStateC \/ \E i \in PutAside : Emit(FilledState(i))
      BY <1>1 DEF Readopt
    <2> QED
      BY <2>1, <2>2, <2>3, EmitType
  <1>7. OrderTypes' /\ OpenedTypes'
    BY <1>1 DEF Types, OrderTypes, OpenedTypes, OpenedIDs, IDs, exchangeVars
  <1>8. BookTypes'
    BY <1>1, <1>4, <1>5 DEF Types, BookTypes, IDs, exchangeVars
  <1>9. BoundTypes'
    BY <1>1, <1>2 DEF Types, BoundTypes, Parameters, CanFail
  <1>10. ControlTypes'
    BY <1>1, <1>3, <1>6 DEF Types, ControlTypes
  <1> QED
    BY <1>2, <1>7, <1>8, <1>9, <1>10 DEF Types

LEMMA CrashTypes ==
    ASSUME Parameters, Types, Crash
    PROVE  Types'
  <1>1. nextStateC' \in Seq(State) /\ Len(nextStateC') <= 1
    BY ChannelEmpty DEF Crash
  <1>0. 0 \in 0 .. MaxOrderCount
    BY DEF Parameters
  <1>2. ControlTypes'
    BY <1>0, <1>1 DEF Types, ControlTypes, Crash, State
  <1>3. OrderTypes'
    BY DEF Types, OrderTypes, Crash, IDs
  <1>4. BookTypes' /\ OpenedTypes'
    BY DEF Types, BookTypes, OpenedTypes, OpenedIDs, Crash, IDs
  <1>5. StatsTypes' /\ BoundTypes'
    BY DEF Types, StatsTypes, BoundTypes, Crash, Parameters
  <1> QED
    BY <1>2, <1>3, <1>4, <1>5 DEF Types

LEMMA InitTypes ==
    ASSUME Parameters, Init
    PROVE  Types
  <1>1. IDs = {} /\ DOMAIN feed = {} /\ DOMAIN waiting = {}
    BY DEF Init, IDs
  <1>2. OrderTypes /\ BookTypes /\ OpenedTypes
    BY <1>1 DEF Init, OrderTypes, BookTypes, OpenedTypes, OpenedIDs
  <1>3. nextStateC \in Seq(State) /\ Len(nextStateC) <= 1
    BY EmptySeq DEF Init
  <1>0. 0 \in 0 .. MaxOrderCount /\ 0 \in 0 .. MaxFaults /\ 0 \in 0 .. MaxCrashes
    BY DEF Parameters
  <1>4. ControlTypes
    BY <1>0, <1>3 DEF Init, ControlTypes, State
  <1>5. StatsTypes
    BY DEF Init, StatsTypes, Stats, Parameters
  <1>6. BoundTypes
    BY <1>0 DEF Init, BoundTypes
  <1> QED
    BY <1>2, <1>4, <1>5, <1>6 DEF Types

LEMMA NextTypes ==
    ASSUME Parameters, Types, [Next]_vars
    PROVE  Types'
  <1>1. CASE Next
    BY <1>1, NextIs, FillTypes, HandleFillTypes, ControlStepTypes, OpenRoundTypes, PlaceTypes, PlacedTypes,
       CancelTypes, PlaceTakeProfitTypes, PlaceTakeProfitFailsTypes, CloseRoundTypes, QueryOpenOrdersTypes,
       RecoverTypes, CrashTypes
  <1>2. CASE UNCHANGED vars
    BY <1>2 DEF Types, OrderTypes, ControlTypes, BookTypes, StatsTypes, OpenedTypes, OpenedIDs, BoundTypes, IDs,
                vars, exchangeVars, stateVars, loop, work, bookVars, statsVars, bounds
  <1> QED
    BY <1>1, <1>2

(* Every variable of dca2 keeps its type, for any orders of a round, rounds,
   failed requests and crashes (pkg/strategy/dca2). *)
THEOREM Dca2TypeCorrect == Parameters => (Spec => []TypeOK)
<1> SUFFICES ASSUME Parameters
             PROVE  Spec => []TypeOK
  OBVIOUS
<1>1. Init => Types
  BY InitTypes
<1>2. Types /\ [Next]_vars => Types'
  BY NextTypes
<1>3. Types => TypeOK
  <2> SUFFICES ASSUME Types
               PROVE  TypeOK
    OBVIOUS
  <2>1. stats.round \in 0 .. MaxRounds /\ stats.from \in Nat
    BY DEF Types, StatsTypes, Stats, Parameters
  <2> QED
    BY <2>1 DEF Types, OrderTypes, ControlTypes, BookTypes, BoundTypes, TypeOK
<1> QED
  BY <1>1, <1>2, <1>3, PTL DEF Spec

-----------------------------------------------------------------------------
(***************************************************************************)
(* The take-profit order is alone                                          *)
(***************************************************************************)
LEMMA ControlStages ==
    ASSUME Types, Stages, ControlStep
    PROVE  Stages'
  <1> USE DEF exchangeVars, stateVars, loop, work, bookVars, statsVars, bounds, Receive
  <1>1. CASE OnKLine
    BY <1>1 DEF OnKLine, Stages, Triggered
  <1>2. CASE KLineEmits
    BY <1>2 DEF KLineEmits, Stages, Triggered
  <1>3. CASE Ticks
    BY <1>3 DEF Ticks, Stages, Triggered
  <1>4. CASE Tick
    BY <1>4 DEF Tick, Stages, Triggered
  <1>5. CASE Send
    BY <1>5 DEF Send, Stages, Triggered
  <1>6. CASE TooEarly \/ OrderFilled
    BY <1>6 DEF TooEarly, OrderFilled, Stages, Triggered
  <1>7. CASE BeginPlacing \/ BeginCancelling
    BY <1>7 DEF BeginPlacing, BeginCancelling, Stages, Triggered
  <1>8. CASE PlaceFails
    BY <1>8 DEF PlaceFails, Stages, Triggered
  <1>9. CASE TargetReached
    BY <1>9 DEF TargetReached, Stages, Triggered
  <1>10. CASE FoundStep
    BY <1>10 DEF FoundStep, FoundFilled, Stages, Triggered
  <1>11. CASE Cancelled
    BY <1>11 DEF Cancelled, Stages, Triggered
  <1>12. CASE RecoverFails \/ Restart
    BY <1>12 DEF RecoverFails, Restart, Stages, Triggered
  <1>13. CASE BeginSelling
    BY <1>13 DEF BeginSelling, Stages, Triggered
  <1> QED
    BY <1>1, <1>2, <1>3, <1>4, <1>5, <1>6, <1>7, <1>8, <1>9, <1>10, <1>11, <1>12, <1>13 DEF ControlStep

Bought == {"OpenPositionReady", "OpenPositionOrderFilled", "OpenPositionOrdersCancelling",
           "OpenPositionOrdersCancelled"}

(* Where such a step leads. *)
LEMMA ControlMoves ==
    ASSUME Parameters, Types, Stages, ControlStep
    PROVE  /\ state \in {"None", "TakeProfitReady", "WaitToOpenPosition"} <=> state' \in {"None", "TakeProfitReady", "WaitToOpenPosition"}
           /\ state \in {"None", "TakeProfitReady", "WaitToOpenPosition"} => state' = state
           /\ state' \in Bought => state \in Bought
           /\ pc' = "place" /\ ~failed' /\ left' < MaxOrderCount => pc = "place" /\ ~failed /\ left < MaxOrderCount
           /\ state' = "TakeProfitReady" => active' = active /\ (nextStateC' = nextStateC \/ active = {} \/ stale')
           /\ pc' = "recover" => pc = "recover"
  <1> USE DEF exchangeVars, stateVars, loop, work, bookVars, statsVars, bounds, Receive
  <1>1. CASE OnKLine \/ Ticks
    BY <1>1 DEF OnKLine, Ticks
  <1>2. CASE KLineEmits
    BY <1>2 DEF KLineEmits, AwaitsFill, Emit, Stages
  <1>3. CASE Tick
    BY <1>3 DEF Tick
  <1>4. CASE Send
    BY <1>4 DEF Send, Stages, Triggered
  <1>5. CASE TooEarly \/ OrderFilled
    BY <1>5 DEF TooEarly, OrderFilled, Bought
  <1>6. CASE BeginPlacing
    BY <1>6 DEF BeginPlacing, Parameters
  <1>7. CASE BeginCancelling \/ PlaceFails
    BY <1>7 DEF BeginCancelling, PlaceFails, Stages
  <1>8. CASE TargetReached
    BY <1>8 DEF TargetReached, Bought
  <1>9. CASE FoundStep
    BY <1>9 DEF FoundStep, FoundFilled, Stages
  <1>10. CASE Cancelled
    BY <1>10 DEF Cancelled, Stages, Bought
  <1>11. CASE RecoverFails \/ Restart
    BY <1>11 DEF RecoverFails, Restart
  <1>12. CASE BeginSelling
    BY <1>12 DEF BeginSelling
  <1> QED
    BY <1>1, <1>2, <1>3, <1>4, <1>5, <1>6, <1>7, <1>8, <1>9, <1>10, <1>11, <1>12 DEF ControlStep

LEMMA ControlSells ==
    ASSUME Parameters, SellsInv, ControlStep, ~stale'
    PROVE  Stages' /\ SellsLast' /\ BuysLast' /\ SellAwaited' /\ FilledIsClosed' /\ OpenIsOpened'
  <1>1. /\ Types /\ Stages /\ SellsLast /\ BuysLast /\ SellAwaited /\ FilledIsClosed /\ OpenIsOpened
    BY DEF SellsInv
  <1>2. /\ orders' = orders /\ feed' = feed /\ opened' = opened /\ active' \subseteq active
    BY ControlFrame
  <1>3. Stages'
    BY <1>1, ControlStages
  <1>4. SellsLast'
    BY <1>1, <1>2, ControlMoves DEF SellsLast, Of, IDs, LastID, IsOpen
  <1>5. BuysLast'
    BY <1>1, <1>2, ControlMoves DEF BuysLast, LastIsBuy, LastID, Bought
  <1>6. SellAwaited'
    BY <1>1, <1>2, ControlMoves DEF SellAwaited, LastIsSell, LastID, IsOpen
  <1>7. FilledIsClosed' /\ OpenIsOpened'
    BY <1>1, <1>2, ControlMoves DEF FilledIsClosed, OpenIsOpened, OpenedIDs, IsOpen, IDs
  <1> QED
    BY <1>3, <1>4, <1>5, <1>6, <1>7

(* Orders that are filled or closed in their places. *)
LEMMA ClosingSells ==
    ASSUME SellsInv, IDs' = IDs, LastID' = LastID,
           \A j \in IDs : orders'[j].side = orders[j].side /\ (IsOpen(j)' => IsOpen(j)),
           UNCHANGED <<stateVars, active, kline>>
    PROVE  Stages' /\ SellsLast' /\ BuysLast' /\ SellAwaited' /\ OpenIsOpened'
  <1>1. /\ Types /\ Stages /\ SellsLast /\ BuysLast /\ SellAwaited /\ OpenIsOpened
    BY DEF SellsInv
  <1>2. /\ state' = state /\ pc' = pc /\ nextStateC' = nextStateC /\ failed' = failed /\ left' = left
        /\ active' = active /\ opened' = opened /\ kline' = kline
    BY DEF stateVars, loop, work
  <1>3. Stages'
    BY <1>1, <1>2 DEF Stages
  <1>4. IDs = 1 .. LastID /\ LastID \in Nat
    BY <1>1, OrdersAre
  <1>5. SellsLast'
    <2>1. Of("SELL")' = Of("SELL")
      BY DEF Of
    <2>2. ASSUME NEW i \in Of("SELL")
          PROVE  /\ i > 1 /\ orders'[i - 1].side = "BUY"
                 /\ IsOpen(i)' => i = LastID /\ state \in {"None", "TakeProfitReady"}
      <3>1. i \in IDs /\ i > 1 /\ orders[i - 1].side = "BUY"
        BY <1>1 DEF SellsLast, Of
      <3>2. i - 1 \in IDs
        BY <1>4, <3>1
      <3> QED
        BY <1>1, <3>1, <3>2 DEF SellsLast
    <2> QED
      BY <1>2, <2>1, <2>2 DEF SellsLast
  <1>6. BuysLast' /\ SellAwaited'
    <2>1. LastID >= 1 => LastID \in IDs
      BY <1>4
    <2> QED
      BY <1>1, <1>2, <1>4, <2>1 DEF BuysLast, SellAwaited, LastIsBuy, LastIsSell
  <1>7. OpenIsOpened'
    BY <1>1, <1>2 DEF OpenIsOpened, OpenedIDs
  <1> QED
    BY <1>3, <1>5, <1>6, <1>7

LEMMA FillSells ==
    ASSUME SellsInv, FillStep
    PROVE  Stages' /\ SellsLast' /\ BuysLast' /\ SellAwaited' /\ FilledIsClosed' /\ OpenIsOpened'
  <1>1. PICK i \in IDs : Fill(i)
    BY DEF FillStep
  <1>2. Types /\ FilledIsClosed
    BY DEF SellsInv
  <1>3. PICK o \in Order, qty \in Nat :
              /\ IsOpen(i)
              /\ o.side = orders[i].side
              /\ LastID' = LastID /\ IDs' = IDs
              /\ orders'[i] = o /\ \A j \in IDs : j # i => orders'[j] = orders[j]
              /\ feed' = IF pc = "down" THEN feed
                         ELSE Append(feed, [order |-> i, qty |-> qty, filled |-> o.status = "Filled"])
              /\ [order |-> i, qty |-> qty, filled |-> o.status = "Filled"] \in Update
    BY <1>1, <1>2, FillIs
  <1>4. \A j \in IDs : orders'[j].side = orders[j].side /\ (IsOpen(j)' => IsOpen(j))
    BY <1>3 DEF IsOpen
  <1>5. UNCHANGED <<stateVars, active, kline>>
    BY <1>1 DEF Fill, bookVars
  <1>6. FilledIsClosed'
    <2> DEFINE u == [order |-> i, qty |-> qty, filled |-> o.status = "Filled"]
    <2>1. /\ u \in Update /\ u.order = i
          /\ u.filled => ~IsOpen(i)'
      BY <1>3 DEF IsOpen
    <2>2. feed' = feed \/ feed' = Append(feed, u)
      BY <1>3
    <2>3. \A n \in DOMAIN feed : feed[n].order \in IDs /\ (feed[n].filled => orders'[feed[n].order].status # "New")
      BY <1>2, <1>4 DEF FilledIsClosed, Types, OrderTypes, IsOpen
    <2> HIDE DEF u
    <2>4. \A n \in DOMAIN feed' : \/ n \in DOMAIN feed /\ feed'[n] = feed[n]
                                  \/ feed'[n] = u
      <3>1. CASE feed' = feed
        BY <3>1
      <3>2. CASE feed' = Append(feed, u)
        BY <1>2, <2>1, <3>2, FeedGrows
      <3> QED
        BY <2>2, <3>1, <3>2
    <2>5. ASSUME NEW n \in DOMAIN feed', feed'[n].filled
          PROVE  orders'[feed'[n].order].status # "New"
      <3>1. CASE n \in DOMAIN feed /\ feed'[n] = feed[n]
        BY <2>3, <2>5, <3>1 DEF IsOpen
      <3>2. CASE feed'[n] = u
        BY <2>1, <2>5, <3>2 DEF IsOpen
      <3> QED
        BY <2>4, <3>1, <3>2
    <2> QED
      BY <2>5 DEF FilledIsClosed, IsOpen
  <1>7. LastID' = LastID /\ IDs' = IDs
    BY <1>3
  <1> QED
    BY <1>4, <1>5, <1>6, <1>7, ClosingSells

LEMMA CancelSells ==
    ASSUME SellsInv, CancelStep
    PROVE  Stages' /\ SellsLast' /\ BuysLast' /\ SellAwaited' /\ FilledIsClosed' /\ OpenIsOpened'
  <1>1. PICK i \in IDs : CancelOne(i)
    BY DEF CancelStep
  <1>2. Types /\ FilledIsClosed
    BY DEF SellsInv
  <1>3. PICK o \in Order :
              /\ IsOpen(i)
              /\ o.side = orders[i].side /\ o.status = "Canceled"
              /\ LastID' = LastID /\ IDs' = IDs
              /\ orders'[i] = o /\ \A j \in IDs : j # i => orders'[j] = orders[j]
    BY <1>1, <1>2, CancelOneIs
  <1>4. \A j \in IDs : orders'[j].side = orders[j].side /\ (IsOpen(j)' => IsOpen(j))
    BY <1>3 DEF IsOpen
  <1>5. UNCHANGED <<feed, stateVars, active, kline>>
    BY <1>1 DEF CancelOne, bookVars
  <1>6. FilledIsClosed'
    <2>1. \A n \in DOMAIN feed : feed[n].order \in IDs /\ (feed[n].filled => ~IsOpen(feed[n].order))
      BY <1>2 DEF FilledIsClosed, Types, OrderTypes
    <2> QED
      BY <1>4, <1>5, <2>1 DEF FilledIsClosed
  <1> QED
    BY <1>3, <1>4, <1>5, <1>6, ClosingSells

LEMMA HandleFillSells ==
    ASSUME SellsInv, HandleFill
    PROVE  Stages' /\ SellsLast' /\ BuysLast' /\ SellAwaited' /\ FilledIsClosed' /\ OpenIsOpened'
  <1> DEFINE u == Head(feed)
  <1>1. /\ Types /\ Stages /\ SellsLast /\ BuysLast /\ SellAwaited /\ FilledIsClosed /\ OpenIsOpened
    BY DEF SellsInv
  <1>2. /\ u = feed[1] /\ 1 \in DOMAIN feed
        /\ \A n \in DOMAIN Tail(feed) : n + 1 \in DOMAIN feed /\ Tail(feed)[n] = feed[n + 1]
    BY <1>1, FeedParts DEF HandleFill
  <1>3. /\ feed' = Tail(feed) /\ orders' = orders
        /\ UNCHANGED <<state, loop, work, kline>>
        /\ \/ u.filled /\ u.order \in active /\ active' = active \ {u.order} /\ Emit(FilledState(u.order))
           \/ active' = active /\ nextStateC' = nextStateC
    BY DEF HandleFill
  <1>4. u.filled => ~IsOpen(u.order)
    BY <1>1, <1>2 DEF FilledIsClosed
  <1> HIDE DEF u
  <1>5. Stages'
    BY <1>1, <1>3 DEF Stages, loop
  <1>6. SellsLast' /\ BuysLast' /\ OpenIsOpened'
    BY <1>1, <1>3 DEF SellsLast, BuysLast, LastIsBuy, OpenIsOpened, OpenedIDs, IDs, Of, LastID, IsOpen, loop, work
  <1>7. SellAwaited'
    BY <1>1, <1>3, <1>4 DEF SellAwaited, LastIsSell, LastID, IsOpen
  <1>8. FilledIsClosed'
    BY <1>1, <1>2, <1>3 DEF FilledIsClosed, IsOpen
  <1> QED
    BY <1>5, <1>6, <1>7, <1>8

(* No take-profit order is open when one cannot be. *)
LEMMA NoneOpen ==
    ASSUME SellsInv, state \notin {"None", "TakeProfitReady"}
    PROVE  \A i \in IDs : orders[i].side = "SELL" => ~IsOpen(i)
  BY DEF SellsInv, SellsLast, Of

LEMMA OpenRoundSells ==
    ASSUME SellsInv, OpenRound
    PROVE  Stages' /\ SellsLast' /\ BuysLast' /\ SellAwaited' /\ FilledIsClosed' /\ OpenIsOpened'
  <1>1. /\ Types /\ Stages /\ SellsLast /\ FilledIsClosed
    BY DEF SellsInv
  <1>2. /\ pc = "select" /\ state = "WaitToOpenPosition" /\ state' = "PositionOpening"
        /\ UNCHANGED <<exchangeVars, loop, work, active, kline>>
    BY DEF OpenRound, Receive
  <1>3. Stages'
    BY <1>1, <1>2 DEF Stages, loop
  <1>4. SellsLast'
    BY <1>1, <1>2 DEF SellsLast, Of, IDs, LastID, IsOpen, exchangeVars
  <1>5. BuysLast' /\ SellAwaited' /\ OpenIsOpened'
    BY <1>2 DEF BuysLast, SellAwaited, OpenIsOpened, loop
  <1>6. FilledIsClosed'
    BY <1>1, <1>2 DEF FilledIsClosed, IsOpen, exchangeVars
  <1> QED
    BY <1>3, <1>4, <1>5, <1>6

(* A new order, of either side, when no take-profit order is open. *)
LEMMA GrowingSells ==
    ASSUME SellsInv, state \notin {"None", "TakeProfitReady"}, NEW o,
           LastID' = LastID + 1, IDs' = IDs \cup {LastID + 1},
           orders'[LastID + 1] = o, \A i \in IDs : orders'[i] = orders[i],
           o.side = "SELL" => LastIsBuy /\ state' = "TakeProfitReady",
           feed' = feed
    PROVE  SellsLast' /\ FilledIsClosed'
  <1>1. Types /\ SellsLast /\ FilledIsClosed /\ IDs = 1 .. LastID /\ LastID \in Nat
    BY OrdersAre DEF SellsInv
  <1>2. \A i \in IDs : orders[i].side = "SELL" => ~IsOpen(i)
    BY NoneOpen
  <1>3. ASSUME NEW i \in IDs', orders'[i].side = "SELL"
        PROVE  /\ i > 1 /\ orders'[i - 1].side = "BUY"
               /\ orders'[i].status = "New" => i = LastID' /\ state' \in {"None", "TakeProfitReady"}
    <2>1. CASE i \in IDs
      <3>1. i > 1 /\ orders[i - 1].side = "BUY" /\ i - 1 \in IDs
        BY <1>1, <1>3, <2>1 DEF SellsLast, Of
      <3> QED
        BY <1>2, <1>3, <2>1, <3>1 DEF IsOpen
    <2>2. CASE i = LastID + 1
      BY <1>1, <1>3, <2>2 DEF LastIsBuy
    <2> QED
      BY <2>1, <2>2
  <1>4. SellsLast'
    BY <1>3 DEF SellsLast, Of, IsOpen
  <1>5. FilledIsClosed'
    BY <1>1 DEF FilledIsClosed, Types, OrderTypes, IsOpen
  <1> QED
    BY <1>4, <1>5

LEMMA PlaceSells ==
    ASSUME Parameters, SellsInv, Place
    PROVE  Stages' /\ SellsLast' /\ BuysLast' /\ SellAwaited' /\ FilledIsClosed' /\ OpenIsOpened'
  <1>1. /\ Types /\ Stages
    BY DEF SellsInv
  <1>2. /\ pc = "place" /\ UNCHANGED <<feed, state, nextStateC, loop, kline>>
    BY DEF Place
  <1>3. state = "PositionOpening"
    BY <1>1, <1>2 DEF Stages
  <1>4. /\ LastID' = LastID + 1 /\ IDs' = IDs \cup {LastID + 1}
        /\ orders'[LastID + 1] = New("BUY", Qty) /\ \A i \in IDs : orders'[i] = orders[i]
    BY <1>1, PlaceIs
  <1>5. New("BUY", Qty).side = "BUY"
    BY DEF New
  <1>6. SellsLast' /\ FilledIsClosed'
    BY <1>2, <1>3, <1>4, <1>5, GrowingSells
  <1>7. Stages'
    BY <1>1, <1>2, <1>3 DEF Stages, loop
  <1>8. BuysLast'
    BY <1>1, <1>4, <1>5, OrdersAre DEF BuysLast, LastIsBuy
  <1>9. SellAwaited' /\ OpenIsOpened'
    BY <1>2, <1>3 DEF SellAwaited, OpenIsOpened, loop
  <1> QED
    BY <1>6, <1>7, <1>8, <1>9

LEMMA PlacedSells ==
    ASSUME Parameters, SellsInv, Placed
    PROVE  Stages' /\ SellsLast' /\ BuysLast' /\ SellAwaited' /\ FilledIsClosed' /\ OpenIsOpened'
  <1>1. /\ Types /\ Stages /\ SellsLast /\ BuysLast /\ FilledIsClosed
    BY DEF SellsInv
  <1>2. /\ pc = "place" /\ left = 0 /\ pc' = "select"
        /\ UNCHANGED <<exchangeVars, nextStateC, ticked, out, work, active, kline>>
        /\ state' = IF failed THEN state ELSE "OpenPositionReady"
    BY DEF Placed, ReadyUnlessFailed
  <1>3. state = "PositionOpening"
    BY <1>1, <1>2 DEF Stages
  <1>4. state' \in {"PositionOpening", "OpenPositionReady"}
    BY <1>2, <1>3
  <1>5. Stages'
    BY <1>1, <1>2, <1>3, <1>4 DEF Stages
  <1>6. SellsLast'
    <2>1. \A i \in IDs : orders[i].side = "SELL" => ~IsOpen(i)
      BY <1>3, NoneOpen
    <2> QED
      BY <1>1, <1>2, <2>1 DEF SellsLast, Of, IDs, LastID, IsOpen, exchangeVars
  <1>7. BuysLast'
    <2>1. CASE failed
      BY <1>2, <1>3, <2>1 DEF BuysLast
    <2>2. CASE ~failed
      <3>1. LastIsBuy
        BY <1>1, <1>2, <2>2 DEF BuysLast, Parameters
      <3> QED
        BY <1>2, <3>1 DEF BuysLast, LastIsBuy, LastID, exchangeVars
    <2> QED
      BY <1>1, <2>1, <2>2 DEF Types, ControlTypes
  <1>8. SellAwaited' /\ OpenIsOpened'
    BY <1>2, <1>4 DEF SellAwaited, OpenIsOpened
  <1>9. FilledIsClosed'
    BY <1>1, <1>2 DEF FilledIsClosed, IsOpen, exchangeVars
  <1> QED
    BY <1>5, <1>6, <1>7, <1>8, <1>9

LEMMA PlaceTakeProfitSells ==
    ASSUME SellsInv, PlaceTakeProfit, ~stale'
    PROVE  Stages' /\ SellsLast' /\ BuysLast' /\ SellAwaited' /\ FilledIsClosed' /\ OpenIsOpened'
  <1>1. /\ Types /\ Stages /\ BuysLast
    BY DEF SellsInv
  <1>2. /\ pc = "sell" /\ state = "OpenPositionOrdersCancelled"
        /\ pc' = "select" /\ state' = "TakeProfitReady"
        /\ nextStateC' = <<>>
        /\ UNCHANGED <<feed, kline>>
    BY <1>1 DEF PlaceTakeProfit, Stages
  <1>3. /\ LastID' = LastID + 1 /\ IDs' = IDs \cup {LastID + 1}
        /\ orders'[LastID + 1] = New("SELL", quantity) /\ \A i \in IDs : orders'[i] = orders[i]
        /\ active' = active \cup {LastID + 1}
    BY <1>1, PlaceTakeProfitIs
  <1>4. New("SELL", quantity).side = "SELL"
    BY DEF New
  <1>5. LastIsBuy /\ active = {}
    BY <1>1, <1>2 DEF BuysLast, Stages
  <1>6. SellsLast' /\ FilledIsClosed'
    BY <1>2, <1>3, <1>4, <1>5, GrowingSells
  <1>7. Stages'
    BY <1>1, <1>2 DEF Stages
  <1>8. BuysLast' /\ OpenIsOpened'
    BY <1>2 DEF BuysLast, OpenIsOpened
  <1>9. SellAwaited'
    BY <1>1, <1>2, <1>3, <1>4, <1>5, OrdersAre DEF SellAwaited, LastIsSell
  <1> QED
    BY <1>6, <1>7, <1>8, <1>9

LEMMA PlaceTakeProfitFailsSells ==
    ASSUME SellsInv, PlaceTakeProfitFails
    PROVE  Stages' /\ SellsLast' /\ BuysLast' /\ SellAwaited' /\ FilledIsClosed' /\ OpenIsOpened'
  <1>1. /\ Types /\ Stages /\ SellsLast /\ BuysLast /\ FilledIsClosed
    BY DEF SellsInv
  <1>2. /\ pc = "sell" /\ state = "OpenPositionOrdersCancelled" /\ pc' = "select"
        /\ UNCHANGED <<exchangeVars, state, nextStateC, left, failed, active, kline>>
    BY <1>1 DEF PlaceTakeProfitFails, Stages
  <1>3. Stages'
    BY <1>1, <1>2 DEF Stages
  <1>4. SellsLast' /\ BuysLast' /\ FilledIsClosed'
    BY <1>1, <1>2 DEF SellsLast, BuysLast, LastIsBuy, FilledIsClosed, Of, IDs, LastID, IsOpen, exchangeVars
  <1>5. SellAwaited' /\ OpenIsOpened'
    BY <1>2 DEF SellAwaited, OpenIsOpened
  <1> QED
    BY <1>3, <1>4, <1>5

LEMMA CloseRoundSells ==
    ASSUME SellsInv, CloseRound
    PROVE  Stages' /\ SellsLast' /\ BuysLast' /\ SellAwaited' /\ FilledIsClosed' /\ OpenIsOpened'
  <1>1. /\ Types /\ Stages /\ SellsLast /\ SellAwaited /\ FilledIsClosed
    BY DEF SellsInv
  <1>2. /\ pc = "select" /\ state = "TakeProfitReady" /\ state' = "WaitToOpenPosition"
        /\ nextStateC # <<>>
        /\ UNCHANGED <<exchangeVars, pc, out, work, bookVars, kline>>
    BY DEF CloseRound, Receive
  <1>3. Stages'
    BY <1>1, <1>2 DEF Stages, bookVars
  <1>4. SellsLast'
    BY <1>1, <1>2 DEF SellsLast, SellAwaited, Of, IDs, LastID, IsOpen, exchangeVars
  <1>5. BuysLast' /\ SellAwaited' /\ OpenIsOpened'
    BY <1>2 DEF BuysLast, SellAwaited, OpenIsOpened
  <1>6. FilledIsClosed'
    BY <1>1, <1>2 DEF FilledIsClosed, IsOpen, exchangeVars
  <1> QED
    BY <1>3, <1>4, <1>5, <1>6

LEMMA QueryOpenOrdersSells ==
    ASSUME SellsInv, QueryOpenOrders
    PROVE  Stages' /\ SellsLast' /\ BuysLast' /\ SellAwaited' /\ FilledIsClosed' /\ OpenIsOpened'
  <1>1. /\ Types /\ Stages /\ SellsLast /\ FilledIsClosed
    BY DEF SellsInv
  <1>2. /\ pc = "off" /\ pc' = "recover"
        /\ UNCHANGED <<exchangeVars, state, nextStateC, ticked, out, left, failed, bookVars, kline>>
    BY DEF QueryOpenOrders
  <1>3. state = "None"
    BY <1>1, <1>2 DEF Stages
  <1>4. Stages'
    BY <1>1, <1>2, <1>3 DEF Stages, bookVars
  <1>5. SellsLast' /\ FilledIsClosed'
    BY <1>1, <1>2 DEF SellsLast, FilledIsClosed, Of, IDs, LastID, IsOpen, exchangeVars
  <1>6. BuysLast' /\ SellAwaited'
    BY <1>2, <1>3 DEF BuysLast, SellAwaited
  <1>7. OpenIsOpened'
    <2>1. OpenedIDs' = {i \in IDs : IsOpen(i)}
      BY <1>1, QueryOpenOrdersTypes
    <2> QED
      BY <1>2, <2>1 DEF OpenIsOpened, IDs, IsOpen, exchangeVars
  <1> QED
    BY <1>4, <1>5, <1>6, <1>7

LEMMA CrashSells ==
    ASSUME SellsInv, Crash
    PROVE  Stages' /\ SellsLast' /\ BuysLast' /\ SellAwaited' /\ FilledIsClosed' /\ OpenIsOpened'
  <1>1. SellsLast
    BY DEF SellsInv
  <1>2. SellsLast'
    BY <1>1 DEF SellsLast, Of, IDs, LastID, IsOpen, Crash
  <1>3. Stages' /\ BuysLast' /\ SellAwaited' /\ OpenIsOpened'
    BY DEF Stages, BuysLast, SellAwaited, OpenIsOpened, Crash
  <1>4. FilledIsClosed'
    BY DEF FilledIsClosed, Crash
  <1> QED
    BY <1>2, <1>3, <1>4

(* The take-profit order of the current round is the last order, after a buy
   order of the round. *)
LEMMA SellsOfRound ==
    ASSUME Types, SellsLast
    PROVE  /\ LastID >= 1 => LastID \in CurrentRound
           /\ \A j \in Of("SELL") \cap CurrentRound : j = LastID /\ j - 1 \in Of("BUY") \cap CurrentRound
  <1>1. IDs = 1 .. LastID /\ LastID \in Nat /\ \A i \in IDs : orders[i].side \in {"BUY", "SELL"}
    BY OrdersAre
  <1>2. \A i \in CurrentRound : i \in IDs /\ \A j \in Of("SELL") : j >= i => j + 1 \notin Of("BUY")
    BY DEF CurrentRound
  <1>3. LastID >= 1 => LastID \in CurrentRound
    BY <1>1 DEF CurrentRound, Of
  <1>4. ASSUME NEW j \in Of("SELL") \cap CurrentRound
        PROVE  j = LastID /\ j - 1 \in Of("BUY") \cap CurrentRound
    <2>1. /\ j \in IDs /\ orders[j].side = "SELL"
          /\ j > 1 /\ orders[j - 1].side = "BUY"
      BY DEF SellsLast, Of
    <2>2. j = LastID
      <3> SUFFICES ASSUME j # LastID
                   PROVE  FALSE
        OBVIOUS
      <3>1. j + 1 \in IDs /\ j >= j
        BY <1>1, <2>1
      <3>2. j + 1 \notin Of("BUY")
        BY <1>2, <3>1
      <3>3. j + 1 \in Of("SELL")
        BY <1>1, <3>1, <3>2 DEF Of
      <3>4. orders[(j + 1) - 1].side = "BUY"
        BY <3>3 DEF SellsLast
      <3> QED
        BY <1>1, <2>1, <3>4
    <2>3. j - 1 \in Of("BUY")
      BY <1>1, <2>1 DEF Of
    <2>4. j - 1 \in CurrentRound
      <3> SUFFICES ASSUME NEW k \in Of("SELL"), k >= j - 1
                   PROVE  k + 1 \notin Of("BUY")
        BY <2>3 DEF CurrentRound, Of
      <3>1. k # j - 1 /\ k \in IDs
        BY <2>1 DEF Of
      <3>2. k = LastID
        BY <1>1, <2>1, <2>2, <3>1
      <3> QED
        BY <1>1, <3>2 DEF Of
    <2> QED
      BY <2>2, <2>3, <2>4
  <1> QED
    BY <1>3, <1>4

(* What state is recovered. *)
LEMMA RecoverStates ==
    ASSUME Types, SellsLast, RecoverState # "None"
    PROVE  \/ RecoverState = "WaitToOpenPosition" /\ (IDs = {} \/ opened = {})
           \/ RecoverState = "TakeProfitReady" /\ LastIsSell /\ OpenedIDs = {LastID}
           \/ RecoverState \in Bought /\ LastIsBuy
  <1> DEFINE buys == Of("BUY") \cap CurrentRound
             sells == Of("SELL") \cap CurrentRound
  <1>1. /\ IDs = 1 .. LastID /\ LastID \in Nat /\ \A i \in IDs : orders[i].side \in {"BUY", "SELL"}
        /\ \A i \in CurrentRound : i \in IDs
    BY OrdersAre DEF CurrentRound
  <1>2. CASE sells # {}
    <2>1. sells = {LastID} /\ buys # {} /\ LastIsSell
      BY <1>1, <1>2, SellsOfRound DEF LastIsSell, Of
    <2>2. \/ RecoverState = "WaitToOpenPosition" /\ opened = {}
          \/ RecoverState = "TakeProfitReady" /\ OpenedIDs = sells
      BY <2>1 DEF RecoverState
    <2> QED
      BY <2>1, <2>2
  <1>3. CASE sells = {} /\ buys = {}
    <2>1. LastID \notin CurrentRound
      BY <1>1, <1>3 DEF Of
    <2>2. IDs = {}
      BY <1>1, <2>1, SellsOfRound
    <2>3. RecoverState = "WaitToOpenPosition"
      <3>1. Count(sells) > 1 => RecoverState = "None"
        BY DEF RecoverState
      <3> QED
        BY <1>3, <3>1 DEF RecoverState
    <2> QED
      BY <2>2, <2>3
  <1>4. CASE sells = {} /\ buys # {}
    <2>1. RecoverState = StateOfBuys(buys)
      <3>1. Count(sells) > 1 => RecoverState = "None"
        BY DEF RecoverState
      <3> QED
        BY <1>4, <3>1 DEF RecoverState
    <2>2. StateOfBuys(buys) \in Bought \cup {"None"}
      BY DEF StateOfBuys, Bought
    <2>3. LastIsBuy
      <3>1. LastID >= 1
        BY <1>1, <1>4
      <3> QED
        BY <1>1, <1>4, <3>1, SellsOfRound DEF LastIsBuy, Of
    <2> QED
      BY <2>1, <2>2, <2>3
  <1> QED
    BY <1>2, <1>3, <1>4

LEMMA RecoverSells ==
    ASSUME SellsInv, Recover
    PROVE  Stages' /\ SellsLast' /\ BuysLast' /\ SellAwaited' /\ FilledIsClosed' /\ OpenIsOpened'
  <1>1. /\ Types /\ Stages /\ SellsLast /\ FilledIsClosed /\ OpenIsOpened
    BY DEF SellsInv
  <1>2. /\ pc = "recover" /\ pc' = "select" /\ RecoverState # "None"
        /\ state' = RecoverState
        /\ UNCHANGED <<exchangeVars, kline>>
    BY DEF Recover
  <1>3. state = "None" /\ active = {} /\ nextStateC = <<>> /\ ~kline
    BY <1>1, <1>2 DEF Stages
  <1>4. \/ state' = "WaitToOpenPosition" /\ (IDs = {} \/ opened = {})
        \/ state' = "TakeProfitReady" /\ LastIsSell /\ OpenedIDs = {LastID}
        \/ state' \in Bought /\ LastIsBuy
    BY <1>1, <1>2, RecoverStates
  <1>5. Stages'
    <2>1. state' = "OpenPositionOrdersCancelled" => active' = active
      BY <1>2 DEF Recover, Readopt
    <2> QED
      BY <1>2, <1>3, <2>1 DEF Stages
  <1>6. SellsLast'
    <2>1. ASSUME NEW i \in Of("SELL"), IsOpen(i)
          PROVE  i = LastID /\ state' \in {"None", "TakeProfitReady"}
      <3>1. i = LastID /\ i \in IDs /\ orders[i].side = "SELL"
        BY <1>1, <2>1 DEF SellsLast, Of
      <3>2. i \in OpenedIDs
        BY <1>1, <1>2, <2>1, <3>1 DEF OpenIsOpened
      <3>3. opened # {}
        BY <3>2 DEF OpenedIDs
      <3> QED
        BY <1>4, <3>1, <3>3 DEF LastIsBuy
    <2> QED
      BY <1>1, <1>2, <2>1 DEF SellsLast, Of, IDs, LastID, IsOpen, exchangeVars
  <1>7. BuysLast'
    BY <1>2, <1>4 DEF BuysLast, LastIsBuy, LastID, exchangeVars
  <1>8. SellAwaited'
    <2> SUFFICES ASSUME state' = "TakeProfitReady"
                 PROVE  /\ LastIsSell'
                        /\ active' \subseteq {LastID}
                        /\ orders[LastID].status = "New" => LastID \in active' /\ nextStateC' = <<>>
      BY <1>2 DEF SellAwaited, LastID, IsOpen, exchangeVars
    <2>1. LastIsSell /\ OpenedIDs = {LastID}
      BY <1>4 DEF Bought
    <2>2. LastIsSell'
      BY <1>2, <2>1 DEF LastIsSell, LastID, exchangeVars
    <2>3. /\ active' = OpenedIDs \ PutAside
          /\ PutAside # {} \/ nextStateC' = nextStateC
      BY <1>2 DEF Recover, Readopt
    <2>4. \A i \in PutAside : i = LastID /\ orders[i].status = "Filled"
      BY <2>1 DEF PutAside
    <2> QED
      BY <1>3, <2>1, <2>2, <2>3, <2>4
  <1>9. FilledIsClosed'
    BY <1>1, <1>2 DEF FilledIsClosed, IsOpen, exchangeVars
  <1>10. OpenIsOpened'
    BY <1>2 DEF OpenIsOpened
  <1> QED
    BY <1>5, <1>6, <1>7, <1>8, <1>9, <1>10

LEMMA InitSells ==
    ASSUME Parameters, Init
    PROVE  SellsInv
  <1>1. Types
    BY InitTypes
  <1>2. IDs = {} /\ DOMAIN feed = {}
    BY DEF Init, IDs
  <1>3. SellsLast /\ FilledIsClosed
    BY <1>2 DEF SellsLast, FilledIsClosed, Of
  <1>4. Stages /\ BuysLast /\ SellAwaited /\ OpenIsOpened
    BY DEF Init, Stages, BuysLast, SellAwaited, OpenIsOpened
  <1> QED
    BY <1>1, <1>3, <1>4 DEF SellsInv

(* A signal that was stale has been. *)
LEMMA StaleStays ==
    ASSUME [Next]_vars, ~stale'
    PROVE  ~stale
  <1> USE DEF bounds, Receive
  <1>1. CASE ControlStep
    BY <1>1, ControlFrame
  <1>2. CASE FillStep \/ HandleFill \/ CancelStep
    BY <1>2 DEF FillStep, Fill, HandleFill, CancelStep, CancelOne
  <1>3. CASE OpenRound \/ Place \/ Placed \/ CloseRound
    BY <1>3 DEF OpenRound, Place, Placed, CloseRound
  <1>4. CASE PlaceTakeProfit \/ PlaceTakeProfitFails
    BY <1>4 DEF PlaceTakeProfit, PlaceTakeProfitFails
  <1>5. CASE QueryOpenOrders \/ Recover \/ Crash
    BY <1>5 DEF QueryOpenOrders, Recover, Crash
  <1>6. CASE UNCHANGED vars
    BY <1>6 DEF vars
  <1> QED
    BY <1>1, <1>2, <1>3, <1>4, <1>5, <1>6, NextIs

LEMMA NextSells ==
    ASSUME Parameters, SellsInv, [Next]_vars, ~stale'
    PROVE  SellsInv'
  <1>1. Types'
    BY NextTypes DEF SellsInv
  <1>2. Stages' /\ SellsLast' /\ BuysLast' /\ SellAwaited' /\ FilledIsClosed' /\ OpenIsOpened'
    <2>1. CASE Next
      BY <2>1, NextIs, FillSells, HandleFillSells, ControlSells, OpenRoundSells, PlaceSells, PlacedSells,
         CancelSells, PlaceTakeProfitSells, PlaceTakeProfitFailsSells, CloseRoundSells, QueryOpenOrdersSells,
         RecoverSells, CrashSells
    <2>2. CASE UNCHANGED vars
      BY <2>2 DEF SellsInv, Stages, SellsLast, BuysLast, SellAwaited, FilledIsClosed, OpenIsOpened,
                  LastIsBuy, LastIsSell, LastID, OpenedIDs, Of, IDs, IsOpen,
                  vars, exchangeVars, stateVars, loop, work, bookVars, statsVars, bounds
    <2> QED
      BY <2>1, <2>2
  <1> QED
    BY <1>1, <1>2 DEF SellsInv

(* Once a signal was stale, nothing but types is claimed. *)
SellsUnlessStale == Types /\ (~stale => SellsInv)

LEMMA NextSellsUnlessStale ==
    ASSUME Parameters, SellsUnlessStale, [Next]_vars
    PROVE  SellsUnlessStale'
  <1>1. Types'
    BY NextTypes DEF SellsUnlessStale
  <1>2. ASSUME ~stale'
        PROVE  SellsInv'
    BY <1>2, StaleStays, NextSells DEF SellsUnlessStale
  <1> QED
    BY <1>1, <1>2 DEF SellsUnlessStale

(* Until a late K-line signal is left for TakeProfitReady, no buy order the
   strategy follows is open beside a take-profit order, and the orders of a
   round are placed when there is none: whatever other signals are received in
   whatever order, through failed submissions and crashes
   (pkg/strategy/dca2/state.go). *)
THEOREM SellsAloneInvariant == Parameters => (Spec => []SellsAlone)
<1> SUFFICES ASSUME Parameters
             PROVE  Spec => []SellsAlone
  OBVIOUS
<1>1. Init => SellsUnlessStale
  BY InitSells, InitTypes DEF SellsUnlessStale
<1>2. SellsUnlessStale /\ [Next]_vars => SellsUnlessStale'
  BY NextSellsUnlessStale
<1>3. SellsUnlessStale => SellsAlone
  <2> SUFFICES ASSUME SellsUnlessStale, ~stale
               PROVE  SellsAlone
    BY DEF SellsAlone
  <2>1. Stages /\ SellsLast /\ SellAwaited
    BY DEF SellsUnlessStale, SellsInv
  <2>2. OpenOf("SELL") # {} => state \in {"None", "TakeProfitReady"}
    BY <2>1 DEF OpenOf, SellsLast
  <2>3. pc = "place" => OpenOf("SELL") = {}
    BY <2>1, <2>2 DEF Stages
  <2>4. ASSUME OpenOf("SELL") # {}
        PROVE  OpenOf("BUY") \cap active = {}
    <3>1. CASE state = "None"
      BY <2>1, <3>1 DEF Stages
    <3>2. CASE state = "TakeProfitReady"
      <4>1. active \subseteq {LastID} /\ orders[LastID].side = "SELL"
        BY <2>1, <3>2 DEF SellAwaited, LastIsSell
      <4> QED
        BY <4>1 DEF OpenOf, Of
    <3> QED
      BY <2>2, <2>4, <3>1, <3>2
  <2> QED
    BY <2>3, <2>4 DEF SellsAlone
<1> QED
  BY <1>1, <1>2, <1>3, PTL DEF Spec

-----------------------------------------------------------------------------
(***************************************************************************)
(* Rounds end settled                                                      *)
(***************************************************************************)
(* With no trade put aside, a Process changes nothing. *)
LEMMA ProcessNothing ==
    ASSUME Types, DOMAIN waiting = {}, NEW ids, Process(ids)
    PROVE  base' = base /\ DOMAIN waiting' = {}
  <1> DEFINE f == [i \in DOMAIN waiting |-> Change(i, waiting[i])]
  <1>1. base' = base + SumFunctionOnSet(f, DOMAIN waiting \cap ids) /\ waiting' = Restrict(waiting, DOMAIN waiting \ ids)
    BY DEF Process
  <1> HIDE DEF f
  <1>2. DOMAIN waiting \cap ids = {} /\ DOMAIN waiting \ ids = {}
    OBVIOUS
  <1>3. SumFunctionOnSet(f, {}) = 0
    BY SumEmpty
  <1>4. base \in Int
    BY DEF Types, BookTypes
  <1> QED
    BY <1>1, <1>2, <1>3, <1>4 DEF Restrict

(* The first start finds nothing. *)
LEMMA NothingFound ==
    ASSUME Types, IDs = {}
    PROVE  RecoverState = "WaitToOpenPosition" /\ RecoverPosition = 0
  <1>1. CurrentRound = {} /\ Of("SELL") = {} /\ Of("BUY") = {}
    BY DEF CurrentRound, Of
  <1>2. Of("BUY") \cap CurrentRound = {} /\ Of("SELL") \cap CurrentRound = {}
    BY <1>1
  <1>3. Count({}) = 0
    <2>1. {i \in {} \cap OpenedIDs : ~IsOpen(i)} = {}
      OBVIOUS
    <2> QED
      BY <2>1, FS_EmptySet DEF Count
  <1>4. RecoverState = "WaitToOpenPosition"
    BY <1>2, <1>3 DEF RecoverState
  <1>5. RecoverPosition = 0
    <2> DEFINE recorded == {o.id : o \in {r \in opened : r.executed > 0}} \cap CurrentRound
               closed == {i \in CurrentRound : ~IsOpen(i)}
               changes(ids) == SumFunctionOnSet([i \in IDs |-> Change(i, orders[i].executed)], ids)
    <2>1. recorded = {} /\ closed = {}
      BY <1>1
    <2>2. changes({}) = 0
      BY SumEmpty
    <2>3. RecoverPosition = 0 \/ RecoverPosition = changes(recorded) + changes(closed)
      BY DEF RecoverPosition
    <2> HIDE DEF recorded, closed, changes
    <2> QED
      BY <2>1, <2>2, <2>3
  <1> QED
    BY <1>4, <1>5

(* Nothing fails in a first start. *)
LEMMA ControlFresh ==
    ASSUME Parameters, Types, Stages, Fresh, ControlStep
    PROVE  Fresh'
  <1>1. /\ orders' = orders /\ feed' = feed /\ store' = store /\ waiting' = waiting
        /\ stats' = stats /\ opened' = opened
    BY ControlFrame
  <1>2. state = "None" <=> state' = "None"
    BY ControlMoves
  <1>3. pc' \notin {"down", "failed"}
    <2> USE DEF Fresh, exchangeVars, stateVars, loop, work, bookVars, statsVars, bounds, Receive
    <2>1. CASE OnKLine \/ KLineEmits \/ Ticks \/ Tick \/ Send \/ TooEarly \/ BeginPlacing \/ PlaceFails \/ BeginSelling
      BY <2>1 DEF OnKLine, KLineEmits, Ticks, Tick, Send, TooEarly, BeginPlacing, PlaceFails, BeginSelling
    <2>2. CASE OrderFilled \/ TargetReached \/ BeginCancelling \/ Cancelled
      BY <2>2 DEF OrderFilled, TargetReached, BeginCancelling, Cancelled
    <2>3. CASE FoundStep
      BY <2>3 DEF FoundStep, FoundFilled
    <2>4. CASE RecoverFails
      <3>1. state = "None" /\ RecoverState = "None"
        BY <2>4 DEF RecoverFails, Stages
      <3>2. IDs = {}
        BY <3>1 DEF IDs
      <3> QED
        BY <3>1, <3>2, NothingFound
    <2>5. CASE Restart
      BY <2>5 DEF Restart
    <2> QED
      BY <2>1, <2>2, <2>3, <2>4, <2>5 DEF ControlStep
  <1> QED
    BY <1>1, <1>2, <1>3 DEF Fresh, IDs

LEMMA NextFresh ==
    ASSUME Parameters, SellsInv, Fresh, Next, crashes = 0, crashes' = 0
    PROVE  Fresh'
  <1>1. Types /\ Stages
    BY DEF SellsInv
  <1>2. /\ pc \notin {"down", "failed"} /\ store = IDs /\ DOMAIN waiting = {}
        /\ state = "None" => orders = <<>> /\ feed = <<>>
    BY DEF Fresh
  <1>3. IDs # {} => state # "None"
    BY <1>2 DEF IDs
  <1>4. CASE FillStep
    <2>1. PICK i \in IDs : Fill(i)
      BY <1>4 DEF FillStep
    <2>2. IDs' = IDs
      BY <1>1, <2>1, FillIs
    <2>3. UNCHANGED <<state, pc, opened, store, waiting, stats>>
      BY <2>1 DEF Fill, stateVars, loop, work, bookVars, statsVars
    <2> QED
      BY <1>2, <1>3, <2>2, <2>3 DEF Fresh
  <1>5. CASE HandleFill
    <2>1. Head(feed).order \in IDs /\ feed # <<>>
      BY <1>1, <1>5, FeedParts DEF HandleFill
    <2>2. waiting' = waiting
      BY <1>2, <1>5, <2>1 DEF HandleFill, ProcessTrade
    <2>3. UNCHANGED <<orders, state, pc, store>>
      BY <1>5 DEF HandleFill, loop
    <2> QED
      BY <1>2, <2>1, <2>2, <2>3 DEF Fresh, IDs
  <1>6. CASE ControlStep
    BY <1>1, <1>6, ControlFresh
  <1>7. CASE OpenRound
    BY <1>2, <1>7 DEF OpenRound, Receive, Fresh, IDs, exchangeVars, loop
  <1>8. CASE Place
    <2>1. IDs' = IDs \cup {LastID + 1} /\ store' = store \cup {LastID + 1}
      BY <1>1, <1>8, PlaceIs
    <2>2. pc = "place" /\ UNCHANGED <<state, pc, waiting>>
      BY <1>8 DEF Place, loop
    <2> QED
      BY <1>1, <1>2, <2>1, <2>2 DEF Fresh, Stages
  <1>9. CASE Placed
    <2>1. DOMAIN waiting' = {}
      BY <1>1, <1>2, <1>9, ProcessNothing DEF Placed
    <2>2. state' # "None" /\ pc' = "select" /\ UNCHANGED <<orders, store>>
      BY <1>1, <1>9 DEF Placed, ReadyUnlessFailed, Stages, exchangeVars
    <2> QED
      BY <1>2, <2>1, <2>2 DEF Fresh, IDs
  <1>10. CASE CancelStep
    <2>1. PICK i \in IDs : CancelOne(i)
      BY <1>10 DEF CancelStep
    <2>2. IDs' = IDs
      BY <1>1, <2>1, CancelOneIs
    <2>3. UNCHANGED <<state, pc, store, waiting>>
      BY <2>1 DEF CancelOne, stateVars, loop, bookVars
    <2> QED
      BY <1>2, <1>3, <2>2, <2>3 DEF Fresh
  <1>11. CASE PlaceTakeProfit
    <2>1. IDs' = IDs \cup {LastID + 1} /\ store' = store \cup {LastID + 1}
      BY <1>1, <1>11, PlaceTakeProfitIs
    <2>2. DOMAIN waiting' = {}
      BY <1>1, <1>2, <1>11, ProcessNothing DEF PlaceTakeProfit
    <2>3. state' # "None" /\ pc' = "select"
      BY <1>11 DEF PlaceTakeProfit
    <2> QED
      BY <1>2, <2>1, <2>2, <2>3 DEF Fresh
  <1>12. CASE PlaceTakeProfitFails
    <2>1. DOMAIN waiting' = {}
      BY <1>1, <1>2, <1>12, ProcessNothing DEF PlaceTakeProfitFails
    <2>2. state # "None" /\ pc' = "select" /\ UNCHANGED <<state, orders, store>>
      BY <1>1, <1>12 DEF PlaceTakeProfitFails, Stages, exchangeVars
    <2> QED
      BY <1>2, <2>1, <2>2 DEF Fresh, IDs
  <1>13. CASE CloseRound
    BY <1>2, <1>13 DEF CloseRound, Fresh, IDs, exchangeVars, bookVars
  <1>14. CASE QueryOpenOrders
    <2>1. orders = <<>> /\ feed = <<>> /\ state = "None"
      BY <1>1, <1>2, <1>14 DEF QueryOpenOrders, Stages
    <2>2. IDs = {}
      BY <2>1 DEF IDs
    <2>3. opened' = {} /\ pc' = "recover"
      BY <1>14, <2>2 DEF QueryOpenOrders
    <2> QED
      BY <1>14, <2>1, <2>3 DEF Fresh, QueryOpenOrders, IDs, exchangeVars, bookVars, statsVars
  <1>15. CASE Recover
    <2>1. state = "None"
      BY <1>1, <1>15 DEF Recover, Stages
    <2>2. IDs = {}
      BY <1>2, <2>1 DEF IDs
    <2>3. RecoverState = "WaitToOpenPosition"
      BY <1>1, <2>2, NothingFound
    <2>4. UNCHANGED store
      BY <1>15, <2>3 DEF Recover, Readopt
    <2> QED
      BY <1>2, <1>15, <2>3, <2>4 DEF Recover, Fresh, IDs, exchangeVars
  <1>16. CASE Crash
    BY <1>16 DEF Crash
  <1> QED
    BY <1>4, <1>5, <1>6, <1>7, <1>8, <1>9, <1>10, <1>11, <1>12, <1>13, <1>14, <1>15, <1>16, NextIs

LEMMA ControlFollowing ==
    ASSUME Parameters, SellsInv, Following, ControlStep
    PROVE  Following'
  <1>1. Types /\ Stages
    BY DEF SellsInv
  <1>2. orders' = orders /\ IDs' = IDs /\ LastID' = LastID
    BY ControlFrame DEF IDs, LastID
  <1>3. \A i \in IDs : IsOpen(i) => i \in active
    BY DEF Following
  <1>4. CASE FoundStep
    <2>1. PICK i \in IDs : FoundFilled(i)
      BY <1>4 DEF FoundStep
    <2>2. ~IsOpen(i) /\ active' = active \ {i} /\ state' = state
      BY <2>1 DEF FoundFilled, IsOpen
    <2> QED
      BY <1>2, <2>2 DEF Following, IsOpen
  <1>5. CASE Cancelled
    <2>1. \A i \in active : ~IsOpen(i)
      BY <1>5 DEF Cancelled, AllClosed, IsOpen
    <2>2. \A i \in IDs : ~IsOpen(i)
      BY <1>3, <2>1
    <2> QED
      BY <1>2, <2>2 DEF Following, IsOpen
  <1>6. CASE ~FoundStep /\ ~Cancelled
    <2> USE DEF exchangeVars, stateVars, loop, work, bookVars, statsVars, bounds, Receive
    <2>1. active' = active
      <3>1. CASE OnKLine \/ KLineEmits \/ Ticks \/ Tick \/ Send \/ TooEarly \/ BeginPlacing \/ PlaceFails \/ BeginSelling
        BY <3>1 DEF OnKLine, KLineEmits, Ticks, Tick, Send, TooEarly, BeginPlacing, PlaceFails, BeginSelling
      <3>2. CASE OrderFilled \/ TargetReached \/ BeginCancelling \/ RecoverFails \/ Restart
        BY <3>2 DEF OrderFilled, TargetReached, BeginCancelling, RecoverFails, Restart
      <3> QED
        BY <1>6, <3>1, <3>2 DEF ControlStep
    <2>2. state' = state \/ state' \in {"OpenPositionOrderFilled", "OpenPositionOrdersCancelling"}
      <3>1. CASE OnKLine \/ KLineEmits \/ Ticks \/ Tick \/ Send \/ TooEarly \/ BeginPlacing \/ PlaceFails \/ BeginSelling
        BY <3>1 DEF OnKLine, KLineEmits, Ticks, Tick, Send, TooEarly, BeginPlacing, PlaceFails, BeginSelling
      <3>2. CASE OrderFilled \/ TargetReached \/ BeginCancelling \/ RecoverFails \/ Restart
        BY <3>2 DEF OrderFilled, TargetReached, BeginCancelling, RecoverFails, Restart
      <3> QED
        BY <1>6, <3>1, <3>2 DEF ControlStep
    <2> QED
      BY <1>2, <2>1, <2>2 DEF Following, IsOpen
  <1> QED
    BY <1>4, <1>5, <1>6

(* Orders filled or closed in their places stay followed. *)
LEMMA ClosingFollowing ==
    ASSUME Following, IDs' = IDs, LastID' = LastID, state' = state,
           \A j \in IDs : IsOpen(j)' => IsOpen(j),
           \A j \in IDs : IsOpen(j)' /\ j \in active => j \in active'
    PROVE  Following'
  <1>1. \A j \in IDs : IsOpen(j)' => j \in active'
    BY DEF Following
  <1>2. state' \in {"WaitToOpenPosition", "OpenPositionOrdersCancelled"} => \A i \in IDs' : ~(IsOpen(i)')
    BY DEF Following
  <1>3. state' = "TakeProfitReady" => \A i \in IDs' : IsOpen(i)' => i = LastID'
    BY DEF Following
  <1> QED
    BY <1>1, <1>2, <1>3 DEF Following

LEMMA NextFollowing ==
    ASSUME Parameters, SellsInv, Fresh, Following, Next, crashes = 0, crashes' = 0
    PROVE  Following'
  <1>1. Types /\ Stages /\ SellAwaited /\ FilledIsClosed
    BY DEF SellsInv
  <1>2. /\ \A i \in IDs : IsOpen(i) => i \in active
        /\ state \in {"WaitToOpenPosition", "OpenPositionOrdersCancelled"} => \A i \in IDs : ~IsOpen(i)
        /\ state = "TakeProfitReady" => \A i \in IDs : IsOpen(i) => i = LastID
    BY DEF Following
  <1>3. CASE FillStep
    <2>1. PICK i \in IDs : Fill(i)
      BY <1>3 DEF FillStep
    <2>2. /\ IDs' = IDs /\ LastID' = LastID /\ IsOpen(i)
          /\ \A j \in IDs : j # i => orders'[j] = orders[j]
      BY <1>1, <2>1, FillIs
    <2>3. active' = active /\ state' = state
      BY <2>1 DEF Fill, stateVars, bookVars
    <2>4. \A j \in IDs : IsOpen(j)' => IsOpen(j)
      BY <2>2 DEF IsOpen
    <2> QED
      BY <2>2, <2>3, <2>4, ClosingFollowing
  <1>4. CASE HandleFill
    <2>1. Head(feed).filled => ~IsOpen(Head(feed).order)
      BY <1>1, <1>4, FeedParts DEF HandleFill, FilledIsClosed
    <2>2. /\ orders' = orders /\ state' = state
          /\ active' = active \/ (Head(feed).filled /\ active' = active \ {Head(feed).order})
      BY <1>4 DEF HandleFill
    <2> QED
      BY <1>2, <2>1, <2>2 DEF Following, IsOpen, IDs, LastID
  <1>5. CASE ControlStep
    BY <1>5, ControlFollowing
  <1>6. CASE OpenRound
    BY <1>2, <1>6 DEF OpenRound, Following, IsOpen, IDs, exchangeVars
  <1>7. CASE Place
    <2>1. /\ IDs' = IDs \cup {LastID + 1} /\ active' = active \cup {LastID + 1}
          /\ \A i \in IDs : orders'[i] = orders[i]
      BY <1>1, <1>7, PlaceIs
    <2>2. state' = "PositionOpening"
      BY <1>1, <1>7 DEF Place, Stages
    <2> QED
      BY <1>2, <2>1, <2>2 DEF Following, IsOpen
  <1>8. CASE Placed
    <2>1. state' \in {"PositionOpening", "OpenPositionReady"} /\ UNCHANGED <<orders, active>>
      BY <1>1, <1>8 DEF Placed, ReadyUnlessFailed, Stages, exchangeVars
    <2> QED
      BY <1>2, <2>1 DEF Following, IsOpen, IDs
  <1>9. CASE CancelStep
    <2>1. PICK i \in IDs : CancelOne(i)
      BY <1>9 DEF CancelStep
    <2>2. /\ IDs' = IDs /\ LastID' = LastID /\ IsOpen(i)
          /\ \A j \in IDs : j # i => orders'[j] = orders[j]
      BY <1>1, <2>1, CancelOneIs
    <2>3. active' = active /\ state' = state
      BY <2>1 DEF CancelOne, stateVars, bookVars
    <2>4. \A j \in IDs : IsOpen(j)' => IsOpen(j)
      BY <2>2 DEF IsOpen
    <2> QED
      BY <2>2, <2>3, <2>4, ClosingFollowing
  <1>10. CASE PlaceTakeProfit
    <2>1. /\ LastID' = LastID + 1 /\ IDs' = IDs \cup {LastID + 1} /\ active' = active \cup {LastID + 1}
          /\ \A i \in IDs : orders'[i] = orders[i]
      BY <1>1, <1>10, PlaceTakeProfitIs
    <2>2. state = "OpenPositionOrdersCancelled" /\ state' = "TakeProfitReady"
      BY <1>1, <1>10 DEF PlaceTakeProfit, Stages
    <2> QED
      BY <1>2, <2>1, <2>2 DEF Following, IsOpen
  <1>11. CASE PlaceTakeProfitFails
    BY <1>2, <1>11 DEF PlaceTakeProfitFails, Following, IsOpen, IDs, LastID, exchangeVars
  <1>12. CASE CloseRound
    <2>1. /\ state = "TakeProfitReady" /\ nextStateC # <<>> /\ state' = "WaitToOpenPosition"
          /\ UNCHANGED <<orders, active>>
      BY <1>12 DEF CloseRound, Receive, exchangeVars, bookVars
    <2>2. \A i \in IDs : ~IsOpen(i)
      BY <1>1, <1>2, <2>1 DEF SellAwaited
    <2> QED
      BY <2>1, <2>2 DEF Following, IsOpen, IDs
  <1>13. CASE QueryOpenOrders
    BY <1>2, <1>13 DEF QueryOpenOrders, Following, IsOpen, IDs, LastID, exchangeVars, bookVars
  <1>14. CASE Recover
    <2>1. state = "None" /\ orders' = orders
      BY <1>1, <1>14 DEF Recover, Stages, exchangeVars
    <2>2. IDs' = {}
      BY <2>1 DEF Fresh, IDs
    <2> QED
      BY <2>2 DEF Following
  <1>15. CASE Crash
    BY <1>15 DEF Crash
  <1> QED
    BY <1>3, <1>4, <1>5, <1>6, <1>7, <1>8, <1>9, <1>10, <1>11, <1>12, <1>13, <1>14, <1>15, NextIs

(* The sums are those of integers. *)
LEMMA FlowTypes ==
    ASSUME Types
    PROVE  /\ DOMAIN feed = 1 .. Len(feed) /\ Len(feed) \in Nat /\ IsFiniteSet(DOMAIN feed)
           /\ \A n \in DOMAIN feed : feed[n].order \in IDs /\ feed[n].qty \in Nat
                                     /\ Change(feed[n].order, feed[n].qty) \in Int
           /\ Flow \in Int
  <1>1. feed \in Seq(Update) /\ \A n \in DOMAIN feed : feed[n].order \in IDs
    BY DEF Types, OrderTypes
  <1>2. DOMAIN feed = 1 .. Len(feed) /\ Len(feed) \in Nat /\ \A n \in DOMAIN feed : feed[n] \in Update
    BY <1>1
  <1>3. \A n \in DOMAIN feed : feed[n].qty \in Nat
    BY <1>2 DEF Update
  <1>4. \A n \in DOMAIN feed : Change(feed[n].order, feed[n].qty) \in Int
    BY <1>3, ChangeType
  <1>5. IsFiniteSet(DOMAIN feed)
    BY <1>2, FS_Interval
  <1> DEFINE f == [n \in DOMAIN feed |-> Change(feed[n].order, feed[n].qty)]
  <1>6. \A n \in DOMAIN feed : f[n] \in Int
    BY <1>4
  <1>7. Flow = SumFunctionOnSet(f, DOMAIN feed)
    BY DEF Flow
  <1> HIDE DEF f
  <1>8. Flow \in Int
    BY <1>5, <1>6, <1>7, SumType
  <1> QED
    BY <1>1, <1>2, <1>3, <1>4, <1>5, <1>8

LEMMA ExecutedTypes ==
    ASSUME Types
    PROVE  Executed("BUY") \in Int /\ Executed("SELL") \in Int
  <1>1. Of("BUY") \in SUBSET IDs /\ Of("SELL") \in SUBSET IDs
    BY DEF Of
  <1> QED
    BY <1>1, SumOfTypes DEF Executed

(* The changes of the fills under way when the sides of the orders stay. *)
LEMMA FlowKept ==
    ASSUME Types, feed' = feed, \A i \in IDs : orders'[i].side = orders[i].side
    PROVE  Flow' = Flow
  <1> DEFINE f == [n \in DOMAIN feed |-> Change(feed[n].order, feed[n].qty)]
             g == [n \in DOMAIN feed |-> IF orders'[feed[n].order].side = "BUY" THEN feed[n].qty ELSE -feed[n].qty]
  <1>1. \A n \in DOMAIN feed : f[n] \in Int /\ f[n] = g[n]
    BY FlowTypes DEF Change
  <1>2. Flow = SumFunctionOnSet(f, DOMAIN feed)
    BY DEF Flow
  <1>3. Flow' = SumFunctionOnSet(g, DOMAIN feed)
    BY DEF Flow, Change
  <1> HIDE DEF f, g
  <1> QED
    BY <1>1, <1>2, <1>3, FlowTypes, SumAgree

LEMMA FlowGrows ==
    ASSUME Types, NEW u \in Update, u.order \in IDs, feed' = Append(feed, u),
           \A i \in IDs : orders'[i].side = orders[i].side
    PROVE  Flow' = Flow + Change(u.order, u.qty)
  <1> DEFINE f == [n \in DOMAIN feed |-> Change(feed[n].order, feed[n].qty)]
             g == [n \in DOMAIN feed' |-> IF orders'[feed'[n].order].side = "BUY" THEN feed'[n].qty ELSE -feed'[n].qty]
             last == Len(feed) + 1
  <1>1. /\ DOMAIN feed' = DOMAIN feed \cup {last} /\ last \notin DOMAIN feed
        /\ feed'[last] = u /\ \A n \in DOMAIN feed : feed'[n] = feed[n]
    BY FeedGrows
  <1>2. u.qty \in Nat
    BY DEF Update
  <1>3. /\ \A n \in DOMAIN feed : f[n] \in Int /\ f[n] = g[n]
        /\ g[last] = Change(u.order, u.qty) /\ g[last] \in Int
    BY <1>1, <1>2, FlowTypes DEF Change
  <1>4. Flow = SumFunctionOnSet(f, DOMAIN feed)
    BY DEF Flow
  <1>5. Flow' = SumFunctionOnSet(g, DOMAIN feed')
    BY DEF Flow, Change
  <1> HIDE DEF f, g, last
  <1>6. SumFunctionOnSet(g, DOMAIN feed \cup {last}) = g[last] + SumFunctionOnSet(g, DOMAIN feed)
    BY <1>1, <1>3, FlowTypes, SumAdd
  <1>7. SumFunctionOnSet(f, DOMAIN feed) = SumFunctionOnSet(g, DOMAIN feed)
    BY <1>3, FlowTypes, SumAgree
  <1> QED
    BY <1>1, <1>3, <1>4, <1>5, <1>6, <1>7, FlowTypes

LEMMA FlowShrinks ==
    ASSUME Types, feed # <<>>, feed' = Tail(feed), orders' = orders
    PROVE  Flow = Change(Head(feed).order, Head(feed).qty) + Flow' /\ Flow' \in Int
  <1> DEFINE f == [n \in DOMAIN feed |-> Change(feed[n].order, feed[n].qty)]
             g == [n \in DOMAIN feed' |-> Change(feed'[n].order, feed'[n].qty)]
             size == Len(feed) - 1
  <1>1. Len(feed) \in Nat \ {0} /\ DOMAIN feed = 1 .. Len(feed)
    BY EmptySeq DEF Types, OrderTypes
  <1>2. size \in Nat /\ DOMAIN feed = 1 .. size + 1
    BY <1>1
  <1>3. DOMAIN feed' = 1 .. size
    BY <1>1 DEF Types, OrderTypes
  <1>4. Head(feed) = feed[1] /\ \A n \in DOMAIN feed' : feed'[n] = feed[n + 1] /\ n + 1 \in DOMAIN feed
    BY FeedParts
  <1>5. /\ \A k \in 1 .. size + 1 : f[k] \in Int
        /\ \A k \in 1 .. size : g[k] = f[k + 1]
        /\ f[1] = Change(Head(feed).order, Head(feed).qty)
    BY <1>2, <1>3, <1>4, FlowTypes
  <1>6. Flow = SumFunctionOnSet(f, 1 .. size + 1)
    BY <1>2 DEF Flow
  <1>7. Flow' = SumFunctionOnSet(g, 1 .. size)
    BY <1>3 DEF Flow, Change
  <1> HIDE DEF f, g, size
  <1>8. \A k \in 1 .. size : g[k] \in Int
    <2>1. \A k \in 1 .. size : k + 1 \in 1 .. size + 1
      BY <1>2
    <2> QED
      BY <1>5, <2>1
  <1>9. IsFiniteSet(1 .. size)
    BY <1>2, FS_Interval
  <1> QED
    BY <1>2, <1>5, <1>6, <1>7, <1>8, <1>9, SumShift, SumType

LEMMA FlowNone ==
    ASSUME feed = <<>>
    PROVE  Flow = 0
  <1>1. DOMAIN feed = {}
    OBVIOUS
  <1> QED
    BY <1>1, SumEmpty DEF Flow

(* What was bought and sold when one order is filled, *)
LEMMA ExecutedFilled ==
    ASSUME Types, NEW i \in IDs, NEW qty \in Nat, IDs' = IDs,
           orders'[i].side = orders[i].side, orders'[i].executed = orders[i].executed + qty,
           \A j \in IDs : j # i => orders'[j] = orders[j],
           NEW side
    PROVE  Executed(side)' = Executed(side) + (IF orders[i].side = side THEN qty ELSE 0)
  <1> DEFINE f == [j \in IDs |-> orders[j].executed]
             g == [j \in IDs |-> orders'[j].executed]
             S == Of(side)
  <1>0. S \in SUBSET IDs /\ \A j \in IDs : f[j] \in Nat
    BY OrdersAre DEF Of, Order
  <1>1. IsFiniteSet(S) /\ S \subseteq IDs /\ \A j \in S : f[j] \in Int /\ f[j] \in Nat
    <2> HIDE DEF S, f
    <2> QED
      BY <1>0, OrdersAre, FS_Subset
  <1>2. Of(side)' = S
    BY DEF Of
  <1>3. /\ \A j \in S : j # i => g[j] = f[j]
        /\ g[i] = f[i] + qty
        /\ i \in S <=> orders[i].side = side
    BY DEF Of
  <1>4. Executed(side) = SumFunctionOnSet(f, S)
    BY DEF Executed
  <1>5. Executed(side)' = SumFunctionOnSet(g, S)
    BY <1>2 DEF Executed
  <1> HIDE DEF f, g, S
  <1>6. CASE i \in S
    BY <1>1, <1>3, <1>4, <1>5, <1>6, SumChange
  <1>7. CASE i \notin S
    <2>1. SumFunctionOnSet(f, S) = SumFunctionOnSet(g, S) /\ SumFunctionOnSet(f, S) \in Int
      BY <1>1, <1>3, <1>7, SumAgree, SumType
    <2> QED
      BY <1>3, <1>4, <1>5, <1>7, <2>1
  <1> QED
    BY <1>6, <1>7

(* when none is, and when there is a new one. *)
LEMMA ExecutedKept ==
    ASSUME Types, IDs' = IDs, \A j \in IDs : orders'[j].side = orders[j].side /\ orders'[j].executed = orders[j].executed,
           NEW side
    PROVE  Executed(side)' = Executed(side)
  <1> DEFINE f == [j \in IDs |-> orders[j].executed]
             g == [j \in IDs |-> orders'[j].executed]
             S == Of(side)
  <1>0. S \in SUBSET IDs /\ \A j \in IDs : f[j] \in Nat
    BY OrdersAre DEF Of, Order
  <1>1. IsFiniteSet(S) /\ S \subseteq IDs /\ \A j \in S : f[j] \in Int
    <2> HIDE DEF S, f
    <2> QED
      BY <1>0, OrdersAre, FS_Subset
  <1>2. Of(side)' = S
    BY DEF Of
  <1>3. \A j \in S : f[j] = g[j]
    BY DEF Of
  <1>4. Executed(side) = SumFunctionOnSet(f, S)
    BY DEF Executed
  <1>5. Executed(side)' = SumFunctionOnSet(g, S)
    BY <1>2 DEF Executed
  <1> HIDE DEF f, g, S
  <1> QED
    BY <1>1, <1>3, <1>4, <1>5, SumAgree

LEMMA ExecutedGrows ==
    ASSUME Types, LastID + 1 \notin IDs, IDs' = IDs \cup {LastID + 1}, orders'[LastID + 1].executed = 0,
           \A j \in IDs : orders'[j] = orders[j],
           NEW side
    PROVE  Executed(side)' = Executed(side)
  <1> DEFINE f == [j \in IDs |-> orders[j].executed]
             g == [j \in IDs' |-> orders'[j].executed]
             S == Of(side)
             last == LastID + 1
  <1>0. S \in SUBSET IDs /\ \A j \in IDs : f[j] \in Nat
    BY OrdersAre DEF Of, Order
  <1>1. IsFiniteSet(S) /\ S \subseteq IDs /\ \A j \in S : f[j] \in Int
    <2> HIDE DEF S, f
    <2> QED
      BY <1>0, OrdersAre, FS_Subset
  <1>2. Of(side)' = S \/ Of(side)' = S \cup {last}
    BY DEF Of
  <1>3. (\A j \in S : g[j] = f[j]) /\ g[last] = 0 /\ last \notin S
    BY DEF Of
  <1>4. Executed(side) = SumFunctionOnSet(f, S)
    BY DEF Executed
  <1>5. Executed(side)' = SumFunctionOnSet(g, Of(side)')
    BY DEF Executed
  <1> HIDE DEF f, g, S, last
  <1>6. SumFunctionOnSet(f, S) = SumFunctionOnSet(g, S) /\ SumFunctionOnSet(f, S) \in Int
    BY <1>1, <1>3, SumAgree, SumType
  <1>7. SumFunctionOnSet(g, S \cup {last}) = g[last] + SumFunctionOnSet(g, S)
    BY <1>1, <1>3, SumAdd
  <1>8. CASE Of(side)' = S
    BY <1>4, <1>5, <1>6, <1>8
  <1>9. CASE Of(side)' = S \cup {last}
    BY <1>3, <1>4, <1>5, <1>6, <1>7, <1>9
  <1> QED
    BY <1>2, <1>8, <1>9

Balanced == Counted /\ Buying /\ Selling

LEMMA CountedKept ==
    ASSUME Types, Counted, base' = base, feed' = feed, IDs' = IDs,
           \A j \in IDs : orders'[j].side = orders[j].side /\ orders'[j].executed = orders[j].executed
    PROVE  Counted'
  <1>1. Flow' = Flow
    BY FlowKept
  <1>2. Executed("BUY")' = Executed("BUY") /\ Executed("SELL")' = Executed("SELL")
    BY ExecutedKept
  <1> QED
    BY <1>1, <1>2 DEF Counted

LEMMA FillBalanced ==
    ASSUME SellsInv, Fresh, Following, Balanced, FillStep
    PROVE  Balanced'
  <1>1. Types /\ SellAwaited
    BY DEF SellsInv
  <1>2. PICK i \in IDs : Fill(i)
    BY DEF FillStep
  <1>3. PICK o \in Order, qty \in Nat :
              /\ IsOpen(i)
              /\ qty = IF orders[i].side = "BUY" THEN 1 ELSE orders[i].qty
              /\ o.side = orders[i].side /\ o.qty = orders[i].qty
              /\ o.executed = orders[i].executed + qty
              /\ o.status = IF o.executed = o.qty THEN "Filled" ELSE "New"
              /\ LastID' = LastID /\ IDs' = IDs
              /\ orders'[i] = o /\ \A j \in IDs : j # i => orders'[j] = orders[j]
              /\ feed' = IF pc = "down" THEN feed
                         ELSE Append(feed, [order |-> i, qty |-> qty, filled |-> o.status = "Filled"])
              /\ [order |-> i, qty |-> qty, filled |-> o.status = "Filled"] \in Update
    BY <1>1, <1>2, FillIs
  <1> DEFINE u == [order |-> i, qty |-> qty, filled |-> o.status = "Filled"]
  <1>4. u \in Update /\ u.order = i /\ u.qty = qty /\ feed' = Append(feed, u)
    BY <1>3 DEF Fresh
  <1>5. base' = base /\ state' = state /\ nextStateC' = nextStateC /\ active' = active
    BY <1>2 DEF Fill, stateVars, bookVars, bounds
  <1>6. /\ orders[i].side \in {"BUY", "SELL"} /\ base \in Int /\ state # "None"
        /\ \A j \in IDs : orders'[j].side = orders[j].side
    <2>1. state # "None"
      BY DEF Fresh, IDs
    <2> QED
      BY <1>1, <1>3, <2>1, OrdersAre DEF Types, BookTypes
  <1>7. CASE state # "TakeProfitReady"
    <2>1. orders[i].side = "BUY"
      BY <1>3, <1>6, <1>7, NoneOpen
    <2>2. state # "WaitToOpenPosition"
      BY <1>3 DEF Following
    <2>3. \A n \in DOMAIN feed' : orders'[feed'[n].order].side = "BUY"
      <3>1. \A n \in DOMAIN feed : feed[n].order \in IDs /\ orders[feed[n].order].side = "BUY"
        BY <1>1, <1>7, FlowTypes DEF Balanced, Buying
      <3> HIDE DEF u
      <3>2. \A n \in DOMAIN feed' : \/ n \in DOMAIN feed /\ feed'[n] = feed[n]
                                    \/ feed'[n] = u
        BY <1>1, <1>4, FeedGrows
      <3> QED
        BY <1>4, <1>6, <2>1, <3>1, <3>2
    <2> QED
      <3>1. Buying' /\ Selling'
        BY <1>5, <1>7, <2>2, <2>3 DEF Balanced, Buying, Selling
      <3>2. Counted'
        <4>1. Flow' = Flow + Change(u.order, u.qty)
          <5> HIDE DEF u
          <5> QED
            BY <1>1, <1>4, <1>6, FlowGrows
        <4>2. Change(u.order, u.qty) = qty
          BY <2>1 DEF Change
        <4>3. Executed("BUY")' = Executed("BUY") + qty /\ Executed("SELL")' = Executed("SELL")
          <5>1. \A side : Executed(side)' = Executed(side) + (IF orders[i].side = side THEN qty ELSE 0)
            BY <1>1, <1>3, ExecutedFilled
          <5> QED
            BY <1>1, <2>1, <5>1, ExecutedTypes
        <4> QED
          BY <1>1, <1>5, <1>6, <4>1, <4>2, <4>3, FlowTypes, ExecutedTypes DEF Balanced, Counted
      <3> QED
        BY <3>1, <3>2 DEF Balanced
  <1>8. CASE state = "TakeProfitReady"
    <2>1. i = LastID /\ orders[i].side = "SELL"
      BY <1>1, <1>3, <1>8 DEF Following, SellAwaited, LastIsSell
    <2>2. orders[i].qty = base /\ orders[i].executed = 0 /\ feed = <<>> /\ nextStateC = <<>>
      BY <1>3, <1>8, <2>1 DEF Balanced, Selling
    <2>3. qty = base /\ o.status = "Filled"
      BY <1>3, <1>6, <2>1, <2>2
    <2>4. feed' = <<[order |-> LastID, qty |-> base, filled |-> TRUE]>>
      <3>1. u = [order |-> LastID, qty |-> base, filled |-> TRUE]
        BY <2>1, <2>3
      <3> HIDE DEF u
      <3> QED
        BY <1>4, <2>2, <3>1
    <2>7. LastID \in active'
      BY <1>3, <1>5, <2>1 DEF Following
    <2>5. Buying' /\ Selling'
      BY <1>3, <1>5, <1>8, <2>1, <2>2, <2>3, <2>4, <2>7 DEF Buying, Selling, IsOpen
    <2>6. Counted'
      <3>1. Flow' = Flow + Change(u.order, u.qty)
        <4> HIDE DEF u
        <4> QED
          BY <1>1, <1>4, <1>6, FlowGrows
      <3>2. Change(u.order, u.qty) = -qty
        BY <2>1 DEF Change
      <3>3. Executed("SELL")' = Executed("SELL") + qty /\ Executed("BUY")' = Executed("BUY")
        <4>1. \A side : Executed(side)' = Executed(side) + (IF orders[i].side = side THEN qty ELSE 0)
          BY <1>1, <1>3, ExecutedFilled
        <4> QED
          BY <1>1, <2>1, <4>1, ExecutedTypes
      <3>4. Flow \in Int /\ Executed("BUY") \in Int /\ Executed("SELL") \in Int /\ qty \in Int
        BY <1>1, FlowTypes, ExecutedTypes
      <3>5. base + Flow = Executed("BUY") - Executed("SELL")
        BY DEF Balanced, Counted
      <3>6. base' + Flow' = Executed("BUY")' - Executed("SELL")'
        BY <1>5, <1>6, <3>1, <3>2, <3>3, <3>4, <3>5
      <3> QED
        BY <3>6 DEF Counted
    <2> QED
      BY <2>5, <2>6 DEF Balanced
  <1> QED
    BY <1>7, <1>8

LEMMA HandleFillBalanced ==
    ASSUME SellsInv, Fresh, Balanced, HandleFill
    PROVE  Balanced'
  <1> DEFINE u == Head(feed)
  <1>1. Types /\ SellAwaited
    BY DEF SellsInv
  <1>2. /\ feed # <<>> /\ feed' = Tail(feed) /\ orders' = orders /\ state' = state
        /\ u = feed[1] /\ 1 \in DOMAIN feed /\ u.order \in IDs
        /\ \A n \in DOMAIN Tail(feed) : n + 1 \in DOMAIN feed /\ Tail(feed)[n] = feed[n + 1]
    BY <1>1, FeedParts DEF HandleFill
  <1>3. base' = base + Change(u.order, u.qty)
    BY <1>2 DEF Fresh, HandleFill, ProcessTrade
  <1>4. u.qty \in Nat /\ base \in Int /\ Change(u.order, u.qty) \in Int
    BY <1>1, <1>2, FlowTypes DEF Types, BookTypes
  <1> HIDE DEF u
  <1>5. Counted'
    <2>1. Flow = Change(u.order, u.qty) + Flow' /\ Flow' \in Int
      BY <1>1, <1>2, FlowShrinks DEF u
    <2>2. Executed("BUY")' = Executed("BUY") /\ Executed("SELL")' = Executed("SELL")
      BY <1>1, <1>2, ExecutedKept DEF IDs
    <2> QED
      BY <1>3, <1>4, <2>1, <2>2 DEF Balanced, Counted
  <1>6. CASE state # "TakeProfitReady"
    <2>1. /\ base >= 0 /\ \A n \in DOMAIN feed : orders[feed[n].order].side = "BUY"
          /\ state # "WaitToOpenPosition"
      BY <1>2, <1>6 DEF Balanced, Buying
    <2>2. base' >= 0
      BY <1>2, <1>3, <1>4, <2>1 DEF Change
    <2> QED
      BY <1>2, <1>5, <1>6, <2>1, <2>2 DEF Balanced, Buying, Selling
  <1>7. CASE state = "TakeProfitReady"
    <2>1. ~IsOpen(LastID) /\ nextStateC = <<>> /\ feed = <<[order |-> LastID, qty |-> base, filled |-> TRUE]>>
      BY <1>2, <1>7 DEF Balanced, Selling
    <2>2. u.order = LastID /\ u.qty = base /\ feed' = <<>>
      BY <1>2, <2>1
    <2>3. orders[LastID].side = "SELL"
      BY <1>1, <1>7 DEF SellAwaited, LastIsSell
    <2>4. base' = 0
      BY <1>3, <1>4, <2>2, <2>3 DEF Change
    <2> QED
      BY <1>2, <1>5, <1>7, <2>1, <2>2, <2>4 DEF Balanced, Buying, Selling, IsOpen, LastID
  <1> QED
    BY <1>6, <1>7

LEMMA ControlBalanced ==
    ASSUME Parameters, SellsInv, Balanced, ControlStep, ~stale'
    PROVE  Balanced'
  <1>1. Types /\ Stages /\ SellAwaited
    BY DEF SellsInv
  <1>2. orders' = orders /\ feed' = feed /\ base' = base
    BY ControlFrame
  <1>3. /\ state' = "TakeProfitReady" => /\ state = "TakeProfitReady" /\ active' = active
                                        /\ (nextStateC' = nextStateC \/ active = {})
        /\ state = "TakeProfitReady" => state' = "TakeProfitReady"
        /\ state' = "WaitToOpenPosition" => state = "WaitToOpenPosition"
    BY <1>1, ControlMoves
  <1>4. Counted'
    BY <1>1, <1>2, CountedKept DEF Balanced, IDs
  <1>5. Buying'
    BY <1>2, <1>3 DEF Balanced, Buying
  <1>6. Selling'
    BY <1>1, <1>2, <1>3 DEF Balanced, Selling, SellAwaited, IsOpen, LastID
  <1> QED
    BY <1>4, <1>5, <1>6 DEF Balanced

LEMMA OpenRoundBalanced ==
    ASSUME SellsInv, Balanced, OpenRound
    PROVE  Balanced'
  <1>1. /\ state = "WaitToOpenPosition" /\ state' = "PositionOpening" /\ base' = 0
        /\ orders' = orders /\ feed' = feed
    BY DEF OpenRound, Receive, exchangeVars
  <1>2. base = 0 /\ feed = <<>>
    BY <1>1 DEF Balanced, Buying
  <1>3. Counted'
    BY <1>1, <1>2, CountedKept DEF SellsInv, Balanced, IDs
  <1>4. Buying' /\ Selling'
    BY <1>1, <1>2 DEF Buying, Selling
  <1> QED
    BY <1>3, <1>4 DEF Balanced

(* A new order changes nothing yet. *)
LEMMA CountedGrows ==
    ASSUME Types, Counted, base' = base, feed' = feed,
           LastID + 1 \notin IDs, IDs' = IDs \cup {LastID + 1}, orders'[LastID + 1].executed = 0,
           \A j \in IDs : orders'[j] = orders[j]
    PROVE  Counted'
  <1>1. Flow' = Flow
    BY FlowKept
  <1>2. Executed("BUY")' = Executed("BUY") /\ Executed("SELL")' = Executed("SELL")
    BY ExecutedGrows
  <1> QED
    BY <1>1, <1>2 DEF Counted

LEMMA PlaceBalanced ==
    ASSUME Parameters, SellsInv, Balanced, Place
    PROVE  Balanced'
  <1>1. Types /\ Stages
    BY DEF SellsInv
  <1>2. /\ feed' = feed /\ base' = base /\ state = "PositionOpening" /\ state' = state
    BY <1>1 DEF Place, Stages
  <1>3. /\ LastID + 1 \notin IDs /\ IDs' = IDs \cup {LastID + 1}
        /\ orders'[LastID + 1] = New("BUY", Qty) /\ \A j \in IDs : orders'[j] = orders[j]
    BY <1>1, PlaceIs
  <1>4. Counted'
    BY <1>1, <1>2, <1>3, CountedGrows DEF Balanced, New
  <1>5. Buying' /\ Selling'
    BY <1>1, <1>2, <1>3, FlowTypes DEF Balanced, Buying, Selling
  <1> QED
    BY <1>4, <1>5 DEF Balanced

LEMMA PlacedBalanced ==
    ASSUME SellsInv, Fresh, Balanced, Placed
    PROVE  Balanced'
  <1>1. Types /\ Stages
    BY DEF SellsInv
  <1>2. base' = base
    BY <1>1, ProcessNothing DEF Placed, Fresh
  <1>3. /\ orders' = orders /\ feed' = feed /\ state = "PositionOpening"
        /\ state' \in {"PositionOpening", "OpenPositionReady"}
    BY <1>1 DEF Placed, ReadyUnlessFailed, Stages, exchangeVars
  <1>4. Counted'
    BY <1>1, <1>2, <1>3, CountedKept DEF Balanced, IDs
  <1>5. Buying' /\ Selling'
    BY <1>2, <1>3 DEF Balanced, Buying, Selling
  <1> QED
    BY <1>4, <1>5 DEF Balanced

LEMMA CancelBalanced ==
    ASSUME SellsInv, Balanced, CancelStep
    PROVE  Balanced'
  <1>1. Types /\ Stages
    BY DEF SellsInv
  <1>2. PICK i \in IDs : CancelOne(i)
    BY DEF CancelStep
  <1>3. /\ IDs' = IDs
        /\ \A j \in IDs : orders'[j].side = orders[j].side /\ orders'[j].executed = orders[j].executed
    BY <1>1, <1>2, CancelOneIs
  <1>4. feed' = feed /\ base' = base /\ state' = state /\ state = "OpenPositionOrdersCancelling"
    BY <1>1, <1>2 DEF CancelOne, Stages, stateVars, bookVars
  <1>5. Counted'
    BY <1>1, <1>3, <1>4, CountedKept DEF Balanced
  <1>6. Buying' /\ Selling'
    BY <1>1, <1>3, <1>4, FlowTypes DEF Balanced, Buying, Selling
  <1> QED
    BY <1>5, <1>6 DEF Balanced

(* The take-profit order sells the position, when nothing is under way. *)
LEMMA PlaceTakeProfitBalanced ==
    ASSUME SellsInv, Fresh, Balanced, PlaceTakeProfit, ~(late'), ~(stale')
    PROVE  Balanced'
  <1>1. Types /\ Stages
    BY DEF SellsInv
  <1>2. /\ LastID' = LastID + 1 /\ IDs' = IDs \cup {LastID + 1} /\ LastID + 1 \notin IDs
        /\ orders'[LastID + 1] = New("SELL", quantity) /\ \A i \in IDs : orders'[i] = orders[i]
    BY <1>1, PlaceTakeProfitIs
  <1>3. base' = base
    BY <1>1, ProcessNothing DEF PlaceTakeProfit, Fresh
  <1>4. /\ state = "OpenPositionOrdersCancelled" /\ state' = "TakeProfitReady" /\ nextStateC' = <<>>
        /\ feed = <<>> /\ feed' = feed /\ quantity = Absolute(base)
    BY <1>1 DEF PlaceTakeProfit, Stages
  <1>5. quantity = base
    BY <1>1, <1>4 DEF Absolute, Balanced, Buying, Types, BookTypes
  <1>6. Counted'
    BY <1>1, <1>2, <1>3, <1>4, CountedGrows DEF Balanced, New
  <1>7. Buying' /\ Selling'
    BY <1>2, <1>3, <1>4, <1>5 DEF Buying, Selling, IsOpen, New
  <1> QED
    BY <1>6, <1>7 DEF Balanced

LEMMA PlaceTakeProfitFailsBalanced ==
    ASSUME SellsInv, Fresh, Balanced, PlaceTakeProfitFails
    PROVE  Balanced'
  <1>1. Types /\ Stages
    BY DEF SellsInv
  <1>2. base' = base
    BY <1>1, ProcessNothing DEF PlaceTakeProfitFails, Fresh
  <1>3. /\ orders' = orders /\ feed' = feed /\ state = "OpenPositionOrdersCancelled" /\ state' = state
    BY <1>1 DEF PlaceTakeProfitFails, Stages, exchangeVars
  <1>4. Counted'
    BY <1>1, <1>2, <1>3, CountedKept DEF Balanced, IDs
  <1>5. Buying' /\ Selling'
    BY <1>2, <1>3 DEF Balanced, Buying, Selling
  <1> QED
    BY <1>4, <1>5 DEF Balanced

(* It ends the round when all of it was handled. *)
LEMMA CloseRoundBalanced ==
    ASSUME SellsInv, Balanced, CloseRound
    PROVE  Balanced'
  <1>1. /\ state = "TakeProfitReady" /\ nextStateC # <<>> /\ state' = "WaitToOpenPosition"
        /\ orders' = orders /\ feed' = feed /\ base' = base
    BY DEF CloseRound, Receive, exchangeVars, bookVars
  <1>2. base = 0 /\ feed = <<>>
    BY <1>1 DEF Balanced, Selling
  <1>3. Counted'
    BY <1>1, CountedKept DEF SellsInv, Balanced, IDs
  <1>4. Buying' /\ Selling'
    BY <1>1, <1>2 DEF Buying, Selling
  <1> QED
    BY <1>3, <1>4 DEF Balanced

LEMMA QueryOpenOrdersBalanced ==
    ASSUME SellsInv, Balanced, QueryOpenOrders
    PROVE  Balanced'
  <1>1. /\ state' = state /\ nextStateC' = nextStateC /\ orders' = orders /\ feed' = feed /\ base' = base
        /\ active' = active
    BY DEF QueryOpenOrders, exchangeVars, bookVars
  <1>2. Counted'
    BY <1>1, CountedKept DEF SellsInv, Balanced, IDs
  <1>3. Buying' /\ Selling'
    BY <1>1 DEF Balanced, Buying, Selling, IsOpen, LastID
  <1> QED
    BY <1>2, <1>3 DEF Balanced

(* Nothing is held or sold before the first order. *)
LEMMA NothingCounted ==
    ASSUME orders = <<>>, feed = <<>>, base = 0
    PROVE  Counted
  <1>1. Of("BUY") = {} /\ Of("SELL") = {}
    BY DEF Of, IDs
  <1>2. Executed("BUY") = 0 /\ Executed("SELL") = 0
    BY <1>1, SumEmpty DEF Executed
  <1>3. Flow = 0
    BY FlowNone
  <1> QED
    BY <1>2, <1>3 DEF Counted

LEMMA RecoverBalanced ==
    ASSUME SellsInv, Fresh, Recover
    PROVE  Balanced'
  <1>1. Types /\ Stages
    BY DEF SellsInv
  <1>2. state = "None"
    BY <1>1 DEF Recover, Stages
  <1>3. orders = <<>> /\ feed = <<>>
    BY <1>2 DEF Fresh
  <1>4. IDs = {}
    BY <1>3 DEF IDs
  <1>5. state' = "WaitToOpenPosition" /\ base' = 0 /\ orders' = <<>> /\ feed' = <<>>
    BY <1>1, <1>3, <1>4, NothingFound DEF Recover, exchangeVars
  <1>6. Counted'
    <2>1. Of("BUY")' = {} /\ Of("SELL")' = {} /\ DOMAIN feed' = {}
      BY <1>5 DEF Of, IDs
    <2>2. Executed("BUY")' = 0 /\ Executed("SELL")' = 0 /\ Flow' = 0
      BY <2>1, SumEmpty DEF Executed, Flow
    <2> QED
      BY <1>5, <2>2 DEF Counted
  <1>7. Buying' /\ Selling'
    BY <1>5 DEF Buying, Selling
  <1> QED
    BY <1>6, <1>7 DEF Balanced

LEMMA NextBalanced ==
    ASSUME Parameters, SellsInv, Fresh, Following, Balanced, Next, crashes = 0, crashes' = 0, ~(late'), ~(stale')
    PROVE  Balanced'
  <1>1. ~Crash
    BY DEF Crash
  <1> QED
    BY <1>1, NextIs, FillBalanced, HandleFillBalanced, ControlBalanced, OpenRoundBalanced, PlaceBalanced,
       PlacedBalanced, CancelBalanced, PlaceTakeProfitBalanced, PlaceTakeProfitFailsBalanced,
       CloseRoundBalanced, QueryOpenOrdersBalanced, RecoverBalanced

-----------------------------------------------------------------------------
(***************************************************************************)
(* The profit counts every order once                                      *)
(***************************************************************************)
LEMMA AccountTypes ==
    ASSUME Types
    PROVE  /\ stats.from \in Nat /\ stats.current \in Int /\ stats.total \in Int /\ stats.investment \in Int
           /\ DOMAIN stats = {"from", "investment", "round", "current", "total"}
  BY DEF Types, StatsTypes, Stats

(* What was counted stays what it was when none of these orders changes. *)
LEMMA AccountedKept ==
    ASSUME Types, Accounted,
           stats'.from = stats.from, stats'.total = stats.total, stats'.investment = stats.investment,
           stats'.current = stats.current \/ stats'.current = 0,
           \/ IDs' = IDs /\ LastID' = LastID
           \/ IDs' = IDs \cup {LastID + 1} /\ LastID' = LastID + 1 /\ state' # "WaitToOpenPosition",
           \A i \in IDs : i < stats.from => /\ orders'[i].side = orders[i].side
                                            /\ orders'[i].executed = orders[i].executed
                                            /\ orders'[i].status = orders[i].status,
           state' \notin {"None", "WaitToOpenPosition"} => state \notin {"None", "WaitToOpenPosition"} \/ stats'.current = 0,
           state' = "WaitToOpenPosition" => state = "WaitToOpenPosition",
           state' = "TakeProfitReady" => state = "TakeProfitReady" \/ LastID' = LastID + 1
    PROVE  Accounted'
  <1> DEFINE B == {i \in IDs : i < stats.from}
             f == [i \in IDs |-> Value(i)]
             g == [i \in IDs' |-> IF orders'[i].side = "BUY" THEN -orders'[i].executed ELSE 2 * orders'[i].executed]
  <1>1. /\ stats.from \in Nat /\ LastID \in Nat /\ stats.from <= LastID + 1 /\ IDs = 1 .. LastID
        /\ stats.investment = stats.total /\ stats.total = Sum(B)
        /\ \A i \in IDs : i < stats.from => ~IsOpen(i)
        /\ state \notin {"None", "WaitToOpenPosition"} => stats.current = 0
        /\ state = "WaitToOpenPosition" => stats.from = LastID + 1
        /\ state = "TakeProfitReady" => stats.from <= LastID
    BY AccountTypes, OrdersAre DEF Accounted
  <1>2. {i \in IDs' : i < stats'.from} = B
    BY <1>1
  <1>3. IsFiniteSet(B)
    BY <1>1, OrdersAre, FS_Subset
  <1>4. \A i \in B : f[i] \in Int /\ f[i] = g[i]
    <2>1. \A i \in IDs : Value(i) \in Int
      <3>1. \A i \in IDs : orders[i].executed \in Nat
        BY OrdersAre DEF Order
      <3> QED
        BY <3>1 DEF Value
    <2>2. \A i \in B : i \in IDs /\ i \in IDs' /\ orders'[i].side = orders[i].side /\ orders'[i].executed = orders[i].executed
      OBVIOUS
    <2> HIDE DEF B
    <2> QED
      BY <2>1, <2>2 DEF Value
  <1>5. Sum(B) = SumFunctionOnSet(f, B)
    BY DEF Sum
  <1>6. Sum({i \in IDs : i < stats.from})' = SumFunctionOnSet(g, B)
    BY <1>2 DEF Sum, Value
  <1>7. SumFunctionOnSet(f, B) = SumFunctionOnSet(g, B)
    <2> HIDE DEF B, f, g
    <2> QED
      BY <1>3, <1>4, SumAgree
  <1>8. stats'.investment = stats'.total /\ stats'.total = Sum({i \in IDs : i < stats.from})'
    BY <1>1, <1>5, <1>6, <1>7
  <1>9. \A i \in IDs' : i < stats'.from => orders'[i].status # "New"
    BY <1>1 DEF IsOpen
  <1>10. /\ state' \notin {"None", "WaitToOpenPosition"} => stats'.current = 0
         /\ stats'.from <= LastID' + 1
         /\ state' = "WaitToOpenPosition" => stats'.from = LastID' + 1
         /\ state' = "TakeProfitReady" => stats'.from <= LastID'
    BY <1>1
  <1> QED
    BY <1>8, <1>9, <1>10 DEF Accounted, IsOpen

(* Orders filled or closed in their places are not among them. *)
LEMMA ClosingAccounted ==
    ASSUME Types, Accounted, stats' = stats, state' = state, IDs' = IDs, LastID' = LastID,
           NEW i \in IDs, IsOpen(i), \A j \in IDs : j # i => orders'[j] = orders[j]
    PROVE  Accounted'
  <1>1. \A j \in IDs : j < stats.from => j # i
    BY DEF Accounted
  <1> QED
    BY <1>1, AccountedKept

(* The end of a round counts all orders that were not counted before. *)
LEMMA CloseRoundAccounted ==
    ASSUME Parameters, SellsInv, Following, Accounted, CloseRound, faults = 0, faults' = 0
    PROVE  Accounted'
  <1> DEFINE B == {i \in IDs : i < stats.from}
             f == [i \in IDs |-> Value(i)]
  <1>1. Types /\ SellAwaited
    BY DEF SellsInv
  <1>2. /\ state = "TakeProfitReady" /\ nextStateC # <<>> /\ state' = "WaitToOpenPosition"
        /\ orders' = orders /\ IDs' = IDs /\ LastID' = LastID
    BY DEF CloseRound, Receive, exchangeVars, IDs, LastID
  <1>3. stats' = Calculated
    <2>1. faults # faults + 1
      BY <1>1 DEF Types, BoundTypes
    <2> QED
      BY <1>1, <2>1, CalculateTypes DEF CloseRound
  <1>4. \A i \in IDs : ~IsOpen(i)
    BY <1>1, <1>2 DEF Following, SellAwaited
  <1>5. /\ stats.from \in Nat /\ LastID \in Nat /\ IDs = 1 .. LastID /\ IsFiniteSet(IDs)
        /\ stats.from <= LastID /\ LastID >= 1
        /\ stats.current = 0 /\ stats.investment = stats.total /\ stats.total = Sum(B) /\ stats.total \in Int
    BY <1>1, <1>2, AccountTypes, OrdersAre DEF Accounted, SellAwaited, LastIsSell
  <1>6. Closed = {i \in IDs : i >= stats.from}
    BY <1>4 DEF Closed
  <1>7. FromNext(Closed) = LastID + 1
    <2>1. Closed \in SUBSET IDs /\ LastID \in Closed /\ \A i \in Closed \cup {stats.from} : i <= LastID
      BY <1>5, <1>6
    <2>2. PICK m \in Closed \cup {stats.from} : FromNext(Closed) = m + 1 /\ \A i \in Closed \cup {stats.from} : i <= m
      BY <1>1, <2>1, FromNextIs
    <2>3. m = LastID
      BY <1>5, <2>1, <2>2
    <2> QED
      BY <2>2, <2>3
  <1>8. Sum(IDs) = Sum(B) + Sum(Closed) /\ Sum(Closed) \in Int
    <2>1. IDs = B \cup Closed /\ B \cap Closed = {} /\ B \in SUBSET IDs /\ Closed \in SUBSET IDs
      BY <1>5, <1>6
    <2>2. \A i \in IDs : f[i] \in Int
      <3>1. \A i \in IDs : orders[i].executed \in Nat
        BY <1>1, OrdersAre DEF Order
      <3> QED
        BY <3>1 DEF Value
    <2>3. \A ids : Sum(ids) = SumFunctionOnSet(f, ids)
      BY DEF Sum
    <2> HIDE DEF B, f
    <2>4. IsFiniteSet(B) /\ IsFiniteSet(Closed)
      BY <1>5, <2>1, FS_Subset
    <2>5. \A i \in B \cup Closed : f[i] \in Int
      BY <2>1, <2>2
    <2>6. SumFunctionOnSet(f, B \cup Closed) = SumFunctionOnSet(f, B) + SumFunctionOnSet(f, Closed)
      BY <2>1, <2>4, <2>5, SumUnion
    <2>7. SumFunctionOnSet(f, Closed) \in Int
      BY <2>4, <2>5, SumType
    <2> QED
      BY <2>1, <2>3, <2>6, <2>7
  <1>9. /\ stats'.from = LastID + 1
        /\ stats'.total = stats.total + Sum(Closed)
        /\ stats'.investment = stats.investment + stats.current + Sum(Closed)
    <2> DEFINE c == stats.current + Sum(Closed)
               t == stats.total + Sum(Closed)
               v == stats.investment + stats.current + Sum(Closed)
    <2>1. stats' = [stats EXCEPT !.from = FromNext(Closed), !.current = c, !.total = t, !.investment = v]
      BY <1>3 DEF Calculated
    <2> HIDE DEF c, t, v
    <2>2. stats'.from = FromNext(Closed) /\ stats'.total = t /\ stats'.investment = v
      BY <1>1, <2>1, AccountTypes
    <2> QED
      BY <1>7, <2>2 DEF t, v
  <1>10. Sum({i \in IDs : i < stats.from})' = Sum(IDs)
    <2>1. {i \in IDs' : i < stats'.from} = IDs
      BY <1>2, <1>5, <1>9
    <2> QED
      BY <1>2, <2>1 DEF Sum, Value
  <1>11. stats'.investment = stats'.total /\ stats'.total = Sum(IDs)
    BY <1>5, <1>8, <1>9
  <1>12. \A i \in IDs' : orders'[i].status # "New"
    BY <1>2, <1>4 DEF IsOpen
  <1> QED
    BY <1>2, <1>5, <1>9, <1>10, <1>11, <1>12 DEF Accounted, IsOpen

(* The first start counts none. *)
LEMMA RecoverAccounted ==
    ASSUME Parameters, SellsInv, Fresh, Recover, faults = 0, faults' = 0
    PROVE  Accounted'
  <1>1. Types /\ Stages
    BY DEF SellsInv
  <1>2. state = "None"
    BY <1>1 DEF Recover, Stages
  <1>3. /\ orders = <<>>
        /\ stats = [from |-> 0, investment |-> 0, round |-> 0, current |-> 0, total |-> 0]
    BY <1>2 DEF Fresh
  <1>4. IDs = {} /\ LastID = 0
    BY <1>3 DEF IDs, LastID
  <1>5. state' = "WaitToOpenPosition" /\ IDs' = {} /\ LastID' = 0
    BY <1>1, <1>3, <1>4, NothingFound DEF Recover, exchangeVars, IDs, LastID
  <1>6. stats' = Calculated
    <2>1. faults # faults + 1
      BY <1>1 DEF Types, BoundTypes
    <2> QED
      BY <1>1, <2>1, CalculateTypes DEF Recover
  <1>7. Sum(Closed) = 0
    <2>1. Closed = {}
      BY <1>4 DEF Closed
    <2> QED
      BY <2>1, SumEmpty DEF Sum
  <1>8. FromNext(Closed) = 1
    <2>1. Closed = {} /\ {} \in SUBSET IDs
      BY <1>4 DEF Closed
    <2>2. PICK m \in {} \cup {stats.from} : FromNext({}) = m + 1
      BY <1>1, <2>1, FromNextIs
    <2>3. m = 0
      BY <1>3, <2>2
    <2> QED
      BY <2>1, <2>2, <2>3
  <1>9. stats'.from = 1 /\ stats'.total = 0 /\ stats'.investment = 0
    BY <1>3, <1>6, <1>7, <1>8 DEF Calculated
  <1>10. Sum({i \in IDs : i < stats.from})' = 0
    <2>1. {i \in IDs' : i < stats'.from} = {}
      BY <1>5
    <2> QED
      BY <2>1, SumEmpty DEF Sum
  <1> QED
    BY <1>5, <1>9, <1>10 DEF Accounted

LEMMA NextAccounted ==
    ASSUME Parameters, SellsInv, Fresh, Following, Accounted, Next, crashes = 0, crashes' = 0, faults = 0, faults' = 0
    PROVE  Accounted'
  <1>1. Types /\ Stages
    BY DEF SellsInv
  <1>2. CASE FillStep
    <2>1. PICK i \in IDs : Fill(i)
      BY <1>2 DEF FillStep
    <2>2. /\ IDs' = IDs /\ LastID' = LastID /\ IsOpen(i)
          /\ \A j \in IDs : j # i => orders'[j] = orders[j]
      BY <1>1, <2>1, FillIs
    <2>3. stats' = stats /\ state' = state
      BY <2>1 DEF Fill, stateVars, statsVars
    <2> QED
      BY <1>1, <2>2, <2>3, ClosingAccounted
  <1>3. CASE HandleFill
    <2>1. orders' = orders /\ stats' = stats /\ state' = state
      BY <1>3 DEF HandleFill
    <2> QED
      BY <1>1, <2>1, AccountedKept DEF IDs, LastID
  <1>4. CASE ControlStep
    <2>1. orders' = orders /\ stats' = stats
      BY <1>4, ControlFrame
    <2>2. /\ state \in {"None", "TakeProfitReady", "WaitToOpenPosition"} <=> state' \in {"None", "TakeProfitReady", "WaitToOpenPosition"}
          /\ state \in {"None", "TakeProfitReady", "WaitToOpenPosition"} => state' = state
      BY <1>1, <1>4, ControlMoves
    <2> QED
      BY <1>1, <2>1, <2>2, AccountedKept DEF IDs, LastID
  <1>5. CASE OpenRound
    <2>1. /\ orders' = orders /\ state' = "PositionOpening"
          /\ stats' = [stats EXCEPT !.round = @ + 1, !.current = 0]
      BY <1>5 DEF OpenRound, exchangeVars
    <2>2. /\ stats'.from = stats.from /\ stats'.total = stats.total /\ stats'.investment = stats.investment
          /\ stats'.current = 0
      BY <1>1, <2>1, AccountTypes
    <2> QED
      BY <1>1, <2>1, <2>2, AccountedKept DEF IDs, LastID
  <1>6. CASE Place
    <2>1. /\ LastID' = LastID + 1 /\ IDs' = IDs \cup {LastID + 1}
          /\ \A i \in IDs : orders'[i] = orders[i]
      BY <1>1, <1>6, PlaceIs
    <2>2. stats' = stats /\ state' = "PositionOpening" /\ state' = state
      BY <1>1, <1>6 DEF Place, Stages, statsVars
    <2> QED
      BY <1>1, <2>1, <2>2, AccountedKept
  <1>7. CASE Placed
    <2>1. /\ orders' = orders /\ stats' = stats
          /\ state = "PositionOpening" /\ state' \in {"PositionOpening", "OpenPositionReady"}
      BY <1>1, <1>7 DEF Placed, ReadyUnlessFailed, Stages, exchangeVars, statsVars
    <2> QED
      BY <1>1, <2>1, AccountedKept DEF IDs, LastID
  <1>8. CASE CancelStep
    <2>1. PICK i \in IDs : CancelOne(i)
      BY <1>8 DEF CancelStep
    <2>2. /\ IDs' = IDs /\ LastID' = LastID /\ IsOpen(i)
          /\ \A j \in IDs : j # i => orders'[j] = orders[j]
      BY <1>1, <2>1, CancelOneIs
    <2>3. stats' = stats /\ state' = state
      BY <2>1 DEF CancelOne, stateVars, statsVars
    <2> QED
      BY <1>1, <2>2, <2>3, ClosingAccounted
  <1>9. CASE PlaceTakeProfit
    <2>1. /\ LastID' = LastID + 1 /\ IDs' = IDs \cup {LastID + 1}
          /\ \A i \in IDs : orders'[i] = orders[i]
      BY <1>1, <1>9, PlaceTakeProfitIs
    <2>2. stats' = stats /\ state = "OpenPositionOrdersCancelled" /\ state' = "TakeProfitReady"
      BY <1>1, <1>9 DEF PlaceTakeProfit, Stages, statsVars
    <2> QED
      BY <1>1, <2>1, <2>2, AccountedKept
  <1>10. CASE PlaceTakeProfitFails
    <2>1. orders' = orders /\ stats' = stats /\ state' = state
      BY <1>10 DEF PlaceTakeProfitFails, exchangeVars, statsVars
    <2> QED
      BY <1>1, <2>1, AccountedKept DEF IDs, LastID
  <1>11. CASE CloseRound
    BY <1>11, CloseRoundAccounted
  <1>12. CASE QueryOpenOrders
    <2>1. orders' = orders /\ stats' = stats /\ state' = state
      BY <1>12 DEF QueryOpenOrders, exchangeVars, statsVars
    <2> QED
      BY <1>1, <2>1, AccountedKept DEF IDs, LastID
  <1>13. CASE Recover
    BY <1>13, RecoverAccounted
  <1>14. CASE Crash
    BY <1>14 DEF Crash
  <1> QED
    BY <1>2, <1>3, <1>4, <1>5, <1>6, <1>7, <1>8, <1>9, <1>10, <1>11, <1>12, <1>13, <1>14, NextIs

-----------------------------------------------------------------------------
LEMMA InitRounds ==
    ASSUME Parameters, Init
    PROVE  Rounds
  <1>1. orders = <<>> /\ feed = <<>> /\ base = 0 /\ state = "None" /\ IDs = {} /\ LastID = 0
    BY DEF Init, IDs, LastID
  <1>2. Fresh
    BY <1>1 DEF Init, Fresh
  <1>3. Following /\ Buying /\ Selling
    BY <1>1 DEF Following, Buying, Selling
  <1>4. Counted
    BY <1>1, NothingCounted
  <1>5. Accounted
    <2>1. {i \in IDs : i < stats.from} = {}
      BY <1>1
    <2>2. Sum({i \in IDs : i < stats.from}) = 0
      BY <2>1, SumEmpty DEF Sum
    <2> QED
      BY <1>1, <2>2 DEF Init, Accounted
  <1> QED
    BY <1>2, <1>3, <1>4, <1>5 DEF Rounds

(* What the bounds and late count is not taken back. *)
LEMMA NothingForgotten ==
    ASSUME Types, [Next]_vars
    PROVE  /\ crashes' = 0 => crashes = 0
           /\ faults' = 0 => faults = 0
           /\ ~(late') => ~late
  <1>1. /\ crashes' = crashes \/ crashes' = crashes + 1
        /\ faults' = faults \/ faults' = faults + 1
        /\ late => late'
    <2> USE DEF exchangeVars, stateVars, loop, work, bookVars, statsVars, bounds
    <2>1. CASE FillStep \/ CancelStep
      <3>1. UNCHANGED <<late, faults, crashes>>
        BY <2>1 DEF FillStep, CancelStep, Fill, CancelOne
      <3> QED
        BY <3>1
    <2>2. CASE HandleFill \/ OpenRound \/ Place \/ Placed
      BY <2>2 DEF HandleFill, OpenRound, Place, Placed
    <2>3. CASE ControlStep
      BY <2>3, ControlFrame
    <2>4. CASE PlaceTakeProfit \/ PlaceTakeProfitFails
      <3>1. /\ crashes' = crashes /\ (late' = late \/ late' = (late \/ feed # <<>> \/ quantity # Absolute(base)))
            /\ faults' = faults \/ faults' = faults + 1
        BY <2>4 DEF PlaceTakeProfit, PlaceTakeProfitFails
      <3>2. late => late'
        BY <3>1
      <3> QED
        BY <3>1, <3>2
    <2>5. CASE CloseRound \/ Recover
      <3>1. late' = late /\ crashes' = crashes /\ (faults' = faults \/ faults' = faults + 1)
        BY <2>5 DEF CloseRound, Recover, CalculateProfit
      <3> QED
        BY <3>1
    <2>6. CASE QueryOpenOrders \/ Crash
      BY <2>6 DEF QueryOpenOrders, Crash
    <2>7. CASE UNCHANGED vars
      BY <2>7 DEF vars
    <2> QED
      BY <2>1, <2>2, <2>3, <2>4, <2>5, <2>6, <2>7, NextIs
  <1>2. crashes \in Nat /\ faults \in Nat /\ late \in BOOLEAN
    BY DEF Types, BoundTypes
  <1> QED
    BY <1>1, <1>2

LEMMA NextRounds ==
    ASSUME Parameters, SellsInv, Rounds, [Next]_vars, ~stale'
    PROVE  Rounds'
  <1>1. CASE Next
    <2> SUFFICES ASSUME crashes' = 0
                 PROVE  /\ Fresh' /\ Following'
                        /\ ~(late') => Balanced'
                        /\ faults' = 0 => Accounted'
      BY DEF Rounds, Balanced
    <2>1. crashes = 0 /\ (faults' = 0 => faults = 0) /\ (~(late') => ~late)
      BY NothingForgotten DEF SellsInv
    <2>2. Fresh /\ Following /\ (~late => Balanced) /\ (faults = 0 => Accounted)
      BY <2>1 DEF Rounds, Balanced
    <2>3. Fresh'
      BY <1>1, <2>1, <2>2, NextFresh
    <2>4. Following'
      BY <1>1, <2>1, <2>2, NextFollowing
    <2>5. ~(late') => Balanced'
      BY <1>1, <2>1, <2>2, NextBalanced
    <2>6. faults' = 0 => Accounted'
      BY <1>1, <2>1, <2>2, NextAccounted
    <2> QED
      BY <2>3, <2>4, <2>5, <2>6
  <1>2. CASE UNCHANGED vars
    BY <1>2 DEF Rounds, Fresh, Following, Counted, Buying, Selling, Accounted, Flow, Executed, Sum, Value, Change,
                LastID, Of, IDs, IsOpen, vars, exchangeVars, stateVars, loop, work, bookVars, statsVars, bounds
  <1> QED
    BY <1>1, <1>2

RoundsUnlessStale == Types /\ (~stale => SellsInv /\ Rounds)

LEMMA NextRoundsUnlessStale ==
    ASSUME Parameters, RoundsUnlessStale, [Next]_vars
    PROVE  RoundsUnlessStale'
  <1>1. Types'
    BY NextTypes DEF RoundsUnlessStale
  <1>2. ASSUME ~stale'
        PROVE  SellsInv' /\ Rounds'
    BY <1>2, StaleStays, NextSells, NextRounds DEF RoundsUnlessStale
  <1> QED
    BY <1>1, <1>2 DEF RoundsUnlessStale

(* A round ends settled: when the strategy waits for the next one, what was
   bought has been sold, and the profit counts every order of the strategy
   once, for any number of orders of a round and of rounds, and whatever
   submissions fail; but for a take-profit order that was placed with fills
   still under way, for a late K-line signal taken for the fill of this order,
   and for crashes (pkg/strategy/dca2/take_profit.go,
   strategy.go, CalculateProfitOfCurrentRound). *)
THEOREM RoundSettledInvariant == Parameters => (Spec => []RoundSettled)
<1> SUFFICES ASSUME Parameters
             PROVE  Spec => []RoundSettled
  OBVIOUS
<1>1. Init => RoundsUnlessStale
  BY InitTypes, InitSells, InitRounds DEF RoundsUnlessStale
<1>2. RoundsUnlessStale /\ [Next]_vars => RoundsUnlessStale'
  BY NextRoundsUnlessStale
<1>3. RoundsUnlessStale => RoundSettled
  <2> SUFFICES ASSUME SellsInv, Rounds, crashes = 0, ~late, Idle("WaitToOpenPosition")
               PROVE  /\ Executed("BUY") = Executed("SELL")
                      /\ faults = 0 => /\ stats.total = Sum({i \in IDs : ~IsOpen(i)})
                                       /\ stats.investment = stats.total
    BY DEF RoundSettled, RoundsUnlessStale
  <2>1. /\ Types /\ state = "WaitToOpenPosition"
        /\ Following /\ Counted /\ Buying /\ (faults = 0 => Accounted)
    BY DEF SellsInv, Rounds, Idle
  <2>2. Executed("BUY") = Executed("SELL")
    <3>1. base = 0 /\ feed = <<>>
      BY <2>1 DEF Buying
    <3>2. Flow = 0
      BY <3>1, FlowNone
    <3>3. Executed("BUY") \in Int /\ Executed("SELL") \in Int
      BY <2>1, ExecutedTypes
    <3> QED
      BY <2>1, <3>1, <3>2, <3>3 DEF Counted
  <2>3. ASSUME faults = 0
        PROVE  /\ stats.total = Sum({i \in IDs : ~IsOpen(i)})
               /\ stats.investment = stats.total
    <3>1. stats.from = LastID + 1 /\ IDs = 1 .. LastID /\ LastID \in Nat
      BY <2>1, <2>3, OrdersAre DEF Accounted
    <3>2. {i \in IDs : i < stats.from} = IDs /\ {i \in IDs : ~IsOpen(i)} = IDs
      BY <2>1, <3>1 DEF Following
    <3> QED
      BY <2>1, <2>3, <3>2 DEF Accounted
  <2> QED
    BY <2>2, <2>3
<1> QED
  BY <1>1, <1>2, <1>3, PTL DEF Spec
-----------------------------------------------------------------------------
(***************************************************************************)
(* The start after a crash finds what was held                             *)
(***************************************************************************)
(* What orders have bought less what they have sold. *)
Held(ids) == SumFunctionOnSet([i \in IDs |-> Change(i, orders[i].executed)], ids)

(* The rounds before the current one, as the start tells them apart, are over
   and left nothing, *)
PastSettled == (\A i \in IDs \ CurrentRound : ~IsOpen(i)) /\ Held(IDs \ CurrentRound) = 0

(* a take-profit order sells what is held, *)
SoldOut ==
    LastIsSell =>
        /\ \A i \in IDs : i # LastID => ~IsOpen(i)
        /\ IsOpen(LastID) => /\ orders[LastID].executed = 0 /\ orders[LastID].qty # 0
                             /\ orders[LastID].qty = Held(IDs)
        /\ ~IsOpen(LastID) => Held(IDs) = 0

(* and an order that was open is, if it has not traded since. *)
OpenedRight ==
    pc = "recover" =>
        \A o \in opened : /\ o.executed <= orders[o.id].executed
                          /\ o.executed = orders[o.id].executed => IsOpen(o.id)

BeforeRestart == (crashes = 0 \/ (crashes = 1 /\ state = "None")) /\ ~late

Past == BeforeRestart => PastSettled /\ SoldOut /\ OpenedRight

-----------------------------------------------------------------------------
LEMMA HeldTypes ==
    ASSUME Types, NEW ids \in SUBSET IDs
    PROVE  /\ IsFiniteSet(ids) /\ Held(ids) \in Int
           /\ \A i \in IDs : Change(i, orders[i].executed) \in Int
  <1>1. \A i \in IDs : Change(i, orders[i].executed) \in Int
    <2>1. \A i \in IDs : orders[i].executed \in Int
      BY OrdersAre DEF Order
    <2> QED
      BY <2>1, ChangeType
  <1> QED
    BY <1>1, SumOfTypes DEF Held

(* What is held in all is what was bought and not sold. *)
LEMMA HeldInAll ==
    ASSUME Types
    PROVE  Held(IDs) = Executed("BUY") - Executed("SELL")
  <1> DEFINE f == [i \in IDs |-> Change(i, orders[i].executed)]
             g == [i \in IDs |-> orders[i].executed]
             B == Of("BUY")
             S == Of("SELL")
  <1>1. /\ IsFiniteSet(IDs) /\ B \in SUBSET IDs /\ S = IDs \ B
        /\ \A i \in IDs : f[i] \in Int /\ g[i] \in Int
        /\ \A i \in B : f[i] = g[i]
        /\ \A i \in S : f[i] = -g[i]
    <2>1. \A i \in IDs : orders[i].side \in {"BUY", "SELL"} /\ orders[i].executed \in Nat
      BY OrdersAre DEF Order
    <2> QED
      BY <2>1, OrdersAre, HeldTypes DEF Of, Change
  <1>2. Held(IDs) = SumFunctionOnSet(f, IDs)
    BY DEF Held
  <1>3. Executed("BUY") = SumFunctionOnSet(g, B) /\ Executed("SELL") = SumFunctionOnSet(g, S)
    BY DEF Executed
  <1> HIDE DEF f, g, B, S
  <1>4. IsFiniteSet(B) /\ IsFiniteSet(S)
    BY <1>1, FS_Subset
  <1>5. SumFunctionOnSet(f, IDs) = SumFunctionOnSet(f, B) + SumFunctionOnSet(f, S)
    BY <1>1, SumSplit
  <1>6. SumFunctionOnSet(f, B) = SumFunctionOnSet(g, B)
    BY <1>1, <1>4, SumAgree
  <1>7. SumFunctionOnSet(f, S) = -SumFunctionOnSet(g, S)
    BY <1>1, <1>4, SumNegated
  <1>8. SumFunctionOnSet(g, B) \in Int /\ SumFunctionOnSet(g, S) \in Int
    BY <1>1, <1>4, SumType
  <1> QED
    BY <1>2, <1>3, <1>5, <1>6, <1>7, <1>8

(* Orders that stay hold what they held. *)
LEMMA HeldStays ==
    ASSUME Types, NEW ids \in SUBSET IDs, IDs \subseteq IDs',
           \A i \in ids : orders'[i].side = orders[i].side /\ orders'[i].executed = orders[i].executed
    PROVE  Held(ids)' = Held(ids)
  <1> DEFINE f == [i \in IDs |-> Change(i, orders[i].executed)]
             g == [i \in IDs' |-> IF orders'[i].side = "BUY" THEN orders'[i].executed ELSE -orders'[i].executed]
  <1>1. \A i \in ids : f[i] \in Int /\ f[i] = g[i]
    BY HeldTypes DEF Change
  <1>2. Held(ids) = SumFunctionOnSet(f, ids)
    BY DEF Held
  <1>3. Held(ids)' = SumFunctionOnSet(g, ids')
    BY DEF Held, Change
  <1>4. IsFiniteSet(ids)
    BY HeldTypes
  <1> HIDE DEF f, g
  <1> QED
    BY <1>1, <1>2, <1>3, <1>4, SumAgree

-----------------------------------------------------------------------------
(* What is held does not change with the status of an order. *)
LEMMA PastKept ==
    ASSUME Types, PastSettled, IDs' = IDs,
           \A j \in IDs : /\ orders'[j].side = orders[j].side /\ (IsOpen(j)' => IsOpen(j))
                          /\ j \notin CurrentRound => orders'[j].executed = orders[j].executed
    PROVE  PastSettled'
  <1>1. CurrentRound' = CurrentRound
    <2>1. Of("SELL")' = Of("SELL") /\ Of("BUY")' = Of("BUY")
      BY DEF Of
    <2> QED
      BY <2>1 DEF CurrentRound
  <1> DEFINE P == IDs \ CurrentRound
  <1>2. P' = P /\ P \in SUBSET IDs
    BY <1>1
  <1>3. \A i \in P : orders'[i].side = orders[i].side /\ orders'[i].executed = orders[i].executed
    OBVIOUS
  <1>4. \A i \in P : ~(IsOpen(i)')
    BY DEF PastSettled
  <1>5. Held(P) = 0
    BY DEF PastSettled
  <1> HIDE DEF P
  <1>6. Held(P)' = Held(P)
    <2>1. ASSUME NEW ids \in SUBSET IDs, ids = P
          PROVE  Held(ids)' = Held(ids)
      BY <1>3, <2>1, HeldStays
    <2> QED
      BY <1>2, <2>1
  <1> QED
    BY <1>2, <1>4, <1>5, <1>6 DEF P, PastSettled

(* What a fill adds to what is held. *)
LEMMA HeldFilled ==
    ASSUME Types, NEW i \in IDs, NEW qty \in Nat, IDs' = IDs,
           orders'[i].side = orders[i].side, orders'[i].executed = orders[i].executed + qty,
           \A j \in IDs : j # i => orders'[j] = orders[j]
    PROVE  Held(IDs)' = Held(IDs) + Change(i, qty) /\ Held(IDs) \in Int
  <1> DEFINE f == [j \in IDs |-> Change(j, orders[j].executed)]
             g == [j \in IDs' |-> IF orders'[j].side = "BUY" THEN orders'[j].executed ELSE -orders'[j].executed]
             d == Change(i, qty)
  <1>1. d \in Int /\ orders[i].executed \in Nat
    BY ChangeType, OrdersAre DEF Order
  <1>2. /\ \A j \in IDs : f[j] \in Int /\ (j # i => g[j] = f[j])
        /\ g[i] = f[i] + d
    BY <1>1, HeldTypes DEF Change
  <1>3. Held(IDs) = SumFunctionOnSet(f, IDs) /\ Held(IDs)' = SumFunctionOnSet(g, IDs)
    BY DEF Held, Change
  <1>4. IsFiniteSet(IDs) /\ Held(IDs) \in Int
    BY HeldTypes
  <1> HIDE DEF f, g, d
  <1>5. SumFunctionOnSet(g, IDs) = SumFunctionOnSet(f, IDs) + d
    BY <1>1, <1>2, <1>4, SumChange
  <1> QED
    BY <1>3, <1>4, <1>5 DEF d

LEMMA FillPast ==
    ASSUME SellsInv, PastSettled, SoldOut, OpenedRight, FillStep
    PROVE  PastSettled' /\ SoldOut' /\ OpenedRight'
  <1>1. Types /\ SellsLast
    BY DEF SellsInv
  <1>2. PICK i \in IDs : Fill(i)
    BY DEF FillStep
  <1>3. PICK o \in Order, qty \in Nat :
              /\ IsOpen(i)
              /\ qty = IF orders[i].side = "BUY" THEN 1 ELSE orders[i].qty
              /\ o.side = orders[i].side /\ o.qty = orders[i].qty
              /\ o.executed = orders[i].executed + qty
              /\ o.status = IF o.executed = o.qty THEN "Filled" ELSE "New"
              /\ LastID' = LastID /\ IDs' = IDs
              /\ orders'[i] = o /\ \A j \in IDs : j # i => orders'[j] = orders[j]
    BY <1>1, <1>2, FillIs, ZenonT(40)
  <1>4. pc' = pc /\ opened' = opened
    <2>1. UNCHANGED stateVars
      BY <1>2 DEF Fill
    <2> QED
      BY <2>1 DEF stateVars, loop, work
  <1>5. /\ orders[i].side \in {"BUY", "SELL"} /\ orders[i].executed \in Nat
        /\ IDs = 1 .. LastID /\ LastID \in Nat
    BY <1>1, OrdersAre DEF Order
  <1>6. \A j \in IDs : orders'[j].side = orders[j].side /\ (IsOpen(j)' => IsOpen(j))
    BY <1>3 DEF IsOpen
  <1>7. PastSettled'
    <2>1. i \in CurrentRound
      BY <1>3 DEF PastSettled
    <2> QED
      BY <1>1, <1>3, <1>6, <2>1, PastKept
  <1>8. SoldOut'
    <2> SUFFICES ASSUME LastIsSell'
                 PROVE  /\ \A j \in IDs : j # LastID => ~(IsOpen(j)')
                        /\ ~(IsOpen(LastID)') /\ Held(IDs)' = 0
      BY <1>3 DEF SoldOut, IsOpen
    <2>1. LastIsSell
      BY <1>3, <1>5, <1>6 DEF LastIsSell
    <2>2. i = LastID /\ \A j \in IDs : j # LastID => ~IsOpen(j)
      BY <1>3, <2>1 DEF SoldOut
    <2>3. /\ orders[i].side = "SELL" /\ orders[i].executed = 0 /\ qty = orders[i].qty
          /\ qty = Held(IDs)
      BY <1>3, <2>1, <2>2 DEF SoldOut, LastIsSell
    <2>4. o.status = "Filled"
      BY <1>3, <2>3
    <2>5. Held(IDs)' = Held(IDs) + Change(i, qty) /\ Held(IDs) \in Int
      BY <1>1, <1>3, HeldFilled
    <2>6. Change(i, qty) = -qty
      BY <2>3 DEF Change
    <2> QED
      BY <1>3, <1>6, <2>2, <2>3, <2>4, <2>5, <2>6 DEF IsOpen
  <1>9. OpenedRight'
    <2> SUFFICES ASSUME pc = "recover", NEW r \in opened
                 PROVE  /\ r.executed <= orders'[r.id].executed
                        /\ r.executed = orders'[r.id].executed => IsOpen(r.id)'
      BY <1>4 DEF OpenedRight
    <2>1. /\ r.executed \in Nat /\ r.id \in IDs
          /\ r.executed <= orders[r.id].executed
          /\ r.executed = orders[r.id].executed => IsOpen(r.id)
      BY <1>1 DEF OpenedRight, Types, OpenedTypes, Opened, OpenedIDs
    <2>2. CASE r.id # i
      BY <1>3, <2>1, <2>2 DEF IsOpen
    <2>3. CASE r.id = i
      <3>1. qty > 0
        <4>1. CASE orders[i].side = "BUY"
          BY <1>3, <4>1
        <4>2. CASE orders[i].side = "SELL"
          <5>1. i = LastID
            BY <1>1, <1>3, <4>2 DEF SellsLast, Of
          <5>2. orders[i].qty # 0
            BY <1>3, <1>5, <4>2, <5>1 DEF SoldOut, LastIsSell
          <5> QED
            BY <1>3, <4>2, <5>2
        <4> QED
          BY <1>5, <4>1, <4>2
      <3>2. orders'[i].executed = orders[i].executed + qty
        BY <1>3
      <3> QED
        BY <1>5, <2>1, <2>3, <3>1, <3>2
    <2> QED
      BY <2>2, <2>3
  <1> QED
    BY <1>7, <1>8, <1>9

(* No order changes. *)
LEMMA StillPast ==
    ASSUME Types, PastSettled, SoldOut, OpenedRight, orders' = orders,
           pc' = "recover" => (pc = "recover" /\ opened' = opened) \/ QueryOpenOrders
    PROVE  PastSettled' /\ SoldOut' /\ OpenedRight'
  <1>1. PastSettled' /\ SoldOut'
    BY DEF PastSettled, SoldOut, LastIsSell, LastID, Held, Change, CurrentRound, Of, IDs, IsOpen
  <1>2. ASSUME QueryOpenOrders
        PROVE  \A r \in opened' : r.executed = orders[r.id].executed /\ r.executed \in Int /\ IsOpen(r.id)
    <2>1. \A i \in IDs : orders[i].executed \in Int
      BY OrdersAre DEF Order
    <2> QED
      BY <1>2, <2>1 DEF QueryOpenOrders
  <1>3. OpenedRight'
    <2>1. CASE pc = "recover" /\ opened' = opened
      BY <2>1 DEF OpenedRight, IsOpen
    <2>2. CASE QueryOpenOrders
      <3>1. \A r \in opened' : r.executed <= orders[r.id].executed /\ IsOpen(r.id)
        BY <1>2, <2>2
      <3> QED
        BY <3>1 DEF OpenedRight, IsOpen
    <2> QED
      BY <2>1, <2>2 DEF OpenedRight
  <1> QED
    BY <1>1, <1>3

(* A new order has not traded yet: it ends the rounds before when it is the
   first one to buy after a take-profit order. *)
LEMMA RoundGrows ==
    ASSUME Types, NEW o \in Order, LastID + 1 \notin IDs, IDs' = IDs \cup {LastID + 1}, LastID' = LastID + 1,
           orders'[LastID + 1] = o, \A i \in IDs : orders'[i] = orders[i]
    PROVE  IDs' \ CurrentRound' = IF LastIsSell /\ o.side = "BUY" THEN IDs ELSE IDs \ CurrentRound
  <1> DEFINE n == LastID + 1
  <1>1. /\ IDs = 1 .. LastID /\ LastID \in Nat /\ \A i \in IDs : orders[i].side \in {"BUY", "SELL"} /\ i \in Nat
        /\ o.side \in {"BUY", "SELL"}
    BY OrdersAre DEF Order
  <1>2. /\ Of("SELL")' = IF o.side = "SELL" THEN Of("SELL") \cup {n} ELSE Of("SELL")
        /\ Of("BUY")' = IF o.side = "BUY" THEN Of("BUY") \cup {n} ELSE Of("BUY")
    BY <1>1 DEF Of
  <1>3. Of("SELL") \subseteq IDs /\ Of("BUY") \subseteq IDs /\ n + 1 \notin IDs /\ n + 1 # n
    BY <1>1 DEF Of
  <1>4. LastIsSell => LastID \in Of("SELL")
    BY <1>1 DEF LastIsSell, Of
  <1>5. \A j \in Of("SELL") : j + 1 = n => LastIsSell
    BY <1>1, <1>3 DEF LastIsSell, Of
  <1>6. CASE LastIsSell /\ o.side = "BUY"
    <2>1. ASSUME NEW i \in IDs
          PROVE  i \notin CurrentRound'
      <3>1. LastID \in Of("SELL")' /\ LastID >= i /\ LastID + 1 \in Of("BUY")'
        BY <1>1, <1>2, <1>4, <1>6
      <3> QED
        BY <3>1 DEF CurrentRound
    <2>2. n \in CurrentRound'
      <3>1. \A j \in Of("SELL")' : ~(j >= n)
        BY <1>1, <1>2, <1>3, <1>6
      <3> QED
        BY <3>1 DEF CurrentRound
    <2> QED
      BY <1>6, <2>1, <2>2
  <1>7. CASE ~(LastIsSell /\ o.side = "BUY")
    <2>1. \A j \in Of("SELL")' : j + 1 \in Of("BUY")' <=> j \in Of("SELL") /\ j + 1 \in Of("BUY")
      BY <1>1, <1>2, <1>3, <1>5, <1>7
    <2>2. \A i \in IDs : i \in CurrentRound' <=> i \in CurrentRound
      <3>1. Of("SELL") \subseteq Of("SELL")'
        BY <1>2
      <3> QED
        BY <2>1, <3>1 DEF CurrentRound
    <2>3. n \in CurrentRound'
      <3>1. ASSUME NEW j \in Of("SELL")', j >= n
            PROVE  j + 1 \notin Of("BUY")'
        <4>1. j \notin Of("SELL")
          BY <1>1, <1>3, <3>1
        <4> QED
          BY <2>1, <4>1
      <3> QED
        BY <3>1 DEF CurrentRound
    <2> QED
      BY <1>7, <2>2, <2>3
  <1> QED
    BY <1>6, <1>7

LEMMA HeldGrows ==
    ASSUME Types, NEW o \in Order, LastID + 1 \notin IDs, IDs' = IDs \cup {LastID + 1},
           orders'[LastID + 1] = o, o.executed = 0, \A i \in IDs : orders'[i] = orders[i]
    PROVE  /\ \A ids \in SUBSET IDs : Held(ids)' = Held(ids)
           /\ \A ids : ids = IDs' => Held(ids)' = Held(IDs)
  <1> DEFINE n == LastID + 1
             g == [j \in IDs' |-> IF orders'[j].side = "BUY" THEN orders'[j].executed ELSE -orders'[j].executed]
  <1>1. \A ids \in SUBSET IDs : Held(ids)' = Held(ids)
    BY HeldStays
  <1>2. \A ids : Held(ids)' = SumFunctionOnSet(g, ids)
    BY DEF Held, Change
  <1>3. /\ IsFiniteSet(IDs) /\ n \notin IDs /\ IDs' = IDs \cup {n}
        /\ g[n] = 0 /\ \A j \in IDs \cup {n} : g[j] \in Int
    <2>1. \A j \in IDs : orders[j].executed \in Nat
      BY OrdersAre DEF Order
    <2> QED
      BY <2>1, OrdersAre
  <1>4. Held(IDs) \in Int
    BY HeldTypes
  <1> HIDE DEF n, g
  <1>5. SumFunctionOnSet(g, IDs \cup {n}) = g[n] + SumFunctionOnSet(g, IDs)
    BY <1>3, SumAdd
  <1>6. SumFunctionOnSet(g, IDs) = Held(IDs)
    BY <1>1, <1>2
  <1>7. SumFunctionOnSet(g, IDs \cup {n}) = Held(IDs)
    BY <1>3, <1>4, <1>5, <1>6
  <1>8. ASSUME NEW ids, ids = IDs'
        PROVE  Held(ids)' = Held(IDs)
    <2>1. Held(ids)' = SumFunctionOnSet(g, ids) /\ ids = IDs \cup {n}
      BY <1>2, <1>3, <1>8
    <2> QED
      BY <1>7, <2>1
  <1> QED
    BY <1>1, <1>8, Zenon

(* An order is cancelled in the cancelling, when no take-profit order is open. *)
LEMMA CancelPast ==
    ASSUME SellsInv, PastSettled, SoldOut, CancelStep
    PROVE  PastSettled' /\ SoldOut' /\ OpenedRight'
  <1>1. Types /\ Stages
    BY DEF SellsInv
  <1>2. PICK i \in IDs : CancelOne(i)
    BY DEF CancelStep
  <1>3. PICK o \in Order :
              /\ IsOpen(i) /\ o.side = orders[i].side /\ o.executed = orders[i].executed /\ o.qty = orders[i].qty
              /\ LastID' = LastID /\ IDs' = IDs
              /\ orders'[i] = o /\ \A j \in IDs : j # i => orders'[j] = orders[j]
    BY <1>1, <1>2, CancelOneIs
  <1>4. pc' = pc /\ pc = "cancel" /\ state = "OpenPositionOrdersCancelling"
    BY <1>1, <1>2 DEF CancelOne, Stages, stateVars, loop
  <1>5. \A j \in IDs : /\ orders'[j].side = orders[j].side /\ orders'[j].executed = orders[j].executed
                       /\ IsOpen(j)' => IsOpen(j)
    BY <1>3 DEF IsOpen
  <1>6. PastSettled'
    BY <1>1, <1>3, <1>5, PastKept
  <1>7. SoldOut'
    <2> SUFFICES ASSUME LastIsSell'
                 PROVE  /\ \A j \in IDs : j # LastID => ~(IsOpen(j)')
                        /\ ~(IsOpen(LastID)') /\ Held(IDs)' = 0
      BY <1>3 DEF SoldOut, IsOpen
    <2>1. LastID \in IDs /\ orders[LastID].side = "SELL" /\ LastIsSell
      <3>1. IDs = 1 .. LastID /\ LastID \in Nat
        BY <1>1, OrdersAre
      <3> QED
        BY <1>3, <1>5, <3>1 DEF LastIsSell
    <2>2. ~IsOpen(LastID)
      BY <1>4, <2>1, NoneOpen
    <2>3. Held(IDs)' = Held(IDs)
      <3>1. ASSUME NEW ids \in SUBSET IDs
            PROVE  Held(ids)' = Held(ids)
        BY <1>1, <1>3, <1>5, HeldStays
      <3> QED
        BY <1>3, <3>1
    <2>4. (\A j \in IDs : j # LastID => ~IsOpen(j)) /\ Held(IDs) = 0
      BY <2>1, <2>2, Zenon DEF SoldOut
    <2>5. \A j \in IDs : ~(IsOpen(j)') \/ j = LastID
      BY <1>5, <2>4
    <2>6. ~(IsOpen(LastID)')
      BY <1>3, <1>5, <2>1, <2>2 DEF IsOpen
    <2>7. Held(IDs)' = 0
      BY <2>3, <2>4
    <2> QED
      BY <2>5, <2>6, <2>7
  <1>8. OpenedRight'
    BY <1>4 DEF OpenedRight
  <1> QED
    BY <1>6, <1>7, <1>8

(* The first buy order of a round comes when the round before is over. *)
LEMMA PlacePast ==
    ASSUME Parameters, SellsInv, PastSettled, SoldOut, Place
    PROVE  PastSettled' /\ SoldOut' /\ OpenedRight'
  <1>1. Types /\ Stages
    BY DEF SellsInv
  <1>2. /\ New("BUY", Qty) \in Order
        /\ LastID' = LastID + 1 /\ IDs' = IDs \cup {LastID + 1} /\ LastID + 1 \notin IDs
        /\ orders'[LastID + 1] = New("BUY", Qty) /\ \A i \in IDs : orders'[i] = orders[i]
    BY <1>1, PlaceIs
  <1>3. pc' # "recover" /\ state = "PositionOpening"
    BY <1>1 DEF Place, Stages, loop
  <1>4. IDs' \ CurrentRound' = IF LastIsSell THEN IDs ELSE IDs \ CurrentRound
    BY <1>1, <1>2, RoundGrows DEF New
  <1>5. \A ids \in SUBSET IDs : Held(ids)' = Held(ids)
    BY <1>1, <1>2, HeldGrows DEF New
  <1>6. PastSettled'
    <2> DEFINE P == IF LastIsSell THEN IDs ELSE IDs \ CurrentRound
    <2>1. Held(P) = 0 /\ \A i \in P : ~IsOpen(i)
      <3>1. CASE LastIsSell
        <4>1. LastID \in IDs /\ orders[LastID].side = "SELL"
          <5>1. IDs = 1 .. LastID /\ LastID \in Nat
            BY <1>1, OrdersAre
          <5> QED
            BY <3>1, <5>1 DEF LastIsSell
        <4>2. ~IsOpen(LastID)
          BY <1>3, <4>1, NoneOpen
        <4> QED
          BY <3>1, <4>2 DEF SoldOut
      <3>2. CASE ~LastIsSell
        BY <3>2 DEF PastSettled
      <3> QED
        BY <3>1, <3>2
    <2>2. P \in SUBSET IDs
      OBVIOUS
    <2>3. \A i \in P : ~(IsOpen(i)')
      BY <1>2, <2>1, <2>2 DEF IsOpen
    <2>4. \A ids : ids = P => Held(ids)' = 0
      BY <1>3, <1>5, <2>1, <2>2 DEF IsOpen
    <2>5. IDs' \ CurrentRound' = P
      BY <1>4
    <2> HIDE DEF P
    <2>6. \A ids : ids = IDs' \ CurrentRound' => Held(ids)' = 0
      BY <2>4, <2>5
    <2> QED
      BY <2>3, <2>5, <2>6 DEF PastSettled, Held
  <1>7. SoldOut'
    BY <1>2 DEF SoldOut, LastIsSell, New
  <1> QED
    BY <1>3, <1>6, <1>7 DEF OpenedRight

(* The take-profit order sells what is held. *)
LEMMA PlaceTakeProfitPast ==
    ASSUME SellsInv, Following, Balanced, PastSettled, PlaceTakeProfit, ~(late')
    PROVE  PastSettled' /\ SoldOut' /\ OpenedRight'
  <1>1. Types /\ Stages
    BY DEF SellsInv
  <1>2. /\ New("SELL", quantity) \in Order
        /\ LastID' = LastID + 1 /\ IDs' = IDs \cup {LastID + 1} /\ LastID + 1 \notin IDs
        /\ orders'[LastID + 1] = New("SELL", quantity) /\ \A i \in IDs : orders'[i] = orders[i]
    BY <1>1, PlaceTakeProfitIs
  <1>3. /\ state = "OpenPositionOrdersCancelled" /\ pc' = "select" /\ feed = <<>>
        /\ quantity # 0 /\ quantity = Absolute(base)
    BY <1>1 DEF PlaceTakeProfit, Stages
  <1>4. \A i \in IDs : ~IsOpen(i)
    BY <1>3 DEF Following
  <1>5. quantity # 0 /\ quantity = Held(IDs)
    <2>1. base = Held(IDs) /\ base \in Int /\ base >= 0
      <3>1. Flow = 0
        BY <1>3, FlowNone
      <3>2. Held(IDs) = Executed("BUY") - Executed("SELL")
        BY <1>1, HeldInAll
      <3>3. base + Flow = Executed("BUY") - Executed("SELL") /\ base >= 0
        BY <1>3 DEF Balanced, Counted, Buying
      <3>4. base \in Int
        BY <1>1 DEF Types, BookTypes
      <3> QED
        BY <3>1, <3>2, <3>3, <3>4
    <2> QED
      BY <1>3, <2>1 DEF Absolute
  <1>6. /\ \A ids \in SUBSET IDs : Held(ids)' = Held(ids)
        /\ \A ids : ids = IDs' => Held(ids)' = Held(IDs)
    BY <1>1, <1>2, HeldGrows DEF New
  <1>7. PastSettled'
    <2> DEFINE P == IDs \ CurrentRound
    <2>1. Held(P) = 0
      BY DEF PastSettled
    <2>2. P \in SUBSET IDs
      OBVIOUS
    <2>3. \A i \in P : ~(IsOpen(i)')
      BY <1>2, <1>4, <2>2 DEF IsOpen
    <2>4. \A ids : ids = P => Held(ids)' = 0
      BY <1>6, <2>1, <2>2
    <2>5. IDs' \ CurrentRound' = P
      BY <1>1, <1>2, RoundGrows DEF New
    <2> HIDE DEF P
    <2>6. \A ids : ids = IDs' \ CurrentRound' => Held(ids)' = 0
      BY <2>4, <2>5
    <2> QED
      BY <2>3, <2>5, <2>6 DEF PastSettled, Held
  <1>8. SoldOut'
    <2>1. /\ orders'[LastID'].executed = 0 /\ orders'[LastID'].qty = quantity /\ IsOpen(LastID)'
      BY <1>2 DEF New, IsOpen
    <2>2. Held(IDs)' = quantity
      <3>1. ASSUME NEW ids, ids = IDs'
            PROVE  Held(ids)' = quantity
        BY <1>5, <1>6, <3>1
      <3> QED
        BY <3>1 DEF Held
    <2>3. \A i \in IDs' : i # LastID' => ~(IsOpen(i)')
      BY <1>2, <1>4 DEF IsOpen
    <2> QED
      BY <1>5, <2>1, <2>2, <2>3 DEF SoldOut
  <1> QED
    BY <1>3, <1>7, <1>8 DEF OpenedRight

LEMMA StillBefore ==
    ASSUME Parameters, SellsInv, [Next]_vars, BeforeRestart'
    PROVE  BeforeRestart
  <1>1. Types /\ Stages
    BY DEF SellsInv
  <1>2. \/ crashes' = crashes /\ (state' = "None" => state = "None")
        \/ crashes' = crashes + 1
    <2> USE DEF exchangeVars, stateVars, loop, work, bookVars, statsVars, bounds, Receive
    <2>1. CASE FillStep \/ CancelStep
      BY <2>1 DEF FillStep, CancelStep, Fill, CancelOne
    <2>2. CASE HandleFill \/ OpenRound \/ Place \/ QueryOpenOrders \/ Crash
      BY <2>2 DEF HandleFill, OpenRound, Place, QueryOpenOrders, Crash
    <2>3. CASE Placed
      BY <2>3 DEF Placed, ReadyUnlessFailed
    <2>4. CASE ControlStep
      BY <1>1, <2>4, ControlFrame, ControlMoves
    <2>5. CASE PlaceTakeProfit \/ PlaceTakeProfitFails
      BY <2>5 DEF PlaceTakeProfit, PlaceTakeProfitFails
    <2>6. CASE CloseRound \/ Recover
      BY <2>6 DEF CloseRound, Recover
    <2>7. CASE UNCHANGED vars
      BY <2>7 DEF vars
    <2> QED
      BY <2>1, <2>2, <2>3, <2>4, <2>5, <2>6, <2>7, NextIs
  <1>3. ~late /\ crashes \in Nat
    BY <1>1, NothingForgotten DEF BeforeRestart, Types, BoundTypes
  <1> QED
    BY <1>2, <1>3 DEF BeforeRestart

LEMMA NextPast ==
    ASSUME Parameters, SellsInv, Rounds, Past, [Next]_vars, ~stale'
    PROVE  Past'
  <1> SUFFICES ASSUME BeforeRestart'
               PROVE  PastSettled' /\ SoldOut' /\ OpenedRight'
    BY DEF Past
  <1>1. BeforeRestart /\ Types /\ Stages
    BY StillBefore DEF SellsInv
  <1>2. PastSettled /\ SoldOut /\ OpenedRight
    BY <1>1 DEF Past
  <1>3. CASE FillStep
    BY <1>2, <1>3, FillPast
  <1>4. CASE CancelStep
    BY <1>2, <1>4, CancelPast
  <1>5. CASE Place
    BY <1>2, <1>5, PlacePast
  <1>6. CASE PlaceTakeProfit
    <2>1. crashes = 0 /\ ~late
      BY <1>1, <1>6 DEF BeforeRestart, PlaceTakeProfit, Stages
    <2>2. Following /\ Balanced
      BY <2>1 DEF Rounds, Balanced
    <2>3. ~(late')
      BY DEF BeforeRestart
    <2> QED
      BY <1>2, <1>6, <2>2, <2>3, PlaceTakeProfitPast
  <1>7. CASE \/ HandleFill \/ ControlStep \/ OpenRound \/ Placed \/ PlaceTakeProfitFails \/ CloseRound
             \/ QueryOpenOrders \/ Recover \/ Crash \/ UNCHANGED vars
    <2> USE DEF exchangeVars, stateVars, loop, work, bookVars, statsVars, bounds, Receive
    <2>1. CASE HandleFill \/ OpenRound \/ Placed
      <3>1. orders' = orders /\ (pc' = "recover" => pc = "recover" /\ opened' = opened)
        BY <2>1 DEF HandleFill, OpenRound, Placed
      <3> QED
        BY <1>1, <1>2, <3>1, StillPast
    <2>2. CASE ControlStep
      <3>1. orders' = orders /\ (pc' = "recover" => pc = "recover" /\ opened' = opened)
        BY <1>1, <2>2, ControlFrame, ControlMoves
      <3> QED
        BY <1>1, <1>2, <3>1, StillPast
    <2>3. CASE PlaceTakeProfitFails \/ CloseRound
      <3>1. orders' = orders /\ (pc' = "recover" => pc = "recover" /\ opened' = opened)
        BY <2>3 DEF PlaceTakeProfitFails, CloseRound
      <3> QED
        BY <1>1, <1>2, <3>1, StillPast
    <2>4. CASE QueryOpenOrders
      <3>1. orders' = orders
        BY <2>4 DEF QueryOpenOrders
      <3> QED
        BY <1>1, <1>2, <2>4, <3>1, StillPast
    <2>5. CASE Recover \/ Crash
      <3>1. orders' = orders /\ pc' # "recover"
        BY <2>5 DEF Recover, Crash
      <3> QED
        BY <1>1, <1>2, <3>1, StillPast
    <2>6. CASE UNCHANGED vars
      <3>1. orders' = orders /\ (pc' = "recover" => pc = "recover" /\ opened' = opened)
        BY <2>6 DEF vars
      <3> QED
        BY <1>1, <1>2, <3>1, StillPast
    <2> QED
      BY <1>7, <2>1, <2>2, <2>3, <2>4, <2>5, <2>6
  <1> QED
    BY <1>3, <1>4, <1>5, <1>6, <1>7, NextIs

LEMMA InitPast ==
    ASSUME Init
    PROVE  Past
  <1>1. IDs = {} /\ LastID = 0 /\ pc = "off"
    BY DEF Init, IDs, LastID
  <1>2. Held(IDs \ CurrentRound) = 0
    <2>1. IDs \ CurrentRound = {}
      BY <1>1
    <2> QED
      BY <2>1, SumEmpty DEF Held
  <1> QED
    BY <1>1, <1>2 DEF Past, PastSettled, SoldOut, OpenedRight, LastIsSell

(* What the start takes for the position is what is held. *)
LEMMA RecoveredPosition ==
    ASSUME Types, SellsLast, PastSettled, SoldOut, OpenedRight, OpenIsOpened, pc = "recover",
           \A o \in opened : orders[o.id].executed = o.executed
    PROVE  RecoverPosition = Held(IDs)
  <1> DEFINE changes(ids) == SumFunctionOnSet([i \in IDs |-> Change(i, orders[i].executed)], ids)
             recorded == {o.id : o \in {r \in opened : r.executed > 0}} \cap CurrentRound
             closed == {i \in CurrentRound : ~IsOpen(i)}
  <1>1. /\ IDs = 1 .. LastID /\ LastID \in Nat /\ CurrentRound \in SUBSET IDs
        /\ \A i \in IDs : orders[i].side \in {"BUY", "SELL"} /\ orders[i].executed \in Nat
    BY OrdersAre DEF CurrentRound, Order
  <1>2. CASE \E i \in Of("SELL") \cap CurrentRound : ~IsOpen(i)
    <2>1. RecoverPosition = 0
      BY <1>2 DEF RecoverPosition
    <2>2. LastIsSell /\ ~IsOpen(LastID)
      BY <1>1, <1>2, SellsOfRound DEF LastIsSell, Of
    <2>3. Held(IDs) = 0
      BY <2>2 DEF SoldOut
    <2> QED
      BY <2>1, <2>3
  <1>3. CASE ~\E i \in Of("SELL") \cap CurrentRound : ~IsOpen(i)
    <2>1. RecoverPosition = changes(recorded) + changes(closed)
      BY <1>3 DEF RecoverPosition
    <2>2. changes(recorded) = Held(recorded) /\ changes(closed) = Held(closed)
      BY DEF Held
    <2> DEFINE f == [i \in IDs |-> Change(i, orders[i].executed)]
               P == IDs \ CurrentRound
               live == CurrentRound \ closed
               rest == live \ recorded
    <2>3. /\ \A i \in IDs : f[i] \in Int
          /\ \A i \in IDs : orders[i].executed = 0 => f[i] = 0
      BY <1>1, HeldTypes DEF Change
    <2>4. recorded \subseteq live
      <3>1. ASSUME NEW r \in opened
            PROVE  IsOpen(r.id)
        BY DEF OpenedRight
      <3> QED
        BY <3>1
    <2>5. \A i \in rest : orders[i].executed = 0
      <3>1. ASSUME NEW i \in rest
            PROVE  orders[i].executed = 0
        <4>1. IsOpen(i) /\ i \in IDs /\ i \in CurrentRound /\ i \notin recorded
          BY <1>1
        <4>2. PICK r \in opened : r.id = i
          BY <4>1 DEF OpenIsOpened, OpenedIDs
        <4>3. ~(r.executed > 0) /\ r.executed = orders[i].executed
          BY <4>1, <4>2
        <4> QED
          BY <1>1, <4>1, <4>3
      <3> QED
        BY <3>1
    <2>6. /\ recorded \in SUBSET live /\ rest = live \ recorded
          /\ closed \in SUBSET CurrentRound /\ live = CurrentRound \ closed
          /\ live \in SUBSET IDs /\ P = IDs \ CurrentRound
      BY <1>1, <2>4
    <2>7. Held(P) = 0
      BY DEF PastSettled
    <2>8. \A i \in rest : f[i] = 0
      BY <2>3, <2>5, <2>6
    <2>9. \A ids : Held(ids) = SumFunctionOnSet(f, ids)
      BY DEF Held
    <2>10. IsFiniteSet(IDs) /\ IsFiniteSet(CurrentRound) /\ IsFiniteSet(live) /\ IsFiniteSet(rest)
      BY <1>1, <2>6, OrdersAre, FS_Subset
    <2> HIDE DEF f, P, rest, live, recorded, closed, changes
    <2>11. SumFunctionOnSet(f, IDs) = SumFunctionOnSet(f, CurrentRound) + SumFunctionOnSet(f, P)
      BY <1>1, <2>3, <2>6, <2>10, SumSplit
    <2>12. SumFunctionOnSet(f, CurrentRound) = SumFunctionOnSet(f, closed) + SumFunctionOnSet(f, live)
      BY <1>1, <2>3, <2>6, <2>10, SumSplit
    <2>13. SumFunctionOnSet(f, live) = SumFunctionOnSet(f, recorded) + SumFunctionOnSet(f, rest)
      BY <1>1, <2>3, <2>6, <2>10, SumSplit
    <2>14. SumFunctionOnSet(f, rest) = 0
      BY <2>8, <2>10, SumZero
    <2>15. SumFunctionOnSet(f, recorded) \in Int /\ SumFunctionOnSet(f, closed) \in Int
      <3>1. recorded \in SUBSET IDs /\ closed \in SUBSET IDs
        BY <1>1, <2>6
      <3> QED
        BY <2>9, <3>1, HeldTypes
    <2> QED
      BY <2>1, <2>2, <2>7, <2>9, <2>11, <2>12, <2>13, <2>14, <2>15
  <1> QED
    BY <1>2, <1>3

(* And every open order is followed. *)
LEMMA RecoveredActive ==
    ASSUME SellsInv, PastSettled, OpenedRight, Recover, state' # "OpenPositionOrdersCancelling",
           \A o \in opened : orders[o.id].executed = o.executed
    PROVE  active' = {i \in IDs : IsOpen(i)}
  <1>1. Types /\ Stages /\ SellsLast /\ OpenIsOpened
    BY DEF SellsInv
  <1>2. /\ pc = "recover" /\ RecoverState # "None" /\ state' = RecoverState /\ Readopt(RecoverState)
        /\ active = {}
    BY <1>1 DEF Recover, Stages
  <1>3. OpenedIDs = {i \in IDs : IsOpen(i)}
    <2>1. ASSUME NEW r \in opened
          PROVE  IsOpen(r.id)
      BY <1>2 DEF OpenedRight
    <2>2. \A r \in opened : r.id \in IDs
      BY <1>1 DEF Types, OpenedTypes, OpenedIDs
    <2>3. \A i \in IDs : IsOpen(i) => i \in OpenedIDs
      BY <1>1, <1>2 DEF OpenIsOpened
    <2> QED
      BY <2>1, <2>2, <2>3 DEF OpenedIDs
  <1>4. PutAside = {}
    BY <1>3 DEF PutAside, IsOpen
  <1>5. CASE RecoverState \in {"OpenPositionReady", "OpenPositionOrderFilled", "TakeProfitReady"}
    BY <1>2, <1>3, <1>4, <1>5 DEF Readopt
  <1>6. CASE RecoverState \notin {"OpenPositionReady", "OpenPositionOrderFilled", "TakeProfitReady"}
    <2>1. active' = {}
      BY <1>2, <1>6 DEF Readopt
    <2>2. \A i \in IDs : ~IsOpen(i)
      <3>1. CASE RecoverState = "WaitToOpenPosition"
        <4>1. IDs = {} \/ opened = {}
          BY <1>1, <1>2, <3>1, RecoverStates DEF Bought
        <4> QED
          BY <1>3, <4>1 DEF OpenedIDs
      <3>2. CASE RecoverState = "OpenPositionOrdersCancelled"
        <4> DEFINE buys == Of("BUY") \cap CurrentRound
                   sells == Of("SELL") \cap CurrentRound
        <4>1. RecoverState = StateOfBuys(buys) /\ sells = {}
          <5>1. Count(sells) > 1 => RecoverState = "None"
            BY DEF RecoverState
          <5> QED
            BY <3>2, <5>1 DEF RecoverState
        <4>2. buys \cap OpenedIDs = {}
          <5>1. StateOfBuys(buys) = "OpenPositionOrdersCancelled" => buys \cap OpenedIDs = {}
            BY DEF StateOfBuys
          <5> QED
            BY <3>2, <4>1, <5>1
        <4>3. ASSUME NEW i \in IDs, IsOpen(i)
              PROVE  FALSE
          <5>1. i \in CurrentRound /\ i \in OpenedIDs
            BY <1>3, <4>3 DEF PastSettled
          <5>2. i \in Of("BUY") \/ i \in Of("SELL")
            BY <1>1, OrdersAre DEF Of
          <5> QED
            BY <4>1, <4>2, <5>1, <5>2
        <4> QED
          BY <4>3
      <3> QED
        BY <1>1, <1>2, <1>6, <3>1, <3>2, RecoverStates DEF Bought
    <2> QED
      BY <2>1, <2>2
  <1> QED
    BY <1>5, <1>6

(* Only Recover ends the recovery. *)
LEMMA RecoverOnly ==
    ASSUME Parameters, SellsInv, [Next]_vars, pc = "recover", pc' = "select"
    PROVE  Recover
  <1> USE DEF exchangeVars, stateVars, loop, work, bookVars, statsVars, bounds, Receive
  <1>1. state = "None"
    BY DEF SellsInv, Stages
  <1>2. ~(UNCHANGED vars)
    BY DEF vars
  <1>3. ~FillStep /\ ~CancelStep /\ ~HandleFill
    BY DEF FillStep, Fill, CancelStep, CancelOne, HandleFill
  <1>4. ~OpenRound /\ ~Place /\ ~Placed /\ ~PlaceTakeProfit /\ ~PlaceTakeProfitFails /\ ~CloseRound
    BY <1>1 DEF OpenRound, Place, Placed, PlaceTakeProfit, PlaceTakeProfitFails, CloseRound
  <1>5. ~QueryOpenOrders /\ ~Crash
    BY DEF QueryOpenOrders, Crash
  <1>6. ~ControlStep
    <2>1. ~OnKLine /\ ~KLineEmits /\ ~Ticks /\ ~Tick /\ ~Send /\ ~TooEarly /\ ~BeginPlacing /\ ~BeginSelling
      BY <1>1 DEF OnKLine, KLineEmits, Ticks, Tick, Send, TooEarly, BeginPlacing, BeginSelling
    <2>2. ~PlaceFails /\ ~OrderFilled /\ ~TargetReached /\ ~BeginCancelling /\ ~FoundStep /\ ~Cancelled
      BY <1>1 DEF PlaceFails, OrderFilled, TargetReached, BeginCancelling, FoundStep, FoundFilled, Cancelled
    <2>3. ~RecoverFails /\ ~Restart
      BY DEF RecoverFails, Restart
    <2> QED
      BY <2>1, <2>2, <2>3 DEF ControlStep
  <1> QED
    BY <1>2, <1>3, <1>4, <1>5, <1>6, NextIs

(* The start finds what was bought and not sold, and follows every open order,
   after the first crash and wherever in a round it came, for any number of
   orders of a round and of rounds, and whatever submissions failed; but for a
   trade between its two queries, for a take-profit order that was placed with
   fills still under way, for a late K-line signal taken for the fill of this
   order, and in the middle of the cancelling (pkg/strategy/dca2/recover.go). *)
THEOREM RecoveredRightAlways == Parameters => (Spec => RecoveredRight)
<1> SUFFICES ASSUME Parameters
             PROVE  Spec => RecoveredRight
  OBVIOUS
<1> DEFINE Inv == Types /\ (~stale => SellsInv /\ Rounds /\ Past)
           A == (pc = "recover" /\ pc' = "select" /\ crashes <= 1 /\ ~late /\ ~stale
                 /\ \A o \in opened : orders[o.id].executed = o.executed)
                   => /\ base' = Executed("BUY") - Executed("SELL")
                      /\ state' # "OpenPositionOrdersCancelling" => active' = {i \in IDs : IsOpen(i)}
<1>1. Init => Inv
  BY InitTypes, InitSells, InitRounds, InitPast
<1>2. Inv /\ [Next]_vars => Inv'
  <2> SUFFICES ASSUME Inv, [Next]_vars
               PROVE  Inv'
    OBVIOUS
  <2>1. Types'
    BY NextTypes
  <2>2. ASSUME ~stale'
        PROVE  SellsInv' /\ Rounds' /\ Past'
    BY <2>2, StaleStays, NextSells, NextRounds, NextPast
  <2> QED
    BY <2>1, <2>2
<1>3. Inv /\ [Next]_vars => A
  <2> SUFFICES ASSUME Inv, [Next]_vars, pc = "recover", pc' = "select", crashes <= 1, ~late, ~stale,
                      \A o \in opened : orders[o.id].executed = o.executed
               PROVE  /\ base' = Executed("BUY") - Executed("SELL")
                      /\ state' # "OpenPositionOrdersCancelling" => active' = {i \in IDs : IsOpen(i)}
    OBVIOUS
  <2>1. Types /\ Stages /\ SellsLast /\ OpenIsOpened
    BY DEF SellsInv
  <2>2. BeforeRestart
    BY <2>1 DEF Types, BoundTypes, Stages, BeforeRestart
  <2>3. PastSettled /\ SoldOut /\ OpenedRight
    BY <2>2 DEF Past
  <2>4. Recover
    BY RecoverOnly
  <2>5. base' = RecoverPosition
    BY <2>4 DEF Recover
  <2>6. RecoverPosition = Held(IDs)
    BY <2>1, <2>3, RecoveredPosition
  <2>7. Held(IDs) = Executed("BUY") - Executed("SELL")
    BY <2>1, HeldInAll
  <2>8. state' # "OpenPositionOrdersCancelling" => active' = {i \in IDs : IsOpen(i)}
    BY <2>3, <2>4, RecoveredActive
  <2> QED
    BY <2>5, <2>6, <2>7, <2>8
<1>4. Inv /\ [Next]_vars => [A]_vars
  BY <1>3
<1> HIDE DEF Inv
<1>5. Spec => [][A]_vars
  BY <1>1, <1>2, <1>4, PTL DEF Spec
<1> QED
  BY <1>5, PTL DEF RecoveredRight
=============================================================================
