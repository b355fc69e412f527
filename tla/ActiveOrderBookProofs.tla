----------------------- MODULE ActiveOrderBookProofs ------------------------
(***************************************************************************)
(* Theorems about ActiveOrderBook, for any set of orders, goroutines and   *)
(* settings: type correctness, that GracefulCancel leaves no order open,   *)
(* that open orders stay in the book, that without syncActiveOrders it     *)
(* implements OrderEvents, and that in back-testing, where one goroutine   *)
(* runs at a time, every fill is announced.                                *)
(***************************************************************************)
EXTENDS ActiveOrderBook, SequenceTheorems, TLAPS

-----------------------------------------------------------------------------
(***************************************************************************)
(* What the program knows of an order has been true of it                  *)
(***************************************************************************)
(* The exchange has one state per order, of an order that was placed; an open
   order's time counts its executions. *)
PlacedOK ==
    /\ \A o \in placed : o.status \in Open => o.time = o.executed + 1 /\ o.executed < setting.qty
    /\ \A o \in placed : o.status = "New" => o.executed = 0
    /\ \A o, q \in placed : o.id = q.id => o = q
    /\ \A o \in placed : pc[o.id] # "idle"

KnownIDs == {id \in Orders : IsPlaced(id)}

ClosedIDs == {id \in KnownIDs : ~IsOpen(id)}

(* The records of orders that were placed; one that says closed is what the
   exchange has. *)
Known == {o \in Order : o.id \in KnownIDs /\ (o.status \notin Open => o \in placed)}

(* TypeOK, and every record is of a known order. *)
KnownOK ==
    /\ setting \in Settings
    /\ placed \subseteq Order
    /\ feed \in Seq(Known)
    /\ dups \in 0 .. MaxDups
    /\ settled \subseteq Orders
    /\ {orders, pending} \subseteq [orders : SUBSET Known, removal : SUBSET Orders]
    /\ mu \subseteq Threads
    /\ pc \in [Threads -> Control]
    /\ arg \in [Threads -> SUBSET Known]
    /\ targets \in [AllCancelers -> SUBSET Known]
    /\ left \in [Cancelers -> SUBSET Known]
    /\ request \in [Cancelers -> [all : BOOLEAN, ids : SUBSET KnownIDs]]
    /\ opened \in [Syncers -> SUBSET Known]
    /\ active \in [Syncers -> SUBSET KnownIDs]
    /\ ripe \in [Syncers -> SUBSET Orders]
    /\ loop \in [Syncers -> SUBSET Flags]
    /\ filled \in [Orders -> Nat]
    /\ canceled \in [Orders -> Nat]

BookInv == KnownOK /\ PlacedOK

(* What has happened to an order does not unhappen. *)
Monotone ==
    /\ KnownIDs \subseteq KnownIDs'
    /\ ClosedIDs \subseteq ClosedIDs'
    /\ \A o \in placed : o.status \notin Open => o \in placed'

LEMMA KnownGrows ==
    ASSUME Monotone
    PROVE  Known \subseteq Known'
  BY DEF Monotone, Known

LEMMA SamePlaced ==
    ASSUME UNCHANGED placed
    PROVE  KnownIDs' = KnownIDs /\ ClosedIDs' = ClosedIDs /\ Known' = Known
<1>1. KnownIDs' = KnownIDs /\ ClosedIDs' = ClosedIDs
  BY DEF KnownIDs, ClosedIDs, IsPlaced, IsOpen
<1> QED
  BY <1>1 DEF Known

(* A record that says so is of a closed order. *)
LEMMA ClosedRecord ==
    ASSUME PlacedOK, NEW o \in Known, o.status \notin Open
    PROVE  o.id \in ClosedIDs
  BY DEF PlacedOK, Known, ClosedIDs, IsOpen

LEMMA SettingOK ==
    ASSUME KnownOK
    PROVE  setting.qty \in 1 .. FullQty /\ setting.dups \in 0 .. MaxDups
  BY BookAssumption DEF KnownOK, Setting

LEMMA TypeFromKnown == KnownOK => TypeOK
<1>1. Known \subseteq Order /\ KnownIDs \subseteq Orders
  BY DEF Known, KnownIDs
<1>2. Seq(Known) \subseteq Seq(Order)
  BY <1>1
<1> QED
  BY <1>1, <1>2 DEF KnownOK, TypeOK

LEMMA InitBook == Init => BookInv
<1> SUFFICES ASSUME Init  PROVE BookInv
  OBVIOUS
<1>1. setting \in Setting /\ setting.held \subseteq Orders /\ setting.qty \in 1 .. FullQty
  BY BookAssumption DEF Init, Setting
<1>2. placed \subseteq Order /\ \A o \in placed : o.status = "New"
  BY <1>1, BookAssumption DEF Init, Created, Order, OrderStatus
<1>3. placed \subseteq Known
  BY <1>2 DEF Known, KnownIDs, IsPlaced, Open, Order
<1>4. KnownOK
  BY <1>1, <1>2, <1>3, BookAssumption DEF Init, KnownOK, Map!Empty, Threads, Control
<1>5. PlacedOK
  BY <1>1, BookAssumption DEF Init, PlacedOK, Created, Open, Threads
<1> QED
  BY <1>4, <1>5 DEF BookInv

-----------------------------------------------------------------------------
(***************************************************************************)
(* Steps of the exchange                                                   *)
(***************************************************************************)
(* What is in a record stays true when more has happened to the orders. *)
LEMMA RecordsStay ==
    ASSUME KnownOK, Monotone, UNCHANGED <<setting, dups, bookVars, cancelVars, syncVars, history>>,
           placed' \subseteq Order, feed' \in Seq(Known'), settled' \subseteq Orders,
           pc' \in [Threads -> Control], arg' \in [Threads -> SUBSET Known']
    PROVE  KnownOK'
<1>1. Known \subseteq Known' /\ KnownIDs \subseteq KnownIDs'
  BY KnownGrows DEF Monotone
<1> QED
  BY <1>1 DEF KnownOK, bookVars, cancelVars, syncVars, history

LEMMA BecomesInv ==
    ASSUME BookInv, NEW o \in placed, o.status \in Open,
           NEW status \in OrderStatus, NEW executed \in 0 .. setting.qty, Becomes(o, status, executed),
           \/ status \notin Open /\ executed <= o.executed
           \/ status # "New" /\ executed = o.executed + 1 /\ (status \in Open => executed < setting.qty),
           UNCHANGED <<setting, dups, bookVars, pc, arg, cancelVars, syncVars, history>>
    PROVE  BookInv' /\ Monotone
<1> DEFINE new == [o EXCEPT !.status = status, !.executed = executed, !.time = @ + 1]
<1>1. o \in Order /\ o.time = o.executed + 1 /\ o.executed < setting.qty
  BY DEF BookInv, KnownOK, PlacedOK
<1>2. new \in Order /\ new.id = o.id /\ new.status = status /\ new.executed = executed
      /\ new.time = o.time + 1
  <2>1. setting.qty \in 1 .. FullQty /\ FullQty \in Nat
    BY SettingOK, BookAssumption DEF BookInv
  <2>2. executed \in 0 .. FullQty /\ o.time + 1 \in 1 .. FullQty + 2
    BY <1>1, <2>1 DEF Order
  <2> QED
    BY <1>1, <2>2 DEF Order
<1>3. placed' = (placed \ {o}) \cup {new} /\ feed' = Append(feed, new) /\ settled' \subseteq settled
  BY DEF Becomes
<1>4. \A q \in placed : q.id = o.id => q = o
  BY DEF BookInv, PlacedOK
<1> HIDE DEF new
<1>5. Monotone
  BY <1>2, <1>3 DEF Monotone, KnownIDs, ClosedIDs, IsPlaced, IsOpen
<1>6. new \in Known'
  BY <1>2, <1>3, <1>4 DEF Known, KnownIDs, ClosedIDs, IsPlaced, IsOpen, Order
<1>7. KnownOK'
  <2>1. Known \subseteq Known'
    BY <1>5, KnownGrows
  <2>2. feed' \in Seq(Known')
    BY <1>3, <1>6, <2>1 DEF BookInv, KnownOK
  <2> QED
    BY <1>2, <1>3, <1>5, <2>1, <2>2, RecordsStay DEF BookInv, KnownOK
<1>8. PlacedOK'
  <2>1. new.status = "New" => new.executed = 0
    BY <1>2 DEF Open
  <2>2. new.status \in Open => new.time = new.executed + 1 /\ new.executed < setting.qty
    BY <1>1, <1>2, SettingOK DEF BookInv, Order
  <2> QED
    BY <1>2, <1>3, <1>4, <2>1, <2>2 DEF BookInv, PlacedOK
<1> QED
  BY <1>5, <1>7, <1>8 DEF BookInv

LEMMA ExternalInv ==
    ASSUME BookInv, NEW o \in placed, Fill(o) \/ Expire(o) \/ Age(o), UNCHANGED setting
    PROVE  BookInv' /\ Monotone
<1>1. o \in Order /\ o.executed \in Nat /\ setting.qty \in Nat
      /\ (o.status \in Open => o.executed < setting.qty)
      /\ (o.status = "New" => o.executed = 0)
  <2>1. setting.qty \in 1 .. FullQty /\ FullQty \in Nat
    BY SettingOK, BookAssumption DEF BookInv
  <2> QED
    BY <2>1 DEF BookInv, KnownOK, PlacedOK, Order
<1>2. CASE Fill(o)
  <2>1. CASE o.executed + 1 = setting.qty
    BY <1>1, <1>2, <2>1, BecomesInv DEF Fill, OrderStatus, Open
  <2>2. CASE o.executed + 1 # setting.qty
    BY <1>1, <1>2, <2>2, BecomesInv DEF Fill, OrderStatus, Open
  <2> QED
    BY <2>1, <2>2
<1>3. CASE Expire(o)
  <2>1. CASE o.status \in Open /\ Becomes(o, "Canceled", o.executed)
    BY <1>1, <1>3, <2>1, BecomesInv DEF Expire, OrderStatus, Open
  <2>2. CASE o.status = "New" /\ Becomes(o, "Rejected", 0)
    BY <1>1, <1>3, <2>2, BecomesInv DEF Expire, OrderStatus, Open
  <2> QED
    BY <1>3, <2>1, <2>2 DEF Expire
<1>4. CASE Age(o)
  <2>1. Known' = Known /\ KnownIDs' = KnownIDs /\ ClosedIDs' = ClosedIDs
    BY <1>4, SamePlaced DEF Age
  <2>2. KnownOK'
    BY <1>1, <1>4, <2>1 DEF Age, BookInv, KnownOK, Order, bookVars, cancelVars, syncVars, history
  <2>3. PlacedOK'
    BY <1>4 DEF Age, BookInv, PlacedOK
  <2> QED
    BY <1>4, <2>1, <2>2, <2>3 DEF BookInv, Monotone, Age
<1> QED
  BY <1>2, <1>3, <1>4

LEMMA PlaceInv ==
    ASSUME BookInv, NEW id \in Orders, Place(id), UNCHANGED setting
    PROVE  BookInv' /\ Monotone
<1>1. Created(id) \in Order /\ Created(id).id = id /\ Created(id).status = "New"
      /\ Created(id).executed = 0 /\ Created(id).time = 1
  BY BookAssumption DEF Created, Order, OrderStatus
<1>2. placed' = placed \cup {Created(id)} /\ feed' = Append(feed, Created(id))
      /\ arg' = [arg EXCEPT ![id] = {Created(id)}] /\ pc' = [pc EXCEPT ![id] = "sent"]
  BY DEF Place, Goto
<1>3. id \in Threads /\ pc[id] = "idle" /\ \A o \in placed : o \in Order /\ o.id # id
  BY DEF Place, Threads, BookInv, KnownOK, PlacedOK
<1>4. Monotone
  BY <1>1, <1>2, <1>3 DEF Monotone, KnownIDs, ClosedIDs, IsPlaced, IsOpen
<1>5. Created(id) \in Known'
  BY <1>1, <1>2 DEF Known, KnownIDs, IsPlaced, Open
<1>6. KnownOK'
  <2>1. Known \subseteq Known'
    BY <1>4, KnownGrows
  <2>2. feed' \in Seq(Known')
    BY <1>2, <1>5, <2>1 DEF BookInv, KnownOK
  <2>3. arg' \in [Threads -> SUBSET Known']
    BY <1>2, <1>5, <2>1 DEF BookInv, KnownOK
  <2>4. pc' \in [Threads -> Control]
    BY <1>2 DEF BookInv, KnownOK, Control
  <2> QED
    BY <1>1, <1>2, <1>4, <2>2, <2>3, <2>4, RecordsStay DEF BookInv, KnownOK, Place
<1>7. PlacedOK'
  <2>1. 0 < setting.qty
    BY SettingOK, BookAssumption DEF BookInv
  <2> QED
    BY <1>1, <1>2, <1>3, <2>1 DEF BookInv, KnownOK, PlacedOK, Place, Order
<1> QED
  BY <1>4, <1>6, <1>7 DEF BookInv

-----------------------------------------------------------------------------
(***************************************************************************)
(* Steps of the program                                                    *)
(***************************************************************************)
(* A step of a goroutine that does not go back to before its submission. *)
LEMMA StaysPlaced ==
    ASSUME PlacedOK, placed \subseteq Order, UNCHANGED <<setting, placed>>,
           pc \in [Threads -> Control], NEW p, NEW l, pc' = [pc EXCEPT ![p] = l], p \in Orders => l # "idle"
    PROVE  PlacedOK'
<1>1. \A o \in placed : o.id \in Orders
  BY DEF Order
<1> QED
  BY <1>1 DEF PlacedOK, Threads

(* The helpers of the book map, on records of known orders. *)
KnownMap == [orders : SUBSET Known, removal : SUBSET Orders]

LEMMA MapTypes ==
    ASSUME NEW m \in KnownMap
    PROVE  /\ \A o \in Known : Map!AddOrder(m, o) \in KnownMap
           /\ \A o \in Known : Map!Update(m, o) \in KnownMap
           /\ \A id \in Orders : Map!Remove(m, id) \in KnownMap
           /\ \A expired \in SUBSET m.removal : Map!ProcessPendingRemoval(m, expired) \in KnownMap
           /\ \A id : Map!Exists(m, id) => Map!Get(m, id) \in Known
  BY DEF KnownMap, Map!AddOrder, Map!Update, Map!Remove, Map!ProcessPendingRemoval, Map!Without,
         Map!Exists, Map!Get, Map!Ids

LEMMA ReturnOK ==
    ASSUME BookInv, UNCHANGED <<setting, placed>>, NEW p \in Threads, Return(p)
    PROVE  /\ PlacedOK'
           /\ pc' \in [Threads -> Control]
           /\ arg' \in [Threads -> SUBSET Known]
<1>1. pc' = [pc EXCEPT ![p] = Resume(p)] /\ arg' = [arg EXCEPT ![p] = {}]
  BY DEF Return, Goto
<1>2. Resume(p) \in Control /\ (p \in Orders => Resume(p) # "idle")
  BY DEF Resume, Control
<1>3. pc \in [Threads -> Control] /\ arg \in [Threads -> SUBSET Known] /\ placed \subseteq Order
  BY DEF BookInv, KnownOK
<1> QED
  BY <1>1, <1>2, <1>3, StaysPlaced DEF BookInv

(* A step inside Update or add. *)
LEMMA BookFrame ==
    ASSUME BookInv, UNCHANGED <<setting, exchangeVars, cancelVars, syncVars, history>>,
           {orders', pending'} \subseteq KnownMap, mu' \subseteq Threads,
           pc' \in [Threads -> Control], arg' \in [Threads -> SUBSET Known], PlacedOK'
    PROVE  BookInv'
<1>1. Known' = Known /\ KnownIDs' = KnownIDs
  BY SamePlaced DEF exchangeVars
<1> QED
  BY <1>1 DEF BookInv, KnownOK, KnownMap, exchangeVars, cancelVars, syncVars, history

LEMMA BookStepInv ==
    ASSUME BookInv, NEW p \in Threads, Book(p), UNCHANGED setting
    PROVE  BookInv' /\ UNCHANGED placed
<1>1. /\ pc \in [Threads -> Control] /\ arg \in [Threads -> SUBSET Known] /\ mu \subseteq Threads
      /\ orders \in KnownMap /\ pending \in KnownMap /\ PlacedOK /\ placed \subseteq Order
  BY DEF BookInv, KnownOK, KnownMap
<1>2. \A o \in arg[p] : o \in Known /\ o \in Order /\ o.id \in Orders
  BY <1>1 DEF Known, Order
<1>3. ASSUME UNCHANGED placed, NEW l \in Control \ {"idle"}, pc' = [pc EXCEPT ![p] = l]
      PROVE  PlacedOK' /\ pc' \in [Threads -> Control]
  BY <1>1, <1>3, StaysPlaced
<1>4. ASSUME UNCHANGED placed, Return(p)
      PROVE  PlacedOK' /\ pc' \in [Threads -> Control] /\ arg' \in [Threads -> SUBSET Known]
  BY <1>4, ReturnOK
<1>5. CASE UpdateOrder(p)
  <2>1. UNCHANGED placed /\ (Goto(p, "settle") \/ Goto(p, "pend"))
    BY <1>5 DEF UpdateOrder, exchangeVars
  <2> QED
    BY <1>1, <1>3, <1>5, <2>1, BookFrame, ZenonT(60) DEF UpdateOrder, Goto, Control
<1>6. CASE Pend(p)
  <2>1. UNCHANGED placed /\ Goto(p, "pendSweep")
    BY <1>6 DEF Pend, exchangeVars
  <2>2. pending' \in KnownMap
    BY <1>1, <1>2, <1>6, MapTypes DEF Pend
  <2> QED
    BY <1>1, <1>3, <1>6, <2>1, <2>2, BookFrame DEF Pend, Goto, Control
<1>7. CASE PendSweep(p)
  <2>1. UNCHANGED placed /\ Return(p)
    BY <1>7 DEF PendSweep, exchangeVars
  <2>2. pending' \in KnownMap
    BY <1>1, <1>7, MapTypes DEF PendSweep
  <2> QED
    BY <1>1, <1>4, <1>7, <2>1, <2>2, BookFrame DEF PendSweep
<1>8. CASE SkipUpdate(p)
  BY <1>1, <1>4, <1>8, BookFrame DEF SkipUpdate, exchangeVars
<1>9. CASE Refresh(p)
  <2>1. orders' \in KnownMap
    BY <1>1, <1>2, <1>9, MapTypes DEF Refresh
  <2> QED
    BY <1>1, <1>4, <1>9, <2>1, BookFrame DEF Refresh, exchangeVars
<1>10. CASE Close(p)
  <2>1. orders' \in KnownMap
    BY <1>1, <1>2, <1>10, MapTypes DEF Close, RemoveClosed
  <2>2. UNCHANGED placed /\ (Return(p) \/ (Goto(p, "emit") /\ UNCHANGED arg))
    BY <1>10 DEF Close, exchangeVars
  <2>3. PlacedOK' /\ pc' \in [Threads -> Control] /\ arg' \in [Threads -> SUBSET Known]
    BY <1>1, <1>3, <1>4, <2>2 DEF Goto, Control
  <2> QED
    BY <1>1, <1>10, <2>1, <2>2, <2>3, BookFrame DEF Close
<1>11. CASE Emit(p)
  <2>1. UNCHANGED placed /\ Return(p)
    BY <1>11 DEF Emit, exchangeVars
  <2>2. PlacedOK' /\ pc' \in [Threads -> Control] /\ arg' \in [Threads -> SUBSET Known]
    BY <1>4, <2>1
  <2>3. filled' \in [Orders -> Nat] /\ canceled' \in [Orders -> Nat]
    <3>1. PICK o \in arg[p] : IF o.status = "Filled"
                              THEN filled' = [filled EXCEPT ![o.id] = @ + 1] /\ canceled' = canceled
                              ELSE canceled' = [canceled EXCEPT ![o.id] = @ + 1] /\ filled' = filled
      BY <1>11 DEF Emit
    <3>2. filled \in [Orders -> Nat] /\ canceled \in [Orders -> Nat] /\ o.id \in Orders
      BY <1>2 DEF BookInv, KnownOK
    <3> QED
      BY <3>1, <3>2
  <2>4. Known' = Known /\ KnownIDs' = KnownIDs
    BY <2>1, SamePlaced
  <2> QED
    BY <1>11, <2>1, <2>2, <2>3, <2>4
       DEF Emit, BookInv, KnownOK, exchangeVars, bookVars, cancelVars, syncVars
<1>12. CASE AddOrder(p)
  <2>1. arg' \in [Threads -> SUBSET Known]
    BY <1>1, <1>2, <1>12, MapTypes DEF AddOrder, Adopted
  <2>2. UNCHANGED placed /\ (Goto(p, "insertPending") \/ Goto(p, "insert"))
    BY <1>12 DEF AddOrder, exchangeVars
  <2> QED
    BY <1>1, <1>3, <1>12, <2>1, <2>2, BookFrame DEF AddOrder, Goto, Control, bookVars
<1>13. CASE Insert(p)
  <2>1. orders' \in KnownMap
    BY <1>1, <1>2, <1>13, MapTypes DEF Insert, InsertAny
  <2>2. UNCHANGED placed /\ (Goto(p, "sweepPending") \/ Goto(p, "sweep"))
    BY <1>13 DEF Insert, exchangeVars
  <2> QED
    BY <1>1, <1>3, <1>13, <2>1, <2>2, BookFrame DEF Insert, Goto, Control
<1>14. CASE Sweep(p)
  <2>1. orders' \in KnownMap
    BY <1>1, <1>14, MapTypes DEF Sweep
  <2>2. UNCHANGED placed /\ (Return(p) \/ (Goto(p, "dropPending") /\ UNCHANGED arg))
    BY <1>14 DEF Sweep, exchangeVars
  <2>3. PlacedOK' /\ pc' \in [Threads -> Control] /\ arg' \in [Threads -> SUBSET Known]
    BY <1>1, <1>3, <1>4, <2>2 DEF Goto, Control
  <2> QED
    BY <1>1, <1>14, <2>1, <2>2, <2>3, BookFrame DEF Sweep
<1>15. CASE DropPending(p)
  <2>1. pending' \in KnownMap
    BY <1>1, <1>2, <1>15, MapTypes DEF DropPending
  <2>2. UNCHANGED placed /\ (Return(p) \/ (Goto(p, "update") /\ UNCHANGED arg))
    BY <1>15 DEF DropPending, exchangeVars
  <2>3. PlacedOK' /\ pc' \in [Threads -> Control] /\ arg' \in [Threads -> SUBSET Known]
    BY <1>1, <1>3, <1>4, <2>2 DEF Goto, Control
  <2> QED
    BY <1>1, <1>15, <2>1, <2>2, <2>3, BookFrame DEF DropPending
<1>16. UNCHANGED placed
  BY DEF Book, UpdateOrder, Pend, PendSweep, SkipUpdate, Refresh, Close, Emit, AddOrder, Insert,
         Sweep, DropPending, exchangeVars
<1> QED
  BY <1>5, <1>6, <1>7, <1>8, <1>9, <1>10, <1>11, <1>12, <1>13, <1>14, <1>15, <1>16 DEF Book

LEMMA SubmittingInv ==
    ASSUME BookInv, NEW id \in Orders, Submitting(id), UNCHANGED setting
    PROVE  BookInv' /\ UNCHANGED placed
<1>1. /\ pc \in [Threads -> Control] /\ arg \in [Threads -> SUBSET Known] /\ mu \subseteq Threads
      /\ orders \in KnownMap /\ pending \in KnownMap /\ PlacedOK /\ placed \subseteq Order
  BY DEF BookInv, KnownOK, KnownMap
<1>2. /\ UNCHANGED <<exchangeVars, bookVars, arg, cancelVars, syncVars, history>>
      /\ (Goto(id, "add") \/ Goto(id, "lost"))
  BY DEF Submitting, Respond, ResponseLost
<1>3. id \in Threads /\ UNCHANGED placed
  BY <1>2 DEF Threads, exchangeVars
<1>4. PlacedOK' /\ pc' \in [Threads -> Control]
  BY <1>1, <1>2, <1>3, StaysPlaced DEF Goto, Control
<1> QED
  BY <1>1, <1>2, <1>3, <1>4, BookFrame DEF bookVars

LEMMA ReceiveInv ==
    ASSUME BookInv, NEW p \in Streams, Receive(p), UNCHANGED setting
    PROVE  BookInv' /\ UNCHANGED placed
<1>1. /\ pc \in [Threads -> Control] /\ arg \in [Threads -> SUBSET Known]
      /\ feed \in Seq(Known) /\ PlacedOK /\ placed \subseteq Order
  BY DEF BookInv, KnownOK
<1>2. /\ feed # <<>> /\ UNCHANGED <<placed, settled, bookVars, cancelVars, syncVars, history>>
      /\ arg' = [arg EXCEPT ![p] = {Head(feed)}] /\ pc' = [pc EXCEPT ![p] = "update"]
      /\ \/ feed' = Tail(feed) /\ UNCHANGED dups
         \/ dups < setting.dups /\ dups' = dups + 1 /\ UNCHANGED feed
  BY DEF Receive, Goto
<1>3. Head(feed) \in Known /\ feed' \in Seq(Known)
  BY <1>1, <1>2
<1>4. dups' \in 0 .. MaxDups
  BY <1>2, SettingOK, BookAssumption DEF BookInv, KnownOK
<1>5. p \in Threads /\ PlacedOK' /\ pc' \in [Threads -> Control]
  BY <1>1, <1>2, StaysPlaced DEF Threads, Control
<1>6. arg' \in [Threads -> SUBSET Known]
  BY <1>1, <1>2, <1>3
<1>7. Known' = Known /\ KnownIDs' = KnownIDs
  BY <1>2, SamePlaced
<1> QED
  BY <1>2, <1>3, <1>4, <1>5, <1>6, <1>7
     DEF BookInv, KnownOK, bookVars, cancelVars, syncVars, history

(* A step of a goroutine that cancels orders, and of one that synchronises. *)
LEMMA CancelFrame ==
    ASSUME BookInv, UNCHANGED <<setting, exchangeVars, pending, mu, arg, syncVars, history>>,
           NEW p \in AllCancelers, NEW l \in Control, pc' = [pc EXCEPT ![p] = l],
           orders' \in KnownMap, targets' \in [AllCancelers -> SUBSET Known],
           left' \in [Cancelers -> SUBSET Known],
           request' \in [Cancelers -> [all : BOOLEAN, ids : SUBSET KnownIDs]]
    PROVE  BookInv' /\ UNCHANGED placed
<1>1. Known' = Known /\ KnownIDs' = KnownIDs /\ UNCHANGED placed
  BY SamePlaced DEF exchangeVars
<1>2. p \notin Orders /\ pc \in [Threads -> Control] /\ placed \subseteq Order
  BY BookAssumption DEF BookInv, KnownOK
<1>3. PlacedOK' /\ pc' \in [Threads -> Control]
  BY <1>1, <1>2, StaysPlaced DEF BookInv
<1> QED
  BY <1>1, <1>3 DEF BookInv, KnownOK, KnownMap, exchangeVars, syncVars, history

LEMMA SyncFrame ==
    ASSUME BookInv, UNCHANGED <<setting, exchangeVars, bookVars, cancelVars, history>>,
           NEW p \in Syncers, NEW l \in Control, pc' = [pc EXCEPT ![p] = l],
           arg' \in [Threads -> SUBSET Known], opened' \in [Syncers -> SUBSET Known],
           active' \in [Syncers -> SUBSET KnownIDs], ripe' \in [Syncers -> SUBSET Orders],
           loop' \in [Syncers -> SUBSET Flags]
    PROVE  BookInv' /\ UNCHANGED placed
<1>1. Known' = Known /\ KnownIDs' = KnownIDs /\ UNCHANGED placed
  BY SamePlaced DEF exchangeVars
<1>2. p \notin Orders /\ pc \in [Threads -> Control] /\ placed \subseteq Order
  BY BookAssumption DEF BookInv, KnownOK
<1>3. PlacedOK' /\ pc' \in [Threads -> Control]
  BY <1>1, <1>2, StaysPlaced DEF BookInv
<1> QED
  BY <1>1, <1>3 DEF BookInv, KnownOK, exchangeVars, bookVars, cancelVars, history

LEMMA CancelingInv ==
    ASSUME BookInv, NEW p \in AllCancelers, UNCHANGED setting,
           \/ p \in Cancelers /\ Graceful(p)
           \/ p \in FastCancelers /\ Fast(p)
           \/ CancelReturns(p)
    PROVE  BookInv' /\ UNCHANGED placed
<1>1. /\ orders \in KnownMap /\ targets \in [AllCancelers -> SUBSET Known]
      /\ left \in [Cancelers -> SUBSET Known] /\ pc \in [Threads -> Control]
      /\ request \in [Cancelers -> [all : BOOLEAN, ids : SUBSET KnownIDs]]
  BY DEF BookInv, KnownOK, KnownMap
<1>2. orders.orders \subseteq Known /\ Map!Ids(orders) \subseteq KnownIDs
      /\ \A t \in targets[p] : t.id \in Orders
  BY <1>1 DEF KnownMap, Known, Map!Ids, Order
<1>3. /\ p \in Threads /\ {"cancel", "wait", "remove", "done", "query", "unverified", "verify"} \subseteq Control
      /\ pc = [pc EXCEPT ![p] = pc[p]] /\ pc[p] \in Control
  BY <1>1 DEF Threads, Control
<1>4. CASE CancelReturns(p)
  BY <1>1, <1>3, <1>4, CancelFrame DEF CancelReturns, Goto, bookVars, cancelVars
<1>5. CASE p \in Cancelers /\ Graceful(p)
  <2>1. CASE GracefulCancel(p)
    <3>1. PICK all \in BOOLEAN, ids \in SUBSET Map!Ids(orders) : Chosen(p, all, ids)
      BY <2>1 DEF GracefulCancel
    <3>2. targets' \in [AllCancelers -> SUBSET Known]
      BY <1>1, <1>2, <3>1 DEF Chosen
    <3>3. request' \in [Cancelers -> [all : BOOLEAN, ids : SUBSET KnownIDs]]
      BY <1>1, <1>2, <3>1 DEF Chosen
    <3> QED
      BY <1>1, <1>3, <2>1, <3>2, <3>3, CancelFrame DEF GracefulCancel, Goto, bookVars
  <2>2. CASE Cleared(p) \/ NotCleared(p) \/ Interrupted(p)
    BY <1>1, <1>3, <2>2, CancelFrame DEF Cleared, NotCleared, Interrupted, Goto, bookVars, cancelVars
  <2>3. CASE QueryOpenOrders(p)
    <3>1. targets' \in [AllCancelers -> SUBSET Known] /\ left' \in [Cancelers -> SUBSET Known]
      BY <1>1, <2>3 DEF QueryOpenOrders, LeftOrders
    <3> QED
      BY <1>1, <1>3, <2>3, <3>1, CancelFrame DEF QueryOpenOrders, Goto, bookVars
  <2>4. CASE QueryOpenOrdersFails(p)
    BY <1>1, <1>3, <2>4, CancelFrame DEF QueryOpenOrdersFails, Goto, bookVars
  <2>5. CASE RemoveVerified(p)
    <3>1. orders' \in KnownMap
      BY <1>1, <1>2, <2>5, MapTypes DEF RemoveVerified
    <3>2. targets' \in [AllCancelers -> SUBSET Known]
      BY <1>1, <2>5 DEF RemoveVerified
    <3> QED
      BY <1>1, <1>3, <2>5, <3>1, <3>2, CancelFrame DEF RemoveVerified
  <2>6. CASE TryAgain(p)
    <3>1. targets' \in [AllCancelers -> SUBSET Known]
      BY <1>1, <1>5, <2>6 DEF TryAgain
    <3> QED
      BY <1>1, <1>3, <2>6, <3>1, CancelFrame DEF TryAgain, Goto, bookVars
  <2> QED
    BY <1>5, <2>1, <2>2, <2>3, <2>4, <2>5, <2>6 DEF Graceful
<1>6. CASE p \in FastCancelers /\ Fast(p)
  <2>1. CASE FastCancel(p)
    <3>1. targets' \in [AllCancelers -> SUBSET Known]
      BY <1>1, <1>2, <2>1 DEF FastCancel
    <3>2. /\ UNCHANGED <<exchangeVars, bookVars, arg, left, request, syncVars, history>>
          /\ pc' = [pc EXCEPT ![p] = "cancel"]
      BY <2>1 DEF FastCancel, Goto
    <3> QED
      BY <1>1, <1>3, <3>1, <3>2, CancelFrame DEF bookVars
  <2>2. CASE RemoveFast(p)
    <3>1. orders' \in KnownMap
      BY <1>1, <1>2, <2>2, MapTypes DEF RemoveFast
    <3>2. targets' \in [AllCancelers -> SUBSET Known]
      BY <1>1, <2>2 DEF RemoveFast
    <3> QED
      BY <1>1, <1>3, <2>2, <3>1, <3>2, CancelFrame DEF RemoveFast
  <2>3. CASE FastCancelReturns(p)
    BY <1>1, <1>3, <2>3, CancelFrame DEF FastCancelReturns, Goto, bookVars, cancelVars
  <2> QED
    BY <1>6, <2>1, <2>2, <2>3 DEF Fast
<1> QED
  BY <1>4, <1>5, <1>6

LEMMA CancelOneInv ==
    ASSUME BookInv, NEW p \in AllCancelers, CancelOne(p), UNCHANGED setting
    PROVE  BookInv' /\ Monotone
<1>1. PICK o \in placed : o.status \in Open /\ Becomes(o, "Canceled", o.executed)
  BY DEF CancelOne
<1>2. o.executed \in 0 .. setting.qty /\ o.executed <= o.executed
  BY <1>1, SettingOK, BookAssumption DEF BookInv, KnownOK, PlacedOK, Order
<1> QED
  BY <1>1, <1>2, BecomesInv DEF CancelOne, OrderStatus, Open

(* Where the goroutine of the syncs is while it does not call the book. *)
SyncPlaces == {"idle", "send", "ask", "read", "compare"}

(* What its steps do to what it shares with the others. *)
LEMMA SyncSteps ==
    ASSUME NEW p, Recovering(p)
    PROVE  /\ UNCHANGED <<exchangeVars, bookVars, cancelVars, history>>
           /\ \/ UNCHANGED <<pc, arg>>
              \/ UNCHANGED arg /\ \E l \in SyncPlaces : Goto(p, l)
              \/ \E id \in active[p] : arg' = [arg EXCEPT ![p] = {At(id)}] /\ Goto(p, "update")
              \/ \E o \in opened[p] : arg' = [arg EXCEPT ![p] = {o}] /\ Goto(p, "add")
<1>1. CASE TenMinutes(p) \/ Reauthenticated(p) \/ Waking(p)
  BY <1>1 DEF TenMinutes, Reauthenticated, Waking, Tick, SendSignal, TakeSignal, SkipSignal, SyncBegin,
              Looping, SyncPlaces
<1>2. CASE AskOpenOrders(p) \/ AskFails(p) \/ ReadActive(p) \/ SyncEnd(p)
  BY <1>2 DEF AskOpenOrders, AskFails, ReadActive, SyncEnd, SyncReturns, SyncPlaces
<1>3. CASE Comparing(p)
  BY <1>3 DEF Comparing, SyncOne, SkipOne, QueryOrderFails, Compared
<1>4. CASE AdoptOpen(p)
  BY <1>4 DEF AdoptOpen, AdoptByAdd
<1> QED
  BY <1>1, <1>2, <1>3, <1>4 DEF Recovering, Syncing

LEMMA RecoveringInv ==
    ASSUME BookInv, NEW p \in Syncers, Recovering(p), UNCHANGED setting
    PROVE  BookInv' /\ UNCHANGED placed
<1>1. /\ orders \in KnownMap /\ arg \in [Threads -> SUBSET Known] /\ pc \in [Threads -> Control]
      /\ opened \in [Syncers -> SUBSET Known] /\ active \in [Syncers -> SUBSET KnownIDs]
      /\ ripe \in [Syncers -> SUBSET Orders] /\ placed \subseteq Order /\ settled \subseteq Orders
      /\ loop \in [Syncers -> SUBSET Flags]
  BY DEF BookInv, KnownOK, KnownMap
<1>2. Map!Ids(orders) \subseteq KnownIDs
  BY <1>1 DEF KnownMap, Known, Map!Ids
<1>3. /\ p \in Threads /\ SyncPlaces \cup {"update", "add"} \subseteq Control
      /\ pc = [pc EXCEPT ![p] = pc[p]] /\ pc[p] \in Control
  BY <1>1 DEF Threads, Control, SyncPlaces
<1>4. placed \subseteq Known
  BY <1>1 DEF Known, KnownIDs, ClosedIDs, IsPlaced, IsOpen, Order, BookInv, PlacedOK
<1>5. opened' \in [Syncers -> SUBSET Known]
  BY <1>1, <1>4 DEF Recovering, TenMinutes, Reauthenticated, Waking, Tick, SendSignal, TakeSignal,
                    SkipSignal, SyncBegin, Looping, Syncing, AskOpenOrders, AskFails, ReadActive, SyncEnd,
                    SyncReturns, Comparing, SyncOne, SkipOne, QueryOrderFails, Compared, AdoptOpen
<1>6. active' \in [Syncers -> SUBSET KnownIDs]
  BY <1>1, <1>2 DEF Recovering, TenMinutes, Reauthenticated, Waking, Tick, SendSignal, TakeSignal,
                    SkipSignal, SyncBegin, Looping, Syncing, AskOpenOrders, AskFails, ReadActive, SyncEnd,
                    SyncReturns, Comparing, SyncOne, SkipOne, QueryOrderFails, Compared, AdoptOpen,
                    ActiveNotOpen
<1>7. ripe' \in [Syncers -> SUBSET Orders]
  BY <1>1 DEF Recovering, TenMinutes, Reauthenticated, Waking, Tick, SendSignal, TakeSignal, SkipSignal,
              SyncBegin, Looping, Syncing, AskOpenOrders, AskFails, ReadActive, SyncEnd, SyncReturns,
              Comparing, SyncOne, SkipOne, QueryOrderFails, Compared, AdoptOpen
<1>8. loop' \in [Syncers -> SUBSET Flags]
  BY <1>1 DEF Recovering, TenMinutes, Reauthenticated, Waking, Tick, SendSignal, TakeSignal, SkipSignal,
              SyncBegin, Looping, Syncing, AskOpenOrders, AskFails, ReadActive, SyncEnd, SyncReturns,
              Comparing, SyncOne, SkipOne, QueryOrderFails, Compared, AdoptOpen, Becoming, Flags, syncVars
<1>9. CASE UNCHANGED <<pc, arg>>
  BY <1>1, <1>3, <1>5, <1>6, <1>7, <1>8, <1>9, SyncSteps, SyncFrame
<1>10. CASE UNCHANGED arg /\ \E l \in SyncPlaces : Goto(p, l)
  BY <1>1, <1>3, <1>5, <1>6, <1>7, <1>8, <1>10, SyncSteps, SyncFrame DEF Goto
<1>11. ASSUME NEW o \in Known, NEW l \in Control, arg' = [arg EXCEPT ![p] = {o}], Goto(p, l)
       PROVE  BookInv' /\ UNCHANGED placed
  <2>1. arg' \in [Threads -> SUBSET Known]
    BY <1>1, <1>11
  <2> QED
    BY <1>5, <1>6, <1>7, <1>8, <1>11, <2>1, SyncSteps, SyncFrame DEF Goto
<1>12. \A id \in active[p] : At(id) \in Known
  BY <1>1, <1>4 DEF At, KnownIDs, IsPlaced
<1> QED
  BY <1>1, <1>3, <1>9, <1>10, <1>11, <1>12, SyncSteps

-----------------------------------------------------------------------------
LEMMA NextBook ==
    ASSUME BookInv, [Next]_vars
    PROVE  BookInv' /\ Monotone
<1>1. UNCHANGED placed => Monotone
  BY SamePlaced DEF Monotone
<1>2. CASE Next
  <2>1. ASSUME NEW o \in placed, Fill(o) \/ Expire(o) \/ Age(o)  PROVE BookInv' /\ Monotone
    BY <1>2, <2>1, ExternalInv DEF Next
  <2>2. ASSUME NEW id \in Orders, Place(id) \/ Submitting(id)  PROVE BookInv' /\ Monotone
    BY <1>1, <1>2, <2>2, PlaceInv, SubmittingInv DEF Next
  <2>3. ASSUME NEW p \in Streams, Receive(p)  PROVE BookInv' /\ Monotone
    BY <1>1, <1>2, <2>3, ReceiveInv DEF Next
  <2>4. ASSUME NEW p \in Cancelers, Graceful(p)  PROVE BookInv' /\ Monotone
    BY <1>1, <1>2, <2>4, CancelingInv DEF Next, AllCancelers
  <2>5. ASSUME NEW p \in FastCancelers, Fast(p)  PROVE BookInv' /\ Monotone
    BY <1>1, <1>2, <2>5, CancelingInv DEF Next, AllCancelers
  <2>6. ASSUME NEW p \in AllCancelers, CancelOne(p) \/ CancelReturns(p)  PROVE BookInv' /\ Monotone
    BY <1>1, <1>2, <2>6, CancelOneInv, CancelingInv DEF Next
  <2>7. ASSUME NEW p \in Syncers, Recovering(p)  PROVE BookInv' /\ Monotone
    BY <1>1, <1>2, <2>7, RecoveringInv DEF Next
  <2>8. ASSUME NEW p \in Threads, Book(p)  PROVE BookInv' /\ Monotone
    BY <1>1, <1>2, <2>8, BookStepInv DEF Next
  <2> QED
    BY <1>2, <2>1, <2>2, <2>3, <2>4, <2>5, <2>6, <2>7, <2>8 DEF Next, External
<1>3. CASE UNCHANGED vars
  <2>1. Known' = Known /\ KnownIDs' = KnownIDs /\ UNCHANGED placed
    BY <1>3, SamePlaced DEF vars, moving, exchangeVars
  <2> QED
    BY <1>1, <1>3, <2>1 DEF BookInv, KnownOK, PlacedOK, vars, moving, exchangeVars, bookVars,
                            cancelVars, syncVars, history
<1> QED
  BY <1>2, <1>3

(* Every variable keeps its type, for any orders, goroutines and settings. *)
THEOREM TypeCorrect == Spec => []TypeOK
<1>1. BookInv => TypeOK
  BY TypeFromKnown DEF BookInv
<1>2. BookInv /\ [Next]_vars => BookInv'
  BY NextBook
<1> QED
  BY InitBook, <1>1, <1>2, PTL DEF Spec

-----------------------------------------------------------------------------
(***************************************************************************)
(* GracefulCancel                                                          *)
(***************************************************************************)
(* The orders of the call that are still open at the exchange. *)
StillOpen(p) == request[p].ids \ ClosedIDs

IdsOf(records) == {o.id : o \in records}

(* An open order of the call stays in the book; the goroutine holds it among
   the orders it will cancel, or among those it found open and will try again;
   and what it removes from the book is closed. *)
CancelerOK(p) ==
    /\ pc[p] \in {"idle", "cancel", "wait", "query", "verify", "done", "unverified", "absent"}
    /\ StillOpen(p) \subseteq Map!Ids(orders)
    /\ pc[p] = "verify" => IdsOf(targets[p]) \subseteq ClosedIDs
    /\ ~setting.queryFails =>
          /\ pc[p] \in {"cancel", "wait", "query"} => StillOpen(p) \subseteq IdsOf(targets[p])
          /\ pc[p] = "verify" => StillOpen(p) \subseteq IdsOf(left[p])
          /\ pc[p] = "done" => StillOpen(p) = {}

CancelInv == orders.removal \subseteq ClosedIDs /\ \A p \in Cancelers : CancelerOK(p)

(* No open order leaves the book, and none is to be removed later. *)
OrdersKept ==
    /\ Map!Ids(orders) \subseteq Map!Ids(orders') \cup ClosedIDs'
    /\ orders'.removal \subseteq ClosedIDs'

LEMMA CancelerStays ==
    ASSUME CancelInv, Monotone, OrdersKept, UNCHANGED setting, NEW p \in Cancelers,
           pc'[p] = pc[p], request'[p] = request[p], targets'[p] = targets[p], left'[p] = left[p]
    PROVE  CancelerOK(p)'
<1>1. StillOpen(p)' \subseteq StillOpen(p) /\ ClosedIDs \subseteq ClosedIDs'
  BY DEF StillOpen, Monotone
<1>2. IdsOf(targets[p])' = IdsOf(targets[p]) /\ IdsOf(left[p])' = IdsOf(left[p])
  BY DEF IdsOf
<1>3. StillOpen(p)' \cap ClosedIDs' = {}
  BY DEF StillOpen
<1>4. Map!Ids(orders) \subseteq Map!Ids(orders)' \cup ClosedIDs'
  BY DEF OrdersKept
<1> QED
  BY <1>1, <1>2, <1>3, <1>4 DEF CancelInv, CancelerOK

LEMMA MapKeeps ==
    ASSUME NEW m \in KnownMap
    PROVE  /\ \A o \in Known : /\ Map!Ids(m) \subseteq Map!Ids(Map!AddOrder(m, o))
                               /\ Map!AddOrder(m, o).removal = m.removal
           /\ \A o \in Known : /\ Map!Ids(m) \subseteq Map!Ids(Map!Update(m, o))
                               /\ Map!Update(m, o).removal = m.removal
           /\ \A id \in Orders : /\ Map!Ids(m) \ {id} \subseteq Map!Ids(Map!Remove(m, id))
                                 /\ Map!Remove(m, id).removal \subseteq m.removal \cup {id}
           /\ \A expired \in SUBSET m.removal :
                 /\ Map!Ids(m) \ m.removal \subseteq Map!Ids(Map!ProcessPendingRemoval(m, expired))
                 /\ Map!ProcessPendingRemoval(m, expired).removal \subseteq m.removal
<1>1. m.orders \subseteq Known /\ \A o \in m.orders : o.id \in Orders
  BY DEF KnownMap, Known, Order
<1>2. ASSUME NEW o \in Known
      PROVE  /\ Map!Ids(m) \subseteq Map!Ids(Map!AddOrder(m, o))
             /\ Map!AddOrder(m, o).removal = m.removal
  <2>1. Map!AddOrder(m, o).orders = Map!Without(m, {o.id}) \cup {o}
        /\ Map!AddOrder(m, o).removal = m.removal
    BY DEF KnownMap, Map!AddOrder
  <2> QED
    BY <2>1 DEF Map!Without, Map!Ids
<1>3. ASSUME NEW o \in Known
      PROVE  /\ Map!Ids(m) \subseteq Map!Ids(Map!Update(m, o))
             /\ Map!Update(m, o).removal = m.removal
  BY <1>2 DEF Map!Update
<1>4. ASSUME NEW id \in Orders
      PROVE  /\ Map!Ids(m) \ {id} \subseteq Map!Ids(Map!Remove(m, id))
             /\ Map!Remove(m, id).removal \subseteq m.removal \cup {id}
  BY <1>1 DEF KnownMap, Map!Remove, Map!Without, Map!Ids
<1>5. ASSUME NEW expired \in SUBSET m.removal
      PROVE  /\ Map!Ids(m) \ m.removal \subseteq Map!Ids(Map!ProcessPendingRemoval(m, expired))
             /\ Map!ProcessPendingRemoval(m, expired).removal \subseteq m.removal
  BY <1>1 DEF KnownMap, Map!ProcessPendingRemoval, Map!Without, Map!Ids
<1> QED
  BY <1>2, <1>3, <1>4, <1>5

(* A step of others, which may change the book but keeps its open orders. *)
LEMMA OthersStep ==
    ASSUME CancelInv, Monotone, OrdersKept, UNCHANGED <<setting, cancelVars>>,
           \A p \in Cancelers : pc'[p] = pc[p]
    PROVE  CancelInv'
<1>1. ASSUME NEW p \in Cancelers  PROVE CancelerOK(p)'
  BY CancelerStays DEF cancelVars
<1>2. orders'.removal \subseteq ClosedIDs'
  BY DEF OrdersKept
<1> QED
  BY <1>1, <1>2 DEF CancelInv

LEMMA SameOrders ==
    ASSUME CancelInv, Monotone, UNCHANGED orders
    PROVE  OrdersKept
  BY DEF CancelInv, Monotone, OrdersKept

(* A closed order may leave the book, and only a closed order. *)
LEMMA BookKeeps ==
    ASSUME BookInv, CancelInv, NEW p \in Threads, Book(p), Monotone
    PROVE  OrdersKept
<1>1. /\ pc \in [Threads -> Control] /\ orders \in KnownMap /\ orders.removal \subseteq ClosedIDs
      /\ \A o \in arg[p] : o \in Known /\ o.id \in Orders /\ (o.status \notin Open => o.id \in ClosedIDs)
      /\ ClosedIDs \subseteq ClosedIDs'
  <2>1. \A o \in arg[p] : o \in Known
    BY DEF BookInv, KnownOK
  <2>2. \A o \in arg[p] : o.status \notin Open => o.id \in ClosedIDs
    BY <2>1, ClosedRecord DEF BookInv
  <2> QED
    BY <2>1, <2>2 DEF BookInv, KnownOK, KnownMap, Known, Order, CancelInv, Monotone
<1>2. CASE UNCHANGED orders
  BY <1>2, SameOrders
<1>3. CASE Refresh(p)
  BY <1>1, <1>3, MapKeeps DEF Refresh, OrdersKept
<1>4. CASE Close(p)
  <2>1. PICK o \in arg[p] : o.status \notin Open /\ orders' = Map!Remove(orders, o.id)
    BY <1>4 DEF Close, RemoveClosed
  <2>2. /\ Map!Ids(orders) \ {o.id} \subseteq Map!Ids(orders')
        /\ orders'.removal \subseteq orders.removal \cup {o.id}
    BY <1>1, <2>1, MapKeeps
  <2> QED
    BY <1>1, <2>1, <2>2 DEF OrdersKept
<1>5. CASE Insert(p)
  BY <1>1, <1>5, MapKeeps DEF Insert, InsertAny, OrdersKept
<1>6. CASE Sweep(p)
  <2>1. PICK expired \in SUBSET orders.removal :
            orders' = Map!ProcessPendingRemoval(orders, expired)
    BY <1>6 DEF Sweep
  <2>2. /\ Map!Ids(orders) \ orders.removal \subseteq Map!Ids(orders')
        /\ orders'.removal \subseteq orders.removal
    BY <1>1, <2>1, MapKeeps
  <2> QED
    BY <1>1, <2>2 DEF OrdersKept
<1>7. UNCHANGED orders \/ Refresh(p) \/ Close(p) \/ Insert(p) \/ Sweep(p)
  BY DEF Book, UpdateOrder, Pend, PendSweep, SkipUpdate, Emit, AddOrder, DropPending, bookVars
<1> QED
  BY <1>2, <1>3, <1>4, <1>5, <1>6, <1>7

LEMMA BookStepCancels ==
    ASSUME BookInv, CancelInv, NEW p \in Threads, Book(p), UNCHANGED setting, Monotone
    PROVE  CancelInv'
<1>1. pc \in [Threads -> Control]
  BY DEF BookInv, KnownOK
<1>2. pc[p] \in {"update", "pend", "pendSweep", "settle", "emit", "add", "insertPending", "insert",
                 "sweepPending", "sweep", "dropPending"}
  BY DEF Book, UpdateOrder, Pend, PendSweep, SkipUpdate, Refresh, Close, Emit, AddOrder, Insert,
         Sweep, DropPending
<1>3. p \notin Cancelers
  BY <1>2 DEF CancelInv, CancelerOK
<1>4. \A q \in Cancelers : pc'[q] = pc[q]
  <2>1. \E l : pc' = [pc EXCEPT ![p] = l]
    BY DEF Book, UpdateOrder, Pend, PendSweep, SkipUpdate, Refresh, Close, Emit, AddOrder, Insert,
           Sweep, DropPending, Return, Goto
  <2> QED
    BY <1>1, <1>3, <2>1 DEF Threads, AllCancelers
<1>5. UNCHANGED cancelVars
  BY DEF Book, UpdateOrder, Pend, PendSweep, SkipUpdate, Refresh, Close, Emit, AddOrder, Insert,
         Sweep, DropPending
<1>6. OrdersKept
  BY BookKeeps
<1> QED
  BY <1>4, <1>5, <1>6, OthersStep

LEMMA RemoveKeeps ==
    ASSUME BookInv, CancelInv, NEW p \in Cancelers, RemoveVerified(p), Monotone
    PROVE  OrdersKept
<1>1. PICK t \in targets[p] : pc[p] = "verify" /\ orders' = Map!Remove(orders, t.id)
  BY DEF RemoveVerified
<1>2. t.id \in ClosedIDs /\ t.id \in Orders
  BY <1>1 DEF CancelInv, CancelerOK, IdsOf, ClosedIDs, KnownIDs
<1>3. /\ Map!Ids(orders) \ {t.id} \subseteq Map!Ids(orders')
      /\ orders'.removal \subseteq orders.removal \cup {t.id}
  BY <1>1, <1>2, MapKeeps DEF BookInv, KnownOK, KnownMap
<1> QED
  BY <1>2, <1>3 DEF CancelInv, OrdersKept, Monotone

LEMMA GracefulCancels ==
    ASSUME BookInv, CancelInv, NEW p \in Cancelers, Graceful(p) \/ CancelReturns(p),
           UNCHANGED <<setting, placed>>
    PROVE  CancelInv'
<1>1. /\ orders \in KnownMap /\ targets \in [AllCancelers -> SUBSET Known]
      /\ left \in [Cancelers -> SUBSET Known] /\ pc \in [Threads -> Control]
      /\ request \in [Cancelers -> [all : BOOLEAN, ids : SUBSET KnownIDs]]
      /\ p \in AllCancelers /\ p \in Threads /\ Cancelers \subseteq Threads
      /\ Cancelers \subseteq AllCancelers
  BY DEF BookInv, KnownOK, KnownMap, Threads, AllCancelers
<1>2. ClosedIDs' = ClosedIDs /\ KnownIDs' = KnownIDs /\ Monotone
  BY SamePlaced DEF Monotone
<1>3. \A t \in targets[p] : t.id \in KnownIDs
  BY <1>1 DEF Known
<1>4. CancelerOK(p)
  BY DEF CancelInv
<1>5. SUFFICES OrdersKept /\ CancelerOK(p)'
  <2>1. ASSUME NEW q \in Cancelers \ {p}
        PROVE  /\ pc'[q] = pc[q] /\ request'[q] = request[q]
               /\ targets'[q] = targets[q] /\ left'[q] = left[q]
    BY <1>1 DEF Graceful, GracefulCancel, Chosen, Cleared, NotCleared, Interrupted, QueryOpenOrders,
                QueryOpenOrdersFails, RemoveVerified, TryAgain, CancelReturns, Goto, cancelVars
  <2>2. ASSUME OrdersKept, CancelerOK(p)', NEW q \in Cancelers  PROVE CancelerOK(q)'
    BY <1>2, <2>1, <2>2, CancelerStays
  <2> QED
    BY <2>2 DEF CancelInv, OrdersKept
<1>6. UNCHANGED orders => OrdersKept /\ Map!Ids(orders)' = Map!Ids(orders)
  BY <1>2, SameOrders
<1>7. CASE CancelReturns(p)
  <2>1. pc'[p] = "wait" /\ pc[p] = "cancel" /\ UNCHANGED <<bookVars, cancelVars>>
    BY <1>1, <1>7 DEF CancelReturns, Goto
  <2>2. UNCHANGED <<orders, targets, request>>
    BY <2>1 DEF bookVars, cancelVars
  <2> QED
    BY <1>2, <1>4, <1>6, <2>1, <2>2 DEF CancelerOK, StillOpen, IdsOf
<1>8. CASE GracefulCancel(p)
  <2>1. PICK all \in BOOLEAN, ids \in SUBSET Map!Ids(orders) : Chosen(p, all, ids)
    BY <1>8 DEF GracefulCancel
  <2>2. pc'[p] = "cancel" /\ UNCHANGED orders
    BY <1>1, <1>8 DEF GracefulCancel, Goto, bookVars
  <2>3. request'[p].ids = ids /\ targets'[p] = {o \in orders.orders : o.id \in ids}
    BY <1>1, <2>1 DEF Chosen
  <2>4. ids \subseteq IdsOf(targets'[p])
    BY <2>1, <2>3 DEF IdsOf, Map!Ids
  <2> QED
    BY <1>6, <2>1, <2>2, <2>3, <2>4 DEF CancelerOK, StillOpen, IdsOf
<1>9. CASE Cleared(p)
  <2>1. /\ pc'[p] = "done" /\ pc[p] = "wait" /\ UNCHANGED <<orders, targets, request>> /\ Clear(p)
    BY <1>1, <1>9 DEF Cleared, Goto, bookVars, cancelVars
  <2>2. ~setting.queryFails => StillOpen(p) = {}
    <3>1. CASE request[p].all
      BY <1>4, <2>1, <3>1 DEF Clear, CancelerOK, Map!Ids
    <3>2. CASE ~request[p].all
      <4>1. \A t \in targets[p] : t.id \notin Map!Ids(orders)
        BY <2>1, <3>2 DEF Clear, Map!Exists
      <4> QED
        BY <1>4, <2>1, <4>1 DEF CancelerOK, IdsOf
    <3> QED
      BY <3>1, <3>2
  <2> QED
    BY <1>2, <1>4, <1>6, <2>1, <2>2 DEF CancelerOK, StillOpen
<1>10. CASE NotCleared(p)
  <2>1. pc'[p] = "query" /\ pc[p] = "wait" /\ UNCHANGED <<orders, targets, request>>
    BY <1>1, <1>10 DEF NotCleared, Goto, bookVars, cancelVars
  <2> QED
    BY <1>2, <1>4, <1>6, <2>1 DEF CancelerOK, StillOpen, IdsOf
<1>11. CASE Interrupted(p)
  <2>1. pc'[p] = "unverified" /\ UNCHANGED <<orders, targets, request>>
    BY <1>1, <1>11 DEF Interrupted, Goto, bookVars, cancelVars
  <2> QED
    BY <1>2, <1>4, <1>6, <2>1 DEF CancelerOK, StillOpen
<1>12. CASE QueryOpenOrders(p)
  <2>1. /\ pc'[p] = "verify" /\ pc[p] = "query" /\ UNCHANGED <<orders, request>>
        /\ left'[p] = {t \in targets[p] : IsOpen(t.id)}
        /\ targets'[p] = {t \in targets[p] : ~IsOpen(t.id)}
    BY <1>1, <1>12 DEF QueryOpenOrders, LeftOrders, Goto, bookVars
  <2>2. \A t \in targets[p] : t.id \in ClosedIDs <=> ~IsOpen(t.id)
    BY <1>3 DEF ClosedIDs
  <2>3. IdsOf(targets'[p]) \subseteq ClosedIDs
    BY <2>1, <2>2 DEF IdsOf
  <2>4. IdsOf(targets[p]) \ ClosedIDs \subseteq IdsOf(left'[p])
    BY <2>1, <2>2 DEF IdsOf
  <2>5. StillOpen(p)' = StillOpen(p) /\ StillOpen(p) \cap ClosedIDs = {}
    BY <1>2, <2>1 DEF StillOpen
  <2>6. IdsOf(targets[p])' = IdsOf(targets'[p]) /\ IdsOf(left[p])' = IdsOf(left'[p])
    BY DEF IdsOf
  <2> QED
    BY <1>2, <1>4, <1>6, <2>1, <2>3, <2>4, <2>5, <2>6 DEF CancelerOK
<1>13. CASE QueryOpenOrdersFails(p)
  <2>1. /\ pc'[p] = "verify" /\ UNCHANGED <<orders, request>> /\ targets'[p] = {}
        /\ setting.queryFails
    BY <1>1, <1>13 DEF QueryOpenOrdersFails, Goto, bookVars
  <2> QED
    BY <1>2, <1>4, <1>6, <2>1 DEF CancelerOK, StillOpen, IdsOf
<1>14. CASE RemoveVerified(p)
  <2>1. PICK t \in targets[p] : /\ pc[p] = "verify" /\ orders' = Map!Remove(orders, t.id)
                                /\ targets' = [targets EXCEPT ![p] = @ \ {t}]
                                /\ UNCHANGED <<pc, left, request>>
    BY <1>14 DEF RemoveVerified
  <2>2. OrdersKept
    BY <1>2, <1>14, RemoveKeeps
  <2>3. Map!Ids(orders)' = Map!Ids(orders') /\ IdsOf(targets[p])' \subseteq IdsOf(targets[p])
        /\ IdsOf(left[p])' = IdsOf(left[p])
    BY <1>1, <2>1 DEF Map!Ids, IdsOf
  <2>4. StillOpen(p)' = StillOpen(p) /\ StillOpen(p) \cap ClosedIDs = {}
    BY <1>2, <2>1 DEF StillOpen
  <2> QED
    BY <1>2, <1>4, <2>1, <2>2, <2>3, <2>4 DEF CancelerOK, OrdersKept
<1>15. CASE TryAgain(p)
  <2>1. pc'[p] = "cancel" /\ pc[p] = "verify" /\ UNCHANGED <<orders, request>> /\ targets'[p] = left[p]
    BY <1>1, <1>15 DEF TryAgain, Goto, bookVars
  <2> QED
    BY <1>2, <1>4, <1>6, <2>1 DEF CancelerOK, StillOpen, IdsOf
<1> QED
  BY <1>7, <1>8, <1>9, <1>10, <1>11, <1>12, <1>13, <1>14, <1>15 DEF Graceful

(* Nobody has called FastCancel. *)
FastIdle == \A p \in FastCancelers : pc[p] \in {"idle", "absent"}

LEMMA NextKeeps ==
    ASSUME FastIdle, FastIdle', BookInv, CancelInv, [Next]_vars
    PROVE  OrdersKept
<1>1. Monotone /\ pc \in [Threads -> Control]
  BY NextBook DEF BookInv, KnownOK
<1>2. CASE UNCHANGED orders
  BY <1>1, <1>2, SameOrders
<1>3. CASE Next /\ orders' # orders
  <2>1. ASSUME NEW p \in Threads, Book(p)  PROVE OrdersKept
    BY <1>1, <2>1, BookKeeps
  <2>2. ASSUME NEW p \in Cancelers, Graceful(p)  PROVE OrdersKept
    BY <1>1, <1>3, <2>2, RemoveKeeps
       DEF Graceful, GracefulCancel, Cleared, NotCleared, Interrupted, QueryOpenOrders,
           QueryOpenOrdersFails, TryAgain, bookVars
  <2>3. ASSUME NEW p \in FastCancelers, Fast(p)  PROVE FALSE
    BY <1>1, <1>3, <2>3 DEF Fast, FastCancel, RemoveFast, FastCancelReturns, FastIdle, bookVars
  <2> QED
    BY <1>3, <2>1, <2>2, <2>3, SyncSteps
       DEF Next, External, Fill, Expire, Age, Place, Submitting, Respond, ResponseLost, Receive, CancelOne,
           CancelReturns, bookVars
<1> QED
  BY <1>2, <1>3 DEF vars, moving, bookVars

LEMMA NextCancels ==
    ASSUME FastIdle, FastIdle', BookInv, CancelInv, [Next]_vars
    PROVE  CancelInv'
<1>1. Monotone
  BY NextBook
<1>2. Cancelers \cap (Orders \cup Streams \cup Syncers) = {} /\ AllCancelers = Cancelers \cup FastCancelers
      /\ Cancelers \subseteq Threads /\ FastCancelers \subseteq Threads /\ pc \in [Threads -> Control]
  BY BookAssumption DEF AllCancelers, Threads, BookInv, KnownOK
<1>3. CASE UNCHANGED vars
  BY <1>1, <1>3, SameOrders, OthersStep DEF vars, moving, bookVars
<1>4. CASE Next
  <2>1. ASSUME NEW o \in placed, Fill(o) \/ Expire(o) \/ Age(o)  PROVE CancelInv'
    BY <1>1, <1>4, <2>1, SameOrders, OthersStep DEF Next, Fill, Expire, Age, bookVars
  <2>2. ASSUME NEW id \in Orders, Place(id) \/ Submitting(id)  PROVE CancelInv'
    BY <1>1, <1>2, <1>4, <2>2, SameOrders, OthersStep
       DEF Next, Place, Submitting, Respond, ResponseLost, Goto, bookVars
  <2>3. ASSUME NEW p \in Streams, Receive(p)  PROVE CancelInv'
    BY <1>1, <1>2, <1>4, <2>3, SameOrders, OthersStep DEF Next, Receive, Goto, bookVars
  <2>4. ASSUME NEW p \in Cancelers, Graceful(p) \/ CancelReturns(p)  PROVE CancelInv'
    <3>1. UNCHANGED placed
      BY <1>2, <1>4, <2>4, CancelingInv DEF Next
    <3> QED
      BY <1>4, <2>4, <3>1, GracefulCancels DEF Next
  <2>5. ASSUME NEW p \in Cancelers, CancelOne(p)  PROVE CancelInv'
    BY <1>1, <1>4, <2>5, SameOrders, OthersStep DEF Next, CancelOne, bookVars
  <2>6. ASSUME NEW p \in Syncers, Recovering(p)  PROVE CancelInv'
    BY <1>1, <1>2, <1>4, <2>6, SyncSteps, SameOrders, OthersStep DEF Next, Goto, bookVars
  <2>7. ASSUME NEW p \in Threads, Book(p)  PROVE CancelInv'
    BY <1>1, <1>4, <2>7, BookStepCancels DEF Next
  <2>8. ASSUME NEW p \in FastCancelers, Fast(p) \/ CancelOne(p) \/ CancelReturns(p)  PROVE FALSE
    BY <1>2, <2>8 DEF Fast, FastCancel, RemoveFast, FastCancelReturns, CancelOne, CancelReturns, Goto, FastIdle
  <2> QED
    BY <1>2, <1>4, <2>1, <2>2, <2>3, <2>4, <2>5, <2>6, <2>7, <2>8 DEF Next, External
<1> QED
  BY <1>3, <1>4

LEMMA InitCancels == Init => CancelInv
<1> SUFFICES ASSUME Init  PROVE CancelInv
  OBVIOUS
<1>1. orders.removal = {}
  BY DEF Init, Map!Empty
<1>2. ASSUME NEW p \in Cancelers  PROVE CancelerOK(p)
  <2>1. setting.held \subseteq Orders /\ p \notin Orders /\ p \in Threads
    BY BookAssumption DEF Init, Setting, Threads, AllCancelers
  <2>2. pc[p] \in {"idle", "absent"} /\ StillOpen(p) = {}
    BY <2>1 DEF Init, StillOpen
  <2> QED
    BY <2>2 DEF CancelerOK
<1> QED
  BY <1>1, <1>2 DEF CancelInv

(* When GracefulCancel returns, none of the orders it was asked to cancel is
   open, whoever else updates, adds and synchronises the orders, and however
   many other calls of GracefulCancel there are: as long as the exchange
   answers its queries and nobody calls FastCancel. *)
THEOREM GracefulCancelIsComplete == FastCancelers = {} => (Spec => []GracefulCancelCloses)
<1> SUFFICES ASSUME FastCancelers = {}  PROVE Spec => []GracefulCancelCloses
  OBVIOUS
<1>1. BookInv /\ CancelInv => GracefulCancelCloses
  BY DEF GracefulCancelCloses, CancelInv, CancelerOK, StillOpen, ClosedIDs
<1>2. Init => BookInv /\ CancelInv
  BY InitBook, InitCancels
<1>3. FastIdle /\ FastIdle'
  BY DEF FastIdle
<1>4. BookInv /\ CancelInv /\ [Next]_vars => (BookInv /\ CancelInv)'
  BY <1>3, NextBook, NextCancels
<1> QED
  BY <1>1, <1>2, <1>4, PTL DEF Spec

-----------------------------------------------------------------------------
(***************************************************************************)
(* Open orders stay in the book                                            *)
(***************************************************************************)
(* Where a SubmitOrders call can be once it has put its order into the book. *)
AfterInsert == {"sweepPending", "sweep", "dropPending", "update", "pend", "pendSweep", "settle", "emit", "done"}

TrackedInv == \A id \in Orders : pc[id] \in AfterInsert /\ id \notin ClosedIDs => Map!Exists(orders, id)

(* A submitter works on its own order; a caller of FastCancel does nothing else. *)
OwnWork ==
    /\ \A id \in Orders : \A o \in arg[id] : o.id = id
    /\ \A p \in FastCancelers : pc[p] \in {"idle", "absent", "cancel", "remove", "unverified"}

(* What Get returns is the record of that order. *)
LEMMA GetFinds ==
    ASSUME NEW m, NEW id, Map!Exists(m, id)
    PROVE  Map!Get(m, id) \in m.orders /\ Map!Get(m, id).id = id
  BY DEF Map!Exists, Map!Get, Map!Ids

LEMMA OwnFrame ==
    ASSUME OwnWork, pc \in [Threads -> Control], arg \in [Threads -> SUBSET Known],
           NEW p \in Threads, NEW l, NEW S, pc' = [pc EXCEPT ![p] = l], arg' = [arg EXCEPT ![p] = S],
           p \in Orders => \A o \in S : o.id = p,
           p \in FastCancelers => l \in {"idle", "absent", "cancel", "remove", "unverified"}
    PROVE  OwnWork'
<1>1. pc'[p] = l /\ arg'[p] = S /\ \A q \in Threads \ {p} : pc'[q] = pc[q] /\ arg'[q] = arg[q]
  OBVIOUS
<1>2. Orders \cup FastCancelers \subseteq Threads
  BY DEF Threads, AllCancelers
<1> QED
  BY <1>1, <1>2 DEF OwnWork

LEMMA NextOwn ==
    ASSUME BookInv, OwnWork, [Next]_vars
    PROVE  OwnWork'
<1>1. pc \in [Threads -> Control] /\ arg \in [Threads -> SUBSET Known]
  BY DEF BookInv, KnownOK
<1>2. Orders \cap (Streams \cup AllCancelers \cup Syncers) = {}
      /\ FastCancelers \cap (Orders \cup Streams \cup Cancelers \cup Syncers) = {}
      /\ Orders \cup Streams \cup AllCancelers \cup Syncers = Threads /\ Cancelers \cup FastCancelers = AllCancelers
  BY BookAssumption DEF Threads, AllCancelers
<1>3. CASE UNCHANGED <<pc, arg>>
  BY <1>3 DEF OwnWork
<1>4. ASSUME NEW p \in Threads, NEW l, Goto(p, l), UNCHANGED arg,
             p \in FastCancelers => l \in {"idle", "absent", "cancel", "remove", "unverified"}
      PROVE  OwnWork'
  <2>1. arg' = [arg EXCEPT ![p] = arg[p]]
    BY <1>1, <1>4
  <2>2. p \in Orders => \A o \in arg[p] : o.id = p
    BY DEF OwnWork
  <2> QED
    BY <1>1, <1>4, <2>1, <2>2, OwnFrame DEF Goto
<1>5. ASSUME NEW id \in Orders, Place(id) \/ Submitting(id)  PROVE OwnWork'
  <2>1. CASE Place(id)
    <3>1. pc' = [pc EXCEPT ![id] = "sent"] /\ arg' = [arg EXCEPT ![id] = {Created(id)}]
      BY <2>1 DEF Place, Goto
    <3>2. Created(id).id = id /\ id \in Threads /\ id \notin FastCancelers
      BY <1>2 DEF Created
    <3> QED
      BY <1>1, <3>1, <3>2, OwnFrame
  <2>2. CASE Submitting(id)
    BY <1>2, <1>4, <2>2 DEF Submitting, Respond, ResponseLost
  <2> QED
    BY <1>5, <2>1, <2>2
<1>6. ASSUME NEW p \in Streams, Receive(p)  PROVE OwnWork'
  BY <1>1, <1>2, <1>6, OwnFrame DEF Receive, Goto
<1>7. ASSUME NEW p \in AllCancelers,
             (p \in Cancelers /\ Graceful(p)) \/ (p \in FastCancelers /\ Fast(p)) \/ CancelReturns(p)
      PROVE  OwnWork'
  <2>1. CASE CancelReturns(p)
    BY <1>2, <1>4, <2>1 DEF CancelReturns
  <2>2. CASE Fast(p)
    BY <1>2, <1>3, <1>4, <2>2 DEF Fast, FastCancel, RemoveFast, FastCancelReturns
  <2>3. CASE p \in Cancelers /\ Graceful(p)
    BY <1>2, <1>3, <1>4, <2>3 DEF Graceful, GracefulCancel, Cleared, NotCleared, Interrupted,
                                 QueryOpenOrders, QueryOpenOrdersFails, RemoveVerified, TryAgain
  <2> QED
    BY <1>7, <2>1, <2>2, <2>3
<1>8. ASSUME NEW p \in Syncers, Recovering(p)  PROVE OwnWork'
  <2>1. ASSUME NEW o, NEW l, arg' = [arg EXCEPT ![p] = {o}], Goto(p, l)  PROVE OwnWork'
    BY <1>1, <1>2, <2>1, OwnFrame DEF Goto
  <2> QED
    BY <1>2, <1>3, <1>4, <1>8, <2>1, SyncSteps
<1>9. ASSUME NEW p \in Threads, Book(p)  PROVE OwnWork'
  <2>1. p \notin FastCancelers
    BY <1>9 DEF Book, UpdateOrder, Pend, PendSweep, SkipUpdate, Refresh, Close, Emit, AddOrder, Insert,
                Sweep, DropPending, OwnWork
  <2>2. CASE Return(p)
    BY <1>1, <2>1, <2>2, OwnFrame DEF Return, Goto
  <2>3. CASE \E l : Goto(p, l) /\ UNCHANGED arg
    BY <1>4, <2>1, <2>3
  <2>4. CASE \E o \in arg[p] : Map!Exists(pending, o.id) /\ arg' = [arg EXCEPT ![p] = {Adopted(o)}]
                               /\ Goto(p, "insertPending")
    <3>1. PICK o \in arg[p] : Map!Exists(pending, o.id) /\ arg' = [arg EXCEPT ![p] = {Adopted(o)}]
                              /\ Goto(p, "insertPending")
      BY <2>4
    <3>2. Adopted(o).id = o.id
      BY <3>1, GetFinds DEF Adopted
    <3>3. p \in Orders => o.id = p
      BY DEF OwnWork
    <3> QED
      BY <1>1, <2>1, <3>1, <3>2, <3>3, OwnFrame DEF Goto
  <2> QED
    BY <1>9, <2>2, <2>3, <2>4
       DEF Book, UpdateOrder, Pend, PendSweep, SkipUpdate, Refresh, Close, Emit, AddOrder, Insert, Sweep,
           DropPending
<1>10. ASSUME NEW o \in placed, Fill(o) \/ Expire(o) \/ Age(o)  PROVE OwnWork'
  BY <1>3, <1>10 DEF Fill, Expire, Age
<1>11. ASSUME NEW p \in AllCancelers, CancelOne(p)  PROVE OwnWork'
  BY <1>3, <1>11 DEF CancelOne
<1>12. CASE Next
  BY <1>2, <1>5, <1>6, <1>7, <1>8, <1>9, <1>10, <1>11, <1>12 DEF Next, External
<1> QED
  BY <1>3, <1>12 DEF vars, moving

(* Only its own steps move a submitter. *)
LEMMA SubmitterMoves ==
    ASSUME BookInv, [Next]_vars, NEW id \in Orders, pc'[id] # pc[id]
    PROVE  Place(id) \/ Submitting(id) \/ Book(id)
<1>1. pc \in [Threads -> Control] /\ id \in Threads /\ id \notin Streams \cup AllCancelers \cup Syncers
      /\ Cancelers \cup FastCancelers = AllCancelers
  BY BookAssumption DEF BookInv, KnownOK, Threads, AllCancelers
<1>2. Next
  BY DEF vars, moving
<1>3. ASSUME NEW q \in Orders, Place(q) \/ Submitting(q), q # id  PROVE FALSE
  BY <1>1, <1>3 DEF Place, Submitting, Respond, ResponseLost, Goto
<1>4. ASSUME NEW q \in Threads, Book(q), q # id  PROVE FALSE
  <2>1. \E l : pc' = [pc EXCEPT ![q] = l]
    BY <1>4 DEF Book, UpdateOrder, Pend, PendSweep, SkipUpdate, Refresh, Close, Emit, AddOrder, Insert,
                Sweep, DropPending, Return, Goto
  <2> QED
    BY <1>1, <1>4, <2>1
<1>5. ASSUME NEW q, q # id, Receive(q) \/ Graceful(q) \/ Fast(q) \/ CancelOne(q) \/ CancelReturns(q)
      PROVE  FALSE
  BY <1>1, <1>5 DEF Receive, Graceful, GracefulCancel, Cleared, NotCleared, Interrupted, QueryOpenOrders,
                    QueryOpenOrdersFails, RemoveVerified, TryAgain, Fast, FastCancel, RemoveFast,
                    FastCancelReturns, CancelOne, CancelReturns, Goto
<1>6. ASSUME NEW o \in placed, Fill(o) \/ Expire(o) \/ Age(o)  PROVE FALSE
  BY <1>6 DEF Fill, Expire, Age
<1>7. ASSUME NEW q \in Syncers, Recovering(q)  PROVE FALSE
  BY <1>1, <1>7, SyncSteps DEF Goto
<1> QED
  BY <1>1, <1>2, <1>3, <1>4, <1>5, <1>6, <1>7 DEF Next, External

LEMMA NextTracked ==
    ASSUME BookInv, OwnWork, TrackedInv, Monotone, OrdersKept, [Next]_vars
    PROVE  TrackedInv'
<1>1. SUFFICES ASSUME NEW id \in Orders, pc'[id] \in AfterInsert, id \notin ClosedIDs'
               PROVE  id \in Map!Ids(orders')
  BY DEF TrackedInv, Map!Exists, Map!Ids
<1>2. CASE pc[id] \in AfterInsert
  BY <1>1, <1>2 DEF TrackedInv, Monotone, OrdersKept, Map!Exists
<1>3. CASE pc[id] \notin AfterInsert
  <2>1. pc \in [Threads -> Control] /\ id \in Threads /\ orders \in KnownMap
        /\ \A o \in arg[id] : o \in Known /\ o.id = id
    BY DEF BookInv, KnownOK, KnownMap, Threads, OwnWork
  <2>2. Place(id) \/ Submitting(id) \/ Book(id)
    BY <1>1, <1>3, SubmitterMoves
  <2>3. Insert(id)
    <3>1. ~Place(id) /\ ~Submitting(id) /\ ~AddOrder(id)
      BY <1>1, <2>1 DEF Place, Submitting, Respond, ResponseLost, AddOrder, Goto, AfterInsert
    <3> QED
      BY <1>3, <2>2, <3>1 DEF Book, UpdateOrder, Pend, PendSweep, SkipUpdate, Refresh, Close, Emit, Sweep,
                              DropPending, AfterInsert
  <2>4. PICK o \in arg[id] : orders' = Map!AddOrder(orders, o)
    BY <2>3 DEF Insert, InsertAny
  <2>5. Map!AddOrder(orders, o).orders = Map!Without(orders, {o.id}) \cup {o}
    BY <2>1 DEF KnownMap, Map!AddOrder
  <2> QED
    BY <2>1, <2>4, <2>5 DEF Map!Ids
<1> QED
  BY <1>2, <1>3

LEMMA InitTracked == Init => OwnWork /\ TrackedInv
<1> SUFFICES ASSUME Init  PROVE OwnWork /\ TrackedInv
  OBVIOUS
<1>1. Orders \cup FastCancelers \subseteq Threads /\ setting.held \subseteq Orders /\ Orders \cap FastCancelers = {}
  BY BookAssumption DEF Init, Setting, Threads, AllCancelers
<1>2. OwnWork
  BY <1>1 DEF Init, OwnWork
<1>3. ASSUME NEW id \in Orders, pc[id] \in AfterInsert  PROVE Map!Exists(orders, id)
  <2>1. id \in setting.held
    BY <1>1, <1>3 DEF Init, AfterInsert
  <2>2. Created(id) \in orders.orders /\ Created(id).id = id
    BY <2>1 DEF Init, Map!Empty, Created
  <2> QED
    BY <2>2 DEF Map!Exists, Map!Ids
<1> QED
  BY <1>2, <1>3 DEF TrackedInv

(* FastCancel is called once: who has called it does not go back. *)
LEMMA FastGone ==
    ASSUME BookInv, [Next]_vars, NEW p \in FastCancelers, pc[p] \in {"cancel", "remove", "unverified"}
    PROVE  pc'[p] \notin {"idle", "absent"}
<1>1. pc \in [Threads -> Control] /\ p \in Threads /\ p \notin Orders \cup Streams \cup Syncers \cup Cancelers
      /\ Cancelers \cup FastCancelers = AllCancelers
  BY BookAssumption DEF BookInv, KnownOK, Threads, AllCancelers
<1>2. CASE UNCHANGED pc
  BY <1>2
<1>3. CASE Next
  <2>1. ASSUME NEW q \in Orders, Place(q) \/ Submitting(q)  PROVE pc'[p] = pc[p]
    BY <1>1, <2>1 DEF Place, Submitting, Respond, ResponseLost, Goto
  <2>2. ASSUME NEW q \in Streams, Receive(q)  PROVE pc'[p] = pc[p]
    BY <1>1, <2>2 DEF Receive, Goto
  <2>3. ASSUME NEW q \in Cancelers, Graceful(q)  PROVE pc'[p] = pc[p]
    BY <1>1, <2>3 DEF Graceful, GracefulCancel, Cleared, NotCleared, Interrupted, QueryOpenOrders,
                      QueryOpenOrdersFails, RemoveVerified, TryAgain, Goto
  <2>4. ASSUME NEW q, Fast(q) \/ CancelReturns(q)  PROVE pc'[p] \notin {"idle", "absent"}
    BY <1>1, <2>4 DEF Fast, FastCancel, RemoveFast, FastCancelReturns, CancelReturns, Goto
  <2>5. ASSUME NEW q \in Syncers, Recovering(q)  PROVE pc'[p] = pc[p]
    BY <1>1, <2>5, SyncSteps DEF Goto
  <2>6. ASSUME NEW q \in Threads, Book(q)  PROVE pc'[p] = pc[p]
    <3>1. /\ \E l : pc' = [pc EXCEPT ![q] = l]
          /\ pc[q] \notin {"cancel", "remove", "unverified"}
      BY <2>6 DEF Book, UpdateOrder, Pend, PendSweep, SkipUpdate, Refresh, Close, Emit, AddOrder, Insert,
                  Sweep, DropPending, Return, Goto
    <3> QED
      BY <1>1, <3>1
  <2>7. ASSUME NEW o \in placed, Fill(o) \/ Expire(o) \/ Age(o)  PROVE pc'[p] = pc[p]
    BY <2>7 DEF Fill, Expire, Age
  <2>8. ASSUME NEW q, CancelOne(q)  PROVE pc'[p] = pc[p]
    BY <2>8 DEF CancelOne
  <2> QED
    BY <1>3, <2>1, <2>2, <2>3, <2>4, <2>5, <2>6, <2>7, <2>8 DEF Next, External
<1> QED
  BY <1>2, <1>3 DEF vars, moving

LEMMA FastStays ==
    ASSUME BookInv, OwnWork, [Next]_vars, FastIdle'
    PROVE  FastIdle
<1>1. SUFFICES ASSUME NEW p \in FastCancelers, pc[p] \notin {"idle", "absent"}  PROVE FALSE
  BY DEF FastIdle
<1>2. pc'[p] \in {"idle", "absent"} /\ pc[p] \in {"cancel", "remove", "unverified"}
  BY <1>1 DEF FastIdle, OwnWork
<1> QED
  BY <1>1, <1>2, FastGone

(* Every order whose creation response reached add stays active as long as it is
   open at the exchange, whoever else updates, cancels and synchronises: only a
   call of FastCancel takes it out. *)
THEOREM OpenOrdersTrackedInvariant == Spec => []OpenOrdersTracked
<1> DEFINE Inv == BookInv /\ OwnWork /\ (FastIdle => CancelInv /\ TrackedInv)
<1>1. Inv => OpenOrdersTracked
  <2> SUFFICES ASSUME Inv, FastIdle, NEW id \in Orders, pc[id] = "done", IsOpen(id)
               PROVE  Map!Exists(orders, id)
    BY DEF OpenOrdersTracked, FastIdle
  <2> QED
    BY DEF TrackedInv, AfterInsert, ClosedIDs
<1>2. Init => Inv
  BY InitBook, InitCancels, InitTracked
<1>3. Inv /\ [Next]_vars => Inv'
  <2> SUFFICES ASSUME Inv, [Next]_vars  PROVE Inv'
    OBVIOUS
  <2>1. BookInv' /\ Monotone /\ OwnWork'
    BY NextBook, NextOwn
  <2>2. ASSUME FastIdle'  PROVE FastIdle
    BY <2>2, FastStays
  <2>3. ASSUME FastIdle'  PROVE CancelInv' /\ TrackedInv'
    BY <2>1, <2>2, <2>3, NextCancels, NextKeeps, NextTracked
  <2> QED
    BY <2>1, <2>3
<1> QED
  BY <1>1, <1>2, <1>3, PTL DEF Spec

-----------------------------------------------------------------------------
(***************************************************************************)
(* ActiveOrderBook implements OrderEvents, where nobody runs               *)
(* syncActiveOrders.  What makes it so: a goroutine gets to announce an    *)
(* order only while the order is in the book, under b.mu; it takes it out  *)
(* before it announces; and the one SubmitOrders call that could put it    *)
(* back has been there already.                                            *)
(***************************************************************************)
(* Inside the part of Update that b.mu protects. *)
Locking == {"pend", "pendSweep", "settle"}

(* A SubmitOrders call that has not put its order into the book; one that may
   still be working on it. *)
Ahead == {"idle", "sent", "add", "insertPending", "insert"}

Adding == {"sent", "add", "insertPending", "insert", "sweepPending", "sweep", "dropPending"}

(* Where each goroutine is: one at a time inside the mutex, with one order, a
   submitter with its own; and nobody else adds. *)
ControlInv ==
    \A p \in Threads :
        /\ pc[p] \in Locking => mu = {p}
        /\ pc[p] \in Adding => p \in Orders
        /\ \A o, q \in arg[p] : o = q
        /\ p \in Orders => \A o \in arg[p] : o.id = p

Past(id) == pc[id] \notin Ahead

Working(l, id) == {p \in Threads : pc[p] = l /\ \E o \in arg[p] : o.id = id}

Announced(id) == filled[id] + canceled[id] > 0 \/ Working("emit", id) # {}

(* An order in the book, or about to be settled, was put there by the call that
   submitted it; an order that was announced, or is about to be, is neither, and
   never comes back. *)
OnceInBook(id) ==
    /\ id \in Map!Ids(orders) \/ Working("settle", id) # {} \/ Announced(id) => Past(id)
    /\ Announced(id) => id \notin Map!Ids(orders) /\ Working("settle", id) = {}

(* One announcement per order, of what the exchange says of it. *)
OneAnnouncement(id) ==
    /\ \A p, q \in Working("emit", id) : p = q
    /\ Working("emit", id) # {} => filled[id] = 0 /\ canceled[id] = 0
    /\ filled[id] + canceled[id] <= 1
    /\ filled[id] = 1 => HasStatus(id, "Filled")
    /\ canceled[id] = 1 => HasStatus(id, "Canceled")

TrueAnnouncement ==
    \A p \in Threads : pc[p] = "emit" => \A o \in arg[p] : o.status \in {"Filled", "Canceled"}

EventInv ==
    /\ ControlInv
    /\ \A id \in Orders : OnceInBook(id) /\ OneAnnouncement(id)
    /\ TrueAnnouncement

-----------------------------------------------------------------------------
(***************************************************************************)
(* Where the goroutines are                                                *)
(***************************************************************************)
Types ==
    /\ pc \in [Threads -> Control]
    /\ arg \in [Threads -> SUBSET Known]
    /\ orders \in KnownMap
    /\ pending \in KnownMap
    /\ placed \subseteq Order
    /\ filled \in [Orders -> Nat]
    /\ canceled \in [Orders -> Nat]

LEMMA BookTypes == BookInv => Types
  BY DEF BookInv, KnownOK, Types, KnownMap

(* A step of goroutine p to l with the records of S in hand. *)
Moves(p, l, S) == pc' = [pc EXCEPT ![p] = l] /\ arg' = [arg EXCEPT ![p] = S]

LEMMA ControlStep ==
    ASSUME ControlInv, Types, NEW p \in Threads, NEW l, NEW S, Moves(p, l, S),
           UNCHANGED mu \/ mu = {} \/ mu = {p},
           l \in Locking => mu' = {p},
           l \in Adding => p \in Orders,
           \A o, q \in S : o = q,
           p \in Orders => \A o \in S : o.id = p
    PROVE  ControlInv'
<1>1. /\ pc'[p] = l /\ arg'[p] = S
      /\ \A q \in Threads \ {p} : pc'[q] = pc[q] /\ arg'[q] = arg[q]
  BY DEF Moves, Types
<1>2. SUFFICES ASSUME NEW q \in Threads
               PROVE  /\ pc'[q] \in Locking => mu' = {q}
                      /\ pc'[q] \in Adding => q \in Orders
                      /\ \A o, r \in arg'[q] : o = r
                      /\ q \in Orders => \A o \in arg'[q] : o.id = q
  BY DEF ControlInv
<1>3. CASE q = p
  BY <1>1, <1>3
<1>4. CASE q # p
  <2>1. pc[q] \in Locking => mu = {q}
    BY DEF ControlInv
  <2>2. pc[q] \in Locking => mu' = {q}
    BY <1>4, <2>1
  <2> QED
    BY <1>1, <1>4, <2>2 DEF ControlInv
<1> QED
  BY <1>3, <1>4

(* A goroutine keeps what it holds, or lets go of it. *)
LEMMA ControlMove ==
    ASSUME ControlInv, Types, NEW p \in Threads, NEW l, NEW S, S = {} \/ S = arg[p], Moves(p, l, S),
           UNCHANGED mu \/ mu = {} \/ mu = {p},
           l \in Locking => mu' = {p},
           l \in Adding => p \in Orders
    PROVE  ControlInv'
<1>1. (\A o, q \in S : o = q) /\ (p \in Orders => \A o \in S : o.id = p)
  BY DEF ControlInv
<1> QED
  BY <1>1, ControlStep

LEMMA ReturnMoves ==
    ASSUME NEW p, Return(p)
    PROVE  /\ Moves(p, Resume(p), {}) /\ Resume(p) \notin Locking \cup Adding \cup {"emit"}
           /\ p \in Orders => Resume(p) \notin Ahead
  BY DEF Return, Goto, Moves, Resume, Locking, Adding, Ahead

LEMMA GotoMoves ==
    ASSUME Types, NEW p \in Threads, NEW l, Goto(p, l), UNCHANGED arg
    PROVE  Moves(p, l, arg[p])
  BY DEF Types, Goto, Moves

LEMMA StaysMoves ==
    ASSUME Types, NEW p \in Threads, UNCHANGED <<pc, arg>>
    PROVE  Moves(p, pc[p], arg[p])
  BY DEF Types, Moves

LEMMA BookControl ==
    ASSUME ControlInv, Types, NEW p \in Threads, Book(p)
    PROVE  ControlInv'
<1> USE DEF bookVars
<1>1. CASE UpdateOrder(p)
  <2>1. PICK l \in {"settle", "pend"} : Goto(p, l) /\ UNCHANGED arg /\ mu' = {p} /\ mu = {}
    BY <1>1 DEF UpdateOrder
  <2> QED
    BY <2>1, GotoMoves, ControlMove DEF Adding
<1>2. CASE Pend(p)
  <2>1. Goto(p, "pendSweep") /\ UNCHANGED <<arg, mu>> /\ mu = {p}
    BY <1>2 DEF Pend, ControlInv, Locking
  <2> QED
    BY <2>1, GotoMoves, ControlMove DEF Adding
<1>3. CASE PendSweep(p) \/ SkipUpdate(p) \/ Refresh(p)
  <2>1. Return(p) /\ mu = {p}
    BY <1>3 DEF PendSweep, SkipUpdate, Refresh, ControlInv, Locking
  <2> QED
    BY <2>1, ReturnMoves, ControlMove
<1>4. CASE Close(p)
  <2>1. (Return(p) \/ (Goto(p, "emit") /\ UNCHANGED arg)) /\ mu = {p}
    BY <1>4 DEF Close, ControlInv, Locking
  <2> QED
    BY <2>1, ReturnMoves, GotoMoves, ControlMove DEF Adding, Locking
<1>5. CASE Emit(p)
  <2>1. Return(p) /\ UNCHANGED mu
    BY <1>5 DEF Emit
  <2> QED
    BY <2>1, ReturnMoves, ControlMove
<1>6. CASE AddOrder(p)
  <2>1. p \in Orders /\ UNCHANGED mu
    BY <1>6 DEF AddOrder, ControlInv, Adding
  <2>2. CASE Goto(p, "insert") /\ UNCHANGED arg
    BY <2>1, <2>2, GotoMoves, ControlMove DEF Locking
  <2>3. CASE ~(Goto(p, "insert") /\ UNCHANGED arg)
    <3>1. PICK o \in arg[p] : Map!Exists(pending, o.id) /\ Moves(p, "insertPending", {Adopted(o)})
      BY <1>6, <2>3 DEF AddOrder, Goto, Moves
    <3>2. o.id = p /\ Adopted(o).id = o.id
      BY <2>1, <3>1, GetFinds DEF ControlInv, Adopted
    <3> QED
      BY <2>1, <3>1, <3>2, ControlStep DEF Locking
  <2> QED
    BY <2>2, <2>3
<1>7. CASE Insert(p)
  <2>1. PICK l \in {"sweepPending", "sweep"} : Goto(p, l) /\ UNCHANGED <<arg, mu>>
    BY <1>7 DEF Insert
  <2>2. p \in Orders
    BY <1>7 DEF Insert, ControlInv, Adding
  <2> QED
    BY <2>1, <2>2, GotoMoves, ControlMove DEF Locking
<1>8. CASE Sweep(p)
  <2>1. (Return(p) \/ (Goto(p, "dropPending") /\ UNCHANGED arg)) /\ UNCHANGED mu
    BY <1>8 DEF Sweep
  <2>2. p \in Orders
    BY <1>8 DEF Sweep, ControlInv, Adding
  <2> QED
    BY <2>1, <2>2, ReturnMoves, GotoMoves, ControlMove DEF Locking
<1>9. CASE DropPending(p)
  <2>1. (Return(p) \/ (Goto(p, "update") /\ UNCHANGED arg)) /\ UNCHANGED mu
    BY <1>9 DEF DropPending
  <2> QED
    BY <2>1, ReturnMoves, GotoMoves, ControlMove DEF Locking, Adding
<1> QED
  BY <1>1, <1>2, <1>3, <1>4, <1>5, <1>6, <1>7, <1>8, <1>9 DEF Book

-----------------------------------------------------------------------------
(***************************************************************************)
(* What is announced                                                       *)
(***************************************************************************)
(* Goroutine p moves on: the others work on what they worked on. *)
LEMMA WorkingMoves ==
    ASSUME Types, NEW p \in Threads, NEW l, NEW S, Moves(p, l, S), NEW k, NEW id
    PROVE  /\ Working(k, id)' \ {p} = Working(k, id) \ {p}
           /\ p \in Working(k, id)' <=> l = k /\ \E o \in S : o.id = id
           /\ pc'[p] = l /\ arg'[p] = S
           /\ id \in Orders /\ id # p => (Past(id)' <=> Past(id))
           /\ \A q \in Threads \ {p} : pc'[q] = pc[q] /\ arg'[q] = arg[q]
<1>1. /\ pc'[p] = l /\ arg'[p] = S
      /\ \A q \in Threads \ {p} : pc'[q] = pc[q] /\ arg'[q] = arg[q]
  BY DEF Moves, Types
<1>2. id \in Orders => id \in Threads
  BY DEF Threads
<1> QED
  BY <1>1, <1>2 DEF Working, Past

(* What the exchange has said stays said. *)
StaysSaid ==
    \A id \in Orders : \A status \in {"Filled", "Canceled"} : HasStatus(id, status) => HasStatus(id, status)'

LEMMA MonotoneSays == Monotone => StaysSaid
  BY DEF Monotone, StaysSaid, HasStatus, Open

(* An order nobody begins to settle or to announce, and nobody announces. *)
LEMMA OrderFrame ==
    ASSUME StaysSaid, NEW id \in Orders, OnceInBook(id), OneAnnouncement(id),
           Past(id) => Past(id)',
           id \in Map!Ids(orders') => id \in Map!Ids(orders),
           Working("settle", id)' \subseteq Working("settle", id),
           Working("emit", id)' = Working("emit", id),
           filled'[id] = filled[id], canceled'[id] = canceled[id]
    PROVE  OnceInBook(id)' /\ OneAnnouncement(id)'
<1>1. Announced(id)' <=> Announced(id)
  BY DEF Announced
<1>2. Map!Ids(orders)' = Map!Ids(orders')
  BY DEF Map!Ids
<1>3. OnceInBook(id)'
  BY <1>1, <1>2 DEF OnceInBook
<1>4. OneAnnouncement(id)'
  BY DEF OneAnnouncement, StaysSaid
<1> QED
  BY <1>3, <1>4

LEMMA QuietStep ==
    ASSUME EventInv, Types, StaysSaid, ControlInv', NEW p \in Threads, NEW l, NEW S, Moves(p, l, S),
           \/ l \notin {"settle", "emit"} /\ pc[p] # "emit"
           \/ l = pc[p] /\ S = arg[p],
           p \in Orders /\ pc[p] \notin Ahead => l \notin Ahead,
           Map!Ids(orders') \subseteq Map!Ids(orders), UNCHANGED history
    PROVE  EventInv'
<1>1. ASSUME NEW id \in Orders  PROVE OnceInBook(id)' /\ OneAnnouncement(id)'
  <2>1. Past(id) => Past(id)'
    BY WorkingMoves DEF Past
  <2>2. Working("settle", id)' \subseteq Working("settle", id)
    BY WorkingMoves DEF Working
  <2>3. Working("emit", id)' = Working("emit", id)
    BY WorkingMoves DEF Working
  <2> QED
    BY <2>1, <2>2, <2>3, OrderFrame DEF EventInv, history
<1>2. TrueAnnouncement'
  BY WorkingMoves DEF EventInv, TrueAnnouncement
<1> QED
  BY <1>1, <1>2 DEF EventInv

LEMMA ReturnQuiet ==
    ASSUME EventInv, Types, StaysSaid, ControlInv', NEW p \in Threads, Return(p), pc[p] # "emit",
           Map!Ids(orders') \subseteq Map!Ids(orders), UNCHANGED history
    PROVE  EventInv'
<1>1. Resume(p) \notin {"settle", "emit"}
  BY ReturnMoves DEF Locking
<1> QED
  BY <1>1, ReturnMoves, QuietStep

LEMMA StillStep ==
    ASSUME EventInv, Types, StaysSaid, UNCHANGED <<pc, arg, mu, orders, history>>
    PROVE  EventInv'
<1>1. ControlInv' /\ TrueAnnouncement'
  BY DEF EventInv, ControlInv, TrueAnnouncement
<1>2. \A id \in Orders : Past(id)' = Past(id) /\ \A k : Working(k, id)' = Working(k, id)
  BY DEF Past, Working
<1>3. ASSUME NEW id \in Orders  PROVE OnceInBook(id)' /\ OneAnnouncement(id)'
  BY <1>2, OrderFrame DEF EventInv, history
<1> QED
  BY <1>1, <1>3 DEF EventInv

(* Which orders the operations on the map leave in it. *)
LEMMA MapIds ==
    ASSUME NEW m \in KnownMap
    PROVE  /\ \A o \in Known : /\ Map!Ids(Map!AddOrder(m, o)) = Map!Ids(m) \cup {o.id}
                               /\ Map!Ids(Map!Update(m, o)) = Map!Ids(m)
           /\ \A id : Map!Ids(Map!Remove(m, id)) = Map!Ids(m) \ {id}
           /\ \A expired : Map!Ids(Map!ProcessPendingRemoval(m, expired)) \subseteq Map!Ids(m)
<1>1. ASSUME NEW o \in Known  PROVE Map!Ids(Map!AddOrder(m, o)) = Map!Ids(m) \cup {o.id}
  <2>1. Map!AddOrder(m, o).orders = Map!Without(m, {o.id}) \cup {o}
    BY DEF KnownMap, Map!AddOrder
  <2> QED
    BY <2>1 DEF Map!Without, Map!Ids
<1>2. ASSUME NEW o \in Known  PROVE Map!Ids(Map!Update(m, o)) = Map!Ids(m)
  BY <1>1 DEF Map!Update, Map!Exists
<1>3. ASSUME NEW id  PROVE Map!Ids(Map!Remove(m, id)) = Map!Ids(m) \ {id}
  <2>1. CASE Map!Exists(m, id)
    <3>1. Map!Remove(m, id).orders = Map!Without(m, {id})
      BY <2>1 DEF KnownMap, Map!Remove
    <3> QED
      BY <3>1 DEF Map!Without, Map!Ids
  <2>2. CASE ~Map!Exists(m, id)
    <3>1. Map!Remove(m, id).orders = m.orders
      BY <2>2 DEF KnownMap, Map!Remove
    <3> QED
      BY <2>2, <3>1 DEF Map!Exists, Map!Ids
  <2> QED
    BY <2>1, <2>2
<1>4. ASSUME NEW expired  PROVE Map!Ids(Map!ProcessPendingRemoval(m, expired)) \subseteq Map!Ids(m)
  BY DEF Map!ProcessPendingRemoval, Map!Without, Map!Ids
<1> QED
  BY <1>1, <1>2, <1>3, <1>4

(* A goroutine begins to settle an order: it is in the book. *)
LEMMA UpdateEvents ==
    ASSUME EventInv, Types, ControlInv', StaysSaid, NEW p \in Threads, UpdateOrder(p)
    PROVE  EventInv'
<1>1. PICK o \in arg[p] : /\ pc[p] = "update"
                          /\ Goto(p, IF Map!Exists(orders, o.id) THEN "settle" ELSE "pend")
                          /\ UNCHANGED <<orders, arg, history>>
  BY DEF UpdateOrder
<1>2. CASE ~Map!Exists(orders, o.id)
  BY <1>1, <1>2, GotoMoves, QuietStep DEF Ahead
<1>3. CASE Map!Exists(orders, o.id)
  <2>1. Moves(p, "settle", arg[p])
    BY <1>1, <1>3, GotoMoves
  <2>2. \A q \in arg[p] : q = o
    BY DEF EventInv, ControlInv
  <2>3. ASSUME NEW id \in Orders  PROVE OnceInBook(id)' /\ OneAnnouncement(id)'
    <3>1. Past(id) => Past(id)'
      BY <1>1, <2>1, WorkingMoves DEF Past, Ahead
    <3>2. Working("emit", id)' = Working("emit", id)
      BY <1>1, <2>1, WorkingMoves DEF Working
    <3>3. CASE id # o.id
      <4>1. Working("settle", id)' \subseteq Working("settle", id)
        BY <1>1, <2>1, <2>2, <3>3, WorkingMoves DEF Working
      <4> QED
        BY <1>1, <3>1, <3>2, <4>1, OrderFrame DEF EventInv, history
    <3>4. CASE id = o.id
      <4>1. Past(id) /\ ~Announced(id)
        BY <1>3, <3>4 DEF EventInv, OnceInBook, Map!Exists
      <4>2. ~Announced(id)'
        BY <1>1, <3>2, <4>1 DEF Announced, history
      <4> QED
        BY <1>1, <3>1, <3>2, <4>1, <4>2 DEF EventInv, OnceInBook, OneAnnouncement, Announced, history,
                                             StaysSaid
    <3> QED
      BY <3>3, <3>4
  <2>4. TrueAnnouncement'
    BY <2>1, WorkingMoves DEF EventInv, TrueAnnouncement
  <2> QED
    BY <2>3, <2>4 DEF EventInv
<1> QED
  BY <1>2, <1>3

(* A submitter puts its order in the book, where it was not: it has not been
   announced. *)
LEMMA InsertEvents ==
    ASSUME EventInv, Types, ControlInv', StaysSaid, NEW p \in Threads, Insert(p)
    PROVE  EventInv'
<1>1. PICK o \in arg[p], l \in {"sweepPending", "sweep"} :
          pc[p] \in {"insertPending", "insert"} /\ Moves(p, l, arg[p])
          /\ orders' = Map!AddOrder(orders, o) /\ UNCHANGED history
  BY GotoMoves DEF Insert, InsertAny
<1>2. p \in Orders /\ o.id = p /\ o \in Known
  BY <1>1 DEF EventInv, ControlInv, Adding, Types
<1>3. Map!Ids(orders') = Map!Ids(orders) \cup {p}
  BY <1>1, <1>2, MapIds DEF Types
<1>4. ASSUME NEW id \in Orders  PROVE OnceInBook(id)' /\ OneAnnouncement(id)'
  <2>1. Past(id) => Past(id)'
    BY <1>1, WorkingMoves DEF Past, Ahead
  <2>2. Working("emit", id)' = Working("emit", id) /\ Working("settle", id)' = Working("settle", id)
    BY <1>1, WorkingMoves DEF Working
  <2>3. CASE id # p
    BY <1>1, <1>3, <2>1, <2>2, <2>3, OrderFrame DEF EventInv, history
  <2>4. CASE id = p
    <3>1. ~Announced(id) /\ Working("emit", id) = {} /\ filled[id] + canceled[id] <= 0
      BY <1>1, <2>4 DEF EventInv, OnceInBook, Past, Ahead, Announced, Types
    <3>2. Past(id)' /\ ~Announced(id)'
      BY <1>1, <2>2, <2>4, <3>1, WorkingMoves DEF Past, Ahead, Announced, history
    <3> QED
      BY <1>1, <2>2, <3>1, <3>2 DEF EventInv, OnceInBook, OneAnnouncement, history, StaysSaid
  <2> QED
    BY <2>3, <2>4
<1>5. TrueAnnouncement'
  BY <1>1, WorkingMoves DEF EventInv, TrueAnnouncement
<1> QED
  BY <1>4, <1>5 DEF EventInv

(* A goroutine takes a closed order out of the book, and is then alone with it. *)
LEMMA CloseEvents ==
    ASSUME EventInv, Types, ControlInv', StaysSaid, NEW p \in Threads, Close(p)
    PROVE  EventInv'
<1>1. PICK o \in arg[p] : /\ pc[p] = "settle" /\ o.status \notin Open
                          /\ orders' = Map!Remove(orders, o.id)
                          /\ IF Announces(o) THEN Goto(p, "emit") /\ UNCHANGED arg ELSE Return(p)
                          /\ UNCHANGED history
  BY DEF Close, RemoveClosed
<1>2. Map!Ids(orders') = Map!Ids(orders) \ {o.id}
  BY <1>1, MapIds DEF Types
<1>3. CASE ~Announces(o)
  <2>1. Return(p)
    BY <1>1, <1>3
  <2> QED
    BY <1>1, <1>2, <2>1, ReturnQuiet
<1>4. CASE Announces(o)
  <2>1. Moves(p, "emit", arg[p])
    BY <1>1, <1>4, GotoMoves
  <2>2. \A q \in arg[p] : q = o
    BY DEF EventInv, ControlInv
  <2>3. \A q \in Threads : pc[q] = "settle" => q = p
    BY <1>1 DEF EventInv, ControlInv, Locking
  <2>4. ASSUME NEW id \in Orders  PROVE OnceInBook(id)' /\ OneAnnouncement(id)'
    <3>1. Past(id) => Past(id)'
      BY <1>1, <2>1, WorkingMoves DEF Past, Ahead
    <3>2. Working("settle", id)' = {}
      BY <2>1, <2>3, WorkingMoves DEF Working
    <3>3. CASE id # o.id
      <4>1. Working("emit", id)' = Working("emit", id)
        BY <1>1, <2>1, <2>2, <3>3, WorkingMoves DEF Working
      <4> QED
        BY <1>1, <1>2, <3>1, <3>2, <3>3, <4>1, OrderFrame DEF EventInv, history
    <3>4. CASE id = o.id
      <4>1. p \in Working("settle", id)
        BY <1>1, <3>4 DEF Working
      <4>2. Past(id) /\ ~Announced(id)
        BY <4>1 DEF EventInv, OnceInBook
      <4>3. Working("emit", id) = {} /\ filled[id] = 0 /\ canceled[id] = 0
        BY <4>2 DEF Announced, Types
      <4>4. Working("emit", id)' \subseteq {p} /\ filled'[id] = 0 /\ canceled'[id] = 0
        BY <1>1, <2>1, <4>3, WorkingMoves DEF history
      <4>5. id \notin Map!Ids(orders)'
        BY <1>2, <3>4 DEF Map!Ids
      <4> QED
        BY <3>1, <3>2, <4>2, <4>4, <4>5 DEF OnceInBook, OneAnnouncement
    <3> QED
      BY <3>3, <3>4
  <2>5. o.status \in {"Filled", "Canceled"}
    BY <1>4 DEF Announces
  <2>6. TrueAnnouncement'
    BY <2>1, <2>2, <2>5, WorkingMoves DEF EventInv, TrueAnnouncement
  <2> QED
    BY <2>4, <2>6 DEF EventInv
<1> QED
  BY <1>3, <1>4

(* The announcement: the first one of the order, and true. *)
LEMMA EmitOnce ==
    ASSUME EventInv, Types, NEW p \in Threads, NEW o \in arg[p], pc[p] = "emit"
    PROVE  /\ o \in placed /\ o.id \in Orders /\ o.status \in {"Filled", "Canceled"}
           /\ HasStatus(o.id, o.status)
           /\ filled[o.id] = 0 /\ canceled[o.id] = 0
           /\ Working("emit", o.id) = {p}
<1>1. o.status \in {"Filled", "Canceled"} /\ o \in Known
  BY DEF EventInv, TrueAnnouncement, Types
<1>2. o \in placed /\ o.id \in Orders
  BY <1>1 DEF Known, Open, Order
<1>3. p \in Working("emit", o.id)
  BY DEF Working
<1> QED
  BY <1>1, <1>2, <1>3 DEF EventInv, OneAnnouncement, HasStatus

LEMMA EmitEvents ==
    ASSUME EventInv, Types, ControlInv', StaysSaid, NEW p \in Threads, Emit(p)
    PROVE  EventInv'
<1>1. PICK o \in arg[p] :
          /\ pc[p] = "emit"
          /\ IF o.status = "Filled"
             THEN filled' = [filled EXCEPT ![o.id] = @ + 1] /\ canceled' = canceled
             ELSE canceled' = [canceled EXCEPT ![o.id] = @ + 1] /\ filled' = filled
          /\ Return(p)
          /\ UNCHANGED <<placed, orders>>
  BY DEF Emit, exchangeVars, bookVars
<1>2. /\ o.id \in Orders /\ o.status \in {"Filled", "Canceled"} /\ HasStatus(o.id, o.status)
      /\ filled[o.id] = 0 /\ canceled[o.id] = 0 /\ Working("emit", o.id) = {p}
  BY <1>1, EmitOnce
<1>3. Moves(p, Resume(p), {}) /\ Resume(p) \notin {"settle", "emit"}
      /\ (p \in Orders => Resume(p) \notin Ahead)
  BY <1>1, ReturnMoves DEF Locking
<1>4. \A q \in arg[p] : q = o
  BY DEF EventInv, ControlInv
<1>5. Map!Ids(orders)' = Map!Ids(orders)
  BY <1>1 DEF Map!Ids
<1>6. ASSUME NEW id \in Orders  PROVE OnceInBook(id)' /\ OneAnnouncement(id)'
  <2>1. Past(id) => Past(id)'
    BY <1>3, WorkingMoves DEF Past
  <2>2. Working("settle", id)' = Working("settle", id)
    BY <1>1, <1>3, WorkingMoves DEF Working
  <2>3. CASE id # o.id
    <3>1. Working("emit", id)' = Working("emit", id)
      BY <1>3, <1>4, <2>3, WorkingMoves DEF Working
    <3>2. filled'[id] = filled[id] /\ canceled'[id] = canceled[id]
      BY <1>1, <2>3 DEF Types
    <3> QED
      BY <1>1, <2>1, <2>2, <3>1, <3>2, OrderFrame DEF EventInv
  <2>4. CASE id = o.id
    <3>1. Working("emit", id)' = {}
      BY <1>2, <1>3, <2>4, WorkingMoves DEF Working
    <3>2. Announced(id)
      BY <1>2, <2>4 DEF Announced
    <3>3. Past(id)' /\ id \notin Map!Ids(orders)' /\ Working("settle", id)' = {}
      BY <1>5, <2>1, <2>2, <3>2 DEF EventInv, OnceInBook
    <3>4. IF o.status = "Filled" THEN filled'[id] = 1 /\ canceled'[id] = 0
                                 ELSE canceled'[id] = 1 /\ filled'[id] = 0
      BY <1>1, <1>2, <2>4 DEF Types
    <3>5. HasStatus(id, o.status)'
      BY <1>1, <1>2, <2>4 DEF HasStatus
    <3> QED
      BY <1>2, <3>1, <3>3, <3>4, <3>5 DEF OnceInBook, OneAnnouncement
  <2> QED
    BY <2>3, <2>4
<1>7. TrueAnnouncement'
  BY <1>3, WorkingMoves DEF EventInv, TrueAnnouncement
<1> QED
  BY <1>6, <1>7 DEF EventInv

LEMMA BookEvents ==
    ASSUME EventInv, Types, StaysSaid, NEW p \in Threads, Book(p)
    PROVE  EventInv'
<1>1. ControlInv'
  BY BookControl DEF EventInv
<1>2. CASE UpdateOrder(p) \/ Insert(p) \/ Close(p) \/ Emit(p)
  BY <1>1, <1>2, UpdateEvents, InsertEvents, CloseEvents, EmitEvents
<1>3. CASE Pend(p)
  BY <1>1, <1>3, GotoMoves, QuietStep DEF Pend, Ahead
<1>4. CASE PendSweep(p) \/ SkipUpdate(p)
  BY <1>1, <1>4, ReturnQuiet DEF PendSweep, SkipUpdate
<1>5. CASE Refresh(p)
  <2>1. Map!Ids(orders') \subseteq Map!Ids(orders)
    BY <1>5, MapIds DEF Refresh, Types
  <2> QED
    BY <1>1, <1>5, <2>1, ReturnQuiet DEF Refresh
<1>6. CASE AddOrder(p)
  <2>1. \E l \in {"insert", "insertPending"} : \E S : Moves(p, l, S)
    BY <1>6, GotoMoves DEF AddOrder, Goto, Moves
  <2>2. pc[p] = "add" /\ UNCHANGED <<orders, history>>
    BY <1>6 DEF AddOrder, bookVars
  <2> QED
    BY <1>1, <2>1, <2>2, QuietStep DEF Ahead
<1>7. CASE Sweep(p)
  <2>1. Map!Ids(orders') \subseteq Map!Ids(orders) /\ UNCHANGED history /\ pc[p] # "emit"
    BY <1>7, MapIds DEF Sweep, Types
  <2>2. Return(p) \/ (Goto(p, "dropPending") /\ UNCHANGED arg)
    BY <1>7 DEF Sweep
  <2> QED
    BY <1>1, <2>1, <2>2, ReturnQuiet, GotoMoves, QuietStep DEF Ahead
<1>8. CASE DropPending(p)
  <2>1. UNCHANGED <<orders, history>> /\ pc[p] = "dropPending"
    BY <1>8 DEF DropPending
  <2>2. Return(p) \/ (Goto(p, "update") /\ UNCHANGED arg)
    BY <1>8 DEF DropPending
  <2> QED
    BY <1>1, <2>1, <2>2, ReturnQuiet, GotoMoves, QuietStep DEF Ahead
<1> QED
  BY <1>2, <1>3, <1>4, <1>5, <1>6, <1>7, <1>8 DEF Book

(* A goroutine outside of the book goes where it neither adds nor announces. *)
LEMMA OutsideStep ==
    ASSUME EventInv, Types, StaysSaid, NEW p \in Threads, NEW l, Goto(p, l),
           l \notin Locking \cup Adding \cup Ahead \cup {"emit"}, pc[p] # "emit",
           Map!Ids(orders') \subseteq Map!Ids(orders), UNCHANGED <<arg, mu, history>>
    PROVE  EventInv'
<1>1. Moves(p, l, arg[p])
  BY GotoMoves
<1>2. ControlInv'
  BY <1>1, ControlMove DEF EventInv
<1>3. l # "settle"
  BY DEF Locking
<1> QED
  BY <1>1, <1>2, <1>3, QuietStep

(* A goroutine takes an order out of the book and stays where it is. *)
LEMMA RemovingStep ==
    ASSUME EventInv, Types, StaysSaid, NEW p \in Threads,
           Map!Ids(orders') \subseteq Map!Ids(orders), UNCHANGED <<pc, arg, mu, history>>
    PROVE  EventInv'
<1>1. Moves(p, pc[p], arg[p])
  BY StaysMoves
<1>2. ControlInv'
  BY DEF EventInv, ControlInv
<1> QED
  BY <1>1, <1>2, QuietStep

LEMMA SubmitterEvents ==
    ASSUME EventInv, Types, StaysSaid, NEW id \in Orders, Place(id) \/ Submitting(id)
    PROVE  EventInv'
<1> DEFINE Own(S) == \A o \in S : o.id = id /\ \A q \in S : o = q
<1>1. \E l \in {"sent", "add", "lost"} : \E S : Moves(id, l, S) /\ Own(S)
  <2>1. id \in Threads
    BY DEF Threads
  <2>2. CASE Place(id)
    <3>1. Moves(id, "sent", {Created(id)}) /\ Created(id).id = id
      BY <2>2 DEF Place, Goto, Moves, Created
    <3> QED
      BY <3>1
  <2>3. CASE Submitting(id)
    <3>1. PICK l \in {"add", "lost"} : Goto(id, l) /\ UNCHANGED arg
      BY <2>3 DEF Submitting, Respond, ResponseLost
    <3>2. Moves(id, l, arg[id])
      BY <2>1, <3>1, GotoMoves
    <3>3. \A o, q \in arg[id] : o.id = id /\ o = q
      BY <2>1 DEF EventInv, ControlInv
    <3> QED
      BY <3>2, <3>3
  <2> QED
    BY <2>2, <2>3
<1>2. pc[id] \in {"idle", "sent"} /\ UNCHANGED <<orders, mu, history>> /\ id \in Threads
  BY DEF Place, Submitting, Respond, ResponseLost, bookVars, Threads
<1>3. ControlInv'
  BY <1>1, <1>2, ControlStep DEF EventInv, Locking
<1> QED
  BY <1>1, <1>2, <1>3, QuietStep DEF Ahead

LEMMA ReceiveEvents ==
    ASSUME EventInv, Types, StaysSaid, NEW p \in Streams, Receive(p)
    PROVE  EventInv'
<1>1. Moves(p, "update", {Head(feed)}) /\ pc[p] = "idle" /\ UNCHANGED <<orders, mu, history>>
  BY DEF Receive, Goto, Moves, bookVars
<1>2. p \in Threads /\ p \notin Orders
  BY BookAssumption DEF Threads
<1>3. ControlInv'
  BY <1>1, <1>2, ControlStep DEF EventInv, Locking, Adding
<1> QED
  BY <1>1, <1>2, <1>3, QuietStep

LEMMA CancelerEvents ==
    ASSUME EventInv, Types, StaysSaid, NEW p \in AllCancelers, Graceful(p) \/ Fast(p) \/ CancelReturns(p)
    PROVE  EventInv'
<1>1. p \in Threads
  BY DEF Threads
<1>2. CASE RemoveVerified(p) \/ RemoveFast(p)
  <2>1. Map!Ids(orders') \subseteq Map!Ids(orders)
    BY <1>2, MapIds DEF RemoveVerified, RemoveFast, Types
  <2> QED
    BY <1>1, <1>2, <2>1, RemovingStep DEF RemoveVerified, RemoveFast
<1>3. CASE ~RemoveVerified(p) /\ ~RemoveFast(p)
  <2>1. PICK l \in {"cancel", "done", "query", "unverified", "verify", "wait", "remove"} :
            Goto(p, l) /\ pc[p] # "emit" /\ UNCHANGED <<orders, arg, mu, history>>
    BY <1>3 DEF Graceful, GracefulCancel, Cleared, NotCleared, Interrupted, QueryOpenOrders,
                QueryOpenOrdersFails, TryAgain, Fast, FastCancel, FastCancelReturns, CancelReturns, bookVars
  <2>2. l \notin Locking \cup Adding \cup Ahead \cup {"emit"}
    BY <2>1 DEF Locking, Adding, Ahead
  <2> QED
    BY <1>1, <2>1, <2>2, OutsideStep
<1> QED
  BY <1>2, <1>3

LEMMA NextEvents ==
    ASSUME Syncers = {}, BookInv, EventInv, [Next]_vars
    PROVE  EventInv'
<1>1. Types /\ StaysSaid
  BY BookTypes, NextBook, MonotoneSays
<1>2. CASE UNCHANGED vars
  BY <1>1, <1>2, StillStep DEF vars, moving, bookVars
<1>3. CASE Next
  <2>1. ASSUME NEW o \in placed, Fill(o) \/ Expire(o) \/ Age(o)  PROVE EventInv'
    BY <1>1, <2>1, StillStep DEF Fill, Expire, Age, bookVars
  <2>2. ASSUME NEW p \in AllCancelers, CancelOne(p)  PROVE EventInv'
    BY <1>1, <2>2, StillStep DEF CancelOne, bookVars
  <2>3. ASSUME NEW id \in Orders, Place(id) \/ Submitting(id)  PROVE EventInv'
    BY <1>1, <2>3, SubmitterEvents
  <2>4. ASSUME NEW p \in Streams, Receive(p)  PROVE EventInv'
    BY <1>1, <2>4, ReceiveEvents
  <2>5. ASSUME NEW p \in AllCancelers, Graceful(p) \/ Fast(p) \/ CancelReturns(p)  PROVE EventInv'
    BY <1>1, <2>5, CancelerEvents
  <2>6. ASSUME NEW p \in Threads, Book(p)  PROVE EventInv'
    BY <1>1, <2>6, BookEvents
  <2> QED
    BY <1>3, <2>1, <2>2, <2>3, <2>4, <2>5, <2>6 DEF Next, External, AllCancelers
<1> QED
  BY <1>2, <1>3

LEMMA InitEvents == Init => EventInv
<1> SUFFICES ASSUME Init  PROVE EventInv
  OBVIOUS
<1>1. \A p \in Threads : pc[p] \in {"done", "idle", "absent"} /\ arg[p] = {}
  BY DEF Init
<1>2. ControlInv /\ TrueAnnouncement
  BY <1>1 DEF ControlInv, TrueAnnouncement, Locking, Adding
<1>3. ASSUME NEW id \in Orders  PROVE OnceInBook(id) /\ OneAnnouncement(id)
  <2>1. filled[id] = 0 /\ canceled[id] = 0 /\ \A k : Working(k, id) = {}
    BY <1>1 DEF Init, Working
  <2>2. id \in Map!Ids(orders) => pc[id] = "done"
    BY DEF Init, Map!Empty, Map!Ids, Created, Threads
  <2> QED
    BY <2>1, <2>2 DEF OnceInBook, OneAnnouncement, Announced, Past, Ahead
<1> QED
  BY <1>2, <1>3 DEF EventInv

-----------------------------------------------------------------------------
(***************************************************************************)
(* The refinement                                                          *)
(***************************************************************************)
LEMMA FinalIs ==
    ASSUME BookInv, NEW id
    PROVE  /\ \A o \in placed : o.id = id => FinalStatus(id) = IF o.status \in Open THEN "no" ELSE o.status
           /\ ~IsPlaced(id) => FinalStatus(id) = "no"
<1>1. ASSUME NEW o \in placed, o.id = id  PROVE FinalStatus(id) = IF o.status \in Open THEN "no" ELSE o.status
  <2>1. \A q \in placed : q.id = id => q = o
    BY <1>1 DEF BookInv, PlacedOK
  <2>2. At(id) = o
    BY <1>1, <2>1 DEF At
  <2> QED
    BY <1>1, <2>1, <2>2 DEF FinalStatus
<1>2. ~IsPlaced(id) => FinalStatus(id) = "no"
  BY DEF FinalStatus, IsPlaced
<1> QED
  BY <1>1, <1>2

(* The two variables of OrderEvents. *)
Final == [o \in Orders |-> FinalStatus(o)]

Told == [o \in Orders |-> Heard(o)]

LEMMA SameFinal ==
    ASSUME UNCHANGED placed
    PROVE  UNCHANGED Final
  BY DEF Final, FinalStatus, At

LEMMA SameTold ==
    ASSUME UNCHANGED history
    PROVE  UNCHANGED Told
  BY DEF Told, Heard, history

(* The exchange closes an order, or changes it. *)
LEMMA BecomesFinal ==
    ASSUME BookInv, BookInv', NEW o \in placed, o.status \in Open, NEW status \in OrderStatus, NEW executed,
           Becomes(o, status, executed), UNCHANGED history
    PROVE  (\E id \in Orders : \E s \in {"Filled", "Canceled", "Rejected"} : Events!Close(id, s))
           \/ UNCHANGED Events!vars
<1> DEFINE new == [o EXCEPT !.status = status, !.executed = executed, !.time = @ + 1]
<1>1. o \in Order
  BY DEF BookInv, KnownOK
<1>2. new.id = o.id /\ new.status = status /\ placed' = (placed \ {o}) \cup {new}
  BY <1>1 DEF Becomes, Order
<1> HIDE DEF new
<1>3. FinalStatus(o.id) = "no" /\ FinalStatus(o.id)' = IF status \in Open THEN "no" ELSE status
  <2>1. FinalStatus(o.id) = "no"
    BY FinalIs
  <2>2. new \in placed' /\ \A q \in placed' : q.id = o.id => q = new
    BY <1>2 DEF BookInv, PlacedOK
  <2>3. At(o.id)' = new
    BY <1>2, <2>2 DEF At
  <2>4. FinalStatus(o.id)' = IF status \in Open THEN "no" ELSE status
    BY <1>2, <2>2, <2>3 DEF FinalStatus
  <2> QED
    BY <2>1, <2>4
<1>4. ASSUME NEW id \in Orders, id # o.id  PROVE FinalStatus(id)' = FinalStatus(id)
  <2>1. {q \in placed' : q.id = id} = {q \in placed : q.id = id}
    BY <1>2, <1>4
  <2>2. At(id)' = At(id)
    <3>1. \A q : (q \in placed' /\ q.id = id) <=> (q \in placed /\ q.id = id)
      BY <2>1
    <3>2. CASE IsPlaced(id)
      <4>1. PICK q \in placed : q.id = id
        BY <3>2 DEF IsPlaced
      <4>2. /\ \A r \in placed : r.id = id => r = q
            /\ \A r \in placed' : r.id = id => r = q
            /\ q \in placed'
        BY <3>1, <4>1 DEF BookInv, PlacedOK
      <4>3. At(id) = q /\ At(id)' = q
        BY <4>1, <4>2 DEF At
      <4> QED
        BY <4>3
    <3>3. CASE ~IsPlaced(id)
      BY <3>1, <3>3 DEF At, IsPlaced
    <3> QED
      BY <3>2, <3>3
  <2> QED
    BY <2>1, <2>2 DEF FinalStatus
<1>5. UNCHANGED Told
  BY SameTold
<1>6. CASE status \in Open
  <2>1. UNCHANGED Final
    BY <1>3, <1>4, <1>6 DEF Final
  <2> QED
    BY <1>5, <2>1 DEF Final, Told, Events!vars
<1>7. CASE status \notin Open
  <2>1. o.id \in Orders /\ status \in {"Filled", "Canceled", "Rejected"}
    BY <1>1, <1>7 DEF Order, OrderStatus, Open
  <2>2. Final[o.id] = "no" /\ Final' = [Final EXCEPT ![o.id] = status]
    BY <1>3, <1>4, <1>7, <2>1 DEF Final
  <2> QED
    BY <1>5, <2>1, <2>2 DEF Final, Told, Events!Close
<1> QED
  BY <1>6, <1>7

(* A new order is not closed. *)
LEMMA PlaceFinal ==
    ASSUME BookInv, BookInv', NEW id \in Orders, Place(id)
    PROVE  UNCHANGED Final
<1>1. placed' = placed \cup {Created(id)} /\ Created(id).id = id /\ Created(id).status = "New"
  BY DEF Place, Created
<1>2. \A q \in placed : q.id # id
  BY DEF Place, BookInv, PlacedOK
<1>3. ASSUME NEW k \in Orders  PROVE FinalStatus(k)' = FinalStatus(k)
  <2>1. (\E q \in placed' : q.id = k /\ q.status \notin Open) <=> (\E q \in placed : q.id = k /\ q.status \notin Open)
    BY <1>1 DEF Open
  <2>2. CASE \E q \in placed : q.id = k /\ q.status \notin Open
    <3>1. PICK q \in placed : q.id = k
      BY <2>2
    <3>2. /\ \A r \in placed : r.id = k => r = q
          /\ \A r \in placed' : r.id = k => r = q
      BY <1>1, <3>1 DEF BookInv, PlacedOK
    <3>3. At(k) = q /\ At(k)' = q
      BY <1>1, <3>1, <3>2 DEF At
    <3> QED
      BY <2>1, <3>3 DEF FinalStatus
  <2>3. CASE ~(\E q \in placed : q.id = k /\ q.status \notin Open)
    BY <2>1, <2>3 DEF FinalStatus
  <2> QED
    BY <2>2, <2>3
<1> QED
  BY <1>3 DEF Final

(* The book announces an order: the subscribers are told, for the first time,
   what the exchange says of it. *)
LEMMA EmitTells ==
    ASSUME BookInv, EventInv, NEW p \in Threads, Emit(p)
    PROVE  \E id \in Orders : Events!Tell(id)
<1>1. PICK o \in arg[p] :
          /\ pc[p] = "emit"
          /\ IF o.status = "Filled"
             THEN filled' = [filled EXCEPT ![o.id] = @ + 1] /\ canceled' = canceled
             ELSE canceled' = [canceled EXCEPT ![o.id] = @ + 1] /\ filled' = filled
          /\ UNCHANGED placed
  BY DEF Emit, exchangeVars
<1>2. /\ o \in placed /\ o.id \in Orders /\ o.status \in {"Filled", "Canceled"}
      /\ filled[o.id] = 0 /\ canceled[o.id] = 0
  BY <1>1, BookTypes, EmitOnce
<1>3. filled \in [Orders -> Nat] /\ canceled \in [Orders -> Nat]
  BY DEF BookInv, KnownOK
<1>4. Final[o.id] = o.status /\ UNCHANGED Final
  BY <1>1, <1>2, FinalIs, SameFinal DEF Final, Open
<1>5. Heard(o.id) = "nothing" /\ Heard(o.id)' = o.status
  BY <1>1, <1>2, <1>3 DEF Heard
<1>6. \A id \in Orders \ {o.id} : Heard(id)' = Heard(id)
  BY <1>1, <1>3 DEF Heard
<1>7. Told[o.id] = "nothing" /\ Told' = [Told EXCEPT ![o.id] = Final[o.id]]
  BY <1>2, <1>4, <1>5, <1>6 DEF Told
<1> QED
  BY <1>2, <1>4, <1>7 DEF Final, Told, Events!Tell

LEMMA StepImplements ==
    ASSUME BookInv, EventInv, BookInv', [Next]_vars
    PROVE  [Events!Next]_(Events!vars)
<1>1. ASSUME UNCHANGED <<placed, history>>  PROVE UNCHANGED Events!vars
  BY <1>1, SameFinal, SameTold DEF Final, Told, Events!vars
<1>2. CASE UNCHANGED vars
  BY <1>1, <1>2 DEF vars, moving, exchangeVars
<1>3. CASE Next
  <2>1. ASSUME NEW o \in placed, Fill(o)  PROVE [Events!Next]_(Events!vars)
    <3>1. \E status \in OrderStatus : \E executed : Becomes(o, status, executed)
      BY <2>1 DEF Fill, OrderStatus
    <3> QED
      BY <2>1, <3>1, BecomesFinal DEF Fill, Events!Next
  <2>2. ASSUME NEW o \in placed, Expire(o)  PROVE [Events!Next]_(Events!vars)
    <3>1. \E status \in OrderStatus : \E executed : Becomes(o, status, executed)
      BY <2>2 DEF Expire, OrderStatus
    <3>2. o.status \in Open /\ UNCHANGED history
      BY <2>2 DEF Expire, Open
    <3> QED
      BY <3>1, <3>2, BecomesFinal DEF Events!Next
  <2>3. ASSUME NEW p \in AllCancelers, CancelOne(p)  PROVE [Events!Next]_(Events!vars)
    <3>1. PICK o \in placed : o.status \in Open /\ Becomes(o, "Canceled", o.executed) /\ UNCHANGED history
      BY <2>3 DEF CancelOne
    <3> QED
      BY <3>1, BecomesFinal DEF OrderStatus, Events!Next
  <2>4. ASSUME NEW id \in Orders, Place(id)  PROVE [Events!Next]_(Events!vars)
    <3>1. UNCHANGED Final /\ UNCHANGED Told
      BY <2>4, PlaceFinal, SameTold DEF Place
    <3> QED
      BY <3>1 DEF Final, Told, Events!vars
  <2>5. ASSUME NEW p \in Threads, Emit(p)  PROVE [Events!Next]_(Events!vars)
    BY <2>5, EmitTells DEF Events!Next
  <2>6. ASSUME NEW o \in placed, Age(o)  PROVE [Events!Next]_(Events!vars)
    BY <1>1, <2>6 DEF Age
  <2>7. ASSUME NEW id \in Orders, Submitting(id)  PROVE [Events!Next]_(Events!vars)
    BY <1>1, <2>7 DEF Submitting, Respond, ResponseLost, exchangeVars
  <2>8. ASSUME NEW p \in Streams, Receive(p)  PROVE [Events!Next]_(Events!vars)
    BY <1>1, <2>8 DEF Receive
  <2>9. ASSUME NEW p \in AllCancelers, Graceful(p) \/ Fast(p) \/ CancelReturns(p)
        PROVE  [Events!Next]_(Events!vars)
    <3>1. UNCHANGED <<placed, history>>
      BY <2>9 DEF Graceful, GracefulCancel, Cleared, NotCleared, Interrupted, QueryOpenOrders,
                  QueryOpenOrdersFails, RemoveVerified, TryAgain, Fast, FastCancel, RemoveFast,
                  FastCancelReturns, CancelReturns, exchangeVars
    <3> QED
      BY <1>1, <3>1
  <2>10. ASSUME NEW p \in Syncers, Recovering(p)  PROVE [Events!Next]_(Events!vars)
    <3>1. UNCHANGED <<placed, history>>
      BY <2>10, SyncSteps DEF exchangeVars
    <3> QED
      BY <1>1, <3>1
  <2>11. ASSUME NEW p \in Threads, Book(p), ~Emit(p)  PROVE [Events!Next]_(Events!vars)
    <3>1. UNCHANGED <<placed, history>>
      BY <2>11 DEF Book, UpdateOrder, Pend, PendSweep, SkipUpdate, Refresh, Close, AddOrder, Insert,
                   Sweep, DropPending, exchangeVars
    <3> QED
      BY <1>1, <3>1
  <2> QED
    BY <1>3, <2>1, <2>2, <2>3, <2>4, <2>5, <2>6, <2>7, <2>8, <2>9, <2>10, <2>11
       DEF Next, External, AllCancelers
<1> QED
  BY <1>2, <1>3

LEMMA InitImplements == Init => Events!Init
<1> SUFFICES ASSUME Init  PROVE Events!Init
  OBVIOUS
<1>1. \A o \in placed : o.status \in Open
  BY DEF Init, Created, Open
<1>2. \A id \in Orders : FinalStatus(id) = "no" /\ Heard(id) = "nothing"
  BY <1>1 DEF Init, FinalStatus, Heard
<1> QED
  BY <1>2 DEF Events!Init

(* Where nobody runs syncActiveOrders, the book implements the event
   specification: however many streams, calls and cancelers there are, however
   often an update is repeated and whatever its setting, a subscriber hears of an
   order's fill or cancellation once at most and only after it happened. *)
THEOREM Implementation == Syncers = {} => (Spec => ImplementsEvents)
<1> SUFFICES ASSUME Syncers = {}  PROVE Spec => ImplementsEvents
  OBVIOUS
<1>1. Init => BookInv /\ EventInv /\ Events!Init
  BY InitBook, InitEvents, InitImplements
<1>2. BookInv /\ EventInv /\ [Next]_vars => (BookInv /\ EventInv)'
  BY NextBook, NextEvents
<1>3. BookInv /\ EventInv /\ BookInv' /\ [Next]_vars => [Events!Next]_(Events!vars)
  BY StepImplements
<1> QED
  BY <1>1, <1>2, <1>3, PTL DEF Spec, ImplementsEvents, Events!Spec

-----------------------------------------------------------------------------
(***************************************************************************)
(* In back-testing every fill is announced                                 *)
(***************************************************************************)
(* Nobody cancels orders in a back-test: the stream and the submitters are the
   only goroutines there. *)
BacktestAlone == \A s \in Settings : s.backtest => s.present \cap AllCancelers = {}

Busy(p) == pc[p] \notin Stopped \cup {"sent"}

OneAtATime ==
    /\ \A p \in AllCancelers : pc[p] = "absent"
    /\ \A p, q \in Threads : Busy(p) /\ Busy(q) => p = q

(* No removal is ever recorded for later, and no order is pending twice. *)
NothingDelayed ==
    /\ orders.removal = {} /\ pending.removal = {}
    /\ \A o, r \in pending.orders : o.id = r.id => o = r

(* A submitter that took the pending update. *)
Adopting == {"insertPending", "sweepPending", "dropPending"}

(* What a goroutine found in a map is still there: nobody else has run since. *)
StillThere ==
    \A p \in Threads : \A o \in arg[p] :
        /\ pc[p] = "settle" => Map!Exists(orders, o.id)
        /\ pc[p] \in Adopting => Map!Exists(pending, o.id)

(* The stream says of each order last that it is closed. *)
ClosedLast == \A i, j \in DOMAIN feed : i < j /\ feed[i].id = feed[j].id => feed[i].status \in Open

IsFill(o, id) == o.id = id /\ o.status = "Filled"

(* The records the program has besides those in the book. *)
Records == pending.orders \cup UNION {arg[p] : p \in Threads}

(* So once the program has seen a fill no older update of the order comes, ... *)
NoneBehind ==
    \A i \in DOMAIN feed : (\E o \in Records : IsFill(o, feed[i].id)) => feed[i].status \notin Open

(* ... and a fill that is pending is not replaced by an older update. *)
NotReplaced ==
    \A p \in Threads : pc[p] \in {"update", "pend"} =>
        \A o \in arg[p] : (\E r \in pending.orders : IsFill(r, o.id)) => o.status \notin Open

HasFill(p, id) == \E o \in arg[p] : IsFill(o, id)

(* A fill is announced, on the stream, in the hands of a goroutine that will
   settle it, or kept for the submitter that is still to add the order. *)
Coming(id) ==
    \/ filled[id] = 1
    \/ \E i \in DOMAIN feed : IsFill(feed[i], id)
    \/ \E p \in Threads : pc[p] \in Adopting \cup {"update", "settle", "emit"} /\ HasFill(p, id)
    \/ pc[id] \in {"sent", "add"} /\ \/ \E o \in pending.orders : IsFill(o, id)
                                     \/ \E p \in Threads : pc[p] = "pend" /\ HasFill(p, id)

InBookUntilAnnounced(id) == pc[id] \in AfterInsert => id \in Map!Ids(orders) \/ Announced(id)

FillKept(id) ==
    HasStatus(id, "Filled") => /\ InBookUntilAnnounced(id)
                               /\ pc[id] \in Ahead \cup AfterInsert => Coming(id)

BacktestInv ==
    /\ OneAtATime
    /\ NothingDelayed
    /\ StillThere
    /\ ClosedLast
    /\ NoneBehind
    /\ NotReplaced
    /\ \A id \in Orders : FillKept(id)

(* A closed record of a filled order is its fill. *)
LEMMA FillIs ==
    ASSUME BookInv, NEW id \in Orders, HasStatus(id, "Filled"), NEW o \in Known, o.id = id, o.status \notin Open
    PROVE  /\ IsFill(o, id) /\ o \in placed
           /\ \A r \in Known : r.id = id /\ r.status \notin Open => r = o
<1>1. \A r \in Known : r.id = id /\ r.status \notin Open => r \in placed
  BY DEF Known
<1> QED
  BY <1>1 DEF BookInv, PlacedOK, HasStatus, IsFill

LEMMA NoFillOfOpen ==
    ASSUME BookInv, NEW o \in placed, o.status \in Open, NEW r \in Known, IsFill(r, o.id)
    PROVE  FALSE
  BY DEF BookInv, PlacedOK, Known, IsFill, Open

LEMMA RecordsKnown ==
    ASSUME BookInv
    PROVE  Records \subseteq Known /\ \A i \in DOMAIN feed : feed[i] \in Known
<1>1. feed \in Seq(Known) /\ pending.orders \subseteq Known /\ arg \in [Threads -> SUBSET Known]
  BY DEF BookInv, KnownOK
<1> QED
  BY <1>1 DEF Records

LEMMA RecordsStep ==
    ASSUME Types, NEW p \in Threads, NEW l, NEW S, Moves(p, l, S),
           S \subseteq Records, pending'.orders \subseteq Records
    PROVE  Records' \subseteq Records
<1>1. \A q \in Threads : arg'[q] \subseteq Records
  BY DEF Types, Moves, Records
<1> QED
  BY <1>1 DEF Records

LEMMA AloneStep ==
    ASSUME Types, OneAtATime, NEW p \in Threads \ AllCancelers, NEW l, NEW S, Moves(p, l, S),
           \A q \in Threads \ {p} : ~Busy(q)
    PROVE  OneAtATime' /\ \A q \in Threads \ {p} : pc'[q] \in Stopped \cup {"sent"}
<1>1. \A q \in Threads \ {p} : pc'[q] = pc[q] /\ pc'[q] \in Stopped \cup {"sent"}
  BY DEF Moves, Types, Busy
<1>2. AllCancelers \subseteq Threads
  BY DEF Threads
<1> QED
  BY <1>1, <1>2 DEF OneAtATime, Busy

(* A step of the only goroutine that runs: what is left to show. *)
LEMMA OnlyOne ==
    ASSUME BookInv, BacktestInv, NEW p \in Threads \ AllCancelers, NEW l, NEW S, Moves(p, l, S),
           \A q \in Threads \ {p} : ~Busy(q), UNCHANGED placed,
           UNCHANGED feed \/ (feed # <<>> /\ feed' = Tail(feed)),
           NoneBehind', orders'.removal = {} /\ pending'.removal = {},
           \A o, r \in pending'.orders : o.id = r.id => o = r,
           \A o \in S : /\ l = "settle" => Map!Exists(orders', o.id)
                        /\ l \in Adopting => Map!Exists(pending', o.id)
                        /\ l \in {"update", "pend"} /\ (\E r \in pending'.orders : IsFill(r, o.id))
                               => o.status \notin Open,
           \A id \in Orders : HasStatus(id, "Filled") =>
               InBookUntilAnnounced(id)' /\ (pc'[id] \in Ahead \cup AfterInsert => Coming(id)')
    PROVE  BacktestInv'
<1>1. Types
  BY BookTypes
<1>2. OneAtATime' /\ \A q \in Threads \ {p} : pc'[q] \in Stopped \cup {"sent"}
  BY <1>1, AloneStep DEF BacktestInv
<1>3. pc'[p] = l /\ arg'[p] = S
  BY <1>1 DEF Moves, Types
<1>4. StillThere'
  BY <1>2, <1>3 DEF StillThere, Stopped, Adopting, Map!Exists, Map!Ids
<1>5. NotReplaced'
  BY <1>2, <1>3 DEF NotReplaced, Stopped
<1>6. ClosedLast'
  <2>1. CASE UNCHANGED feed
    BY <2>1 DEF BacktestInv, ClosedLast
  <2>2. CASE feed # <<>> /\ feed' = Tail(feed)
    <3>1. feed \in Seq(Known)
      BY DEF BookInv, KnownOK
    <3>2. ASSUME NEW i \in DOMAIN feed', NEW j \in DOMAIN feed', i < j, feed'[i].id = feed'[j].id
          PROVE  feed'[i].status \in Open
      <4>1. /\ i + 1 \in DOMAIN feed /\ feed'[i] = feed[i + 1]
            /\ j + 1 \in DOMAIN feed /\ feed'[j] = feed[j + 1]
            /\ i + 1 < j + 1
        BY <2>2, <3>1, <3>2
      <4> QED
        BY <3>2, <4>1, Zenon DEF BacktestInv, ClosedLast
    <3> QED
      BY <3>2 DEF ClosedLast
  <2> QED
    BY <2>1, <2>2
<1>7. \A id \in Orders : FillKept(id)'
  BY DEF FillKept, HasStatus
<1>8. NothingDelayed'
  BY DEF NothingDelayed
<1> QED
  BY <1>2, <1>4, <1>5, <1>6, <1>7, <1>8 DEF BacktestInv

(* The same inside the book, where the goroutine was busy already. *)
LEMMA BusyStep ==
    ASSUME BookInv, BacktestInv, NEW p \in Threads, Busy(p), NEW l, NEW S, Moves(p, l, S),
           UNCHANGED <<placed, feed>>, S \subseteq Records, pending'.orders \subseteq Records,
           orders'.removal = {} /\ pending'.removal = {},
           \A o, r \in pending'.orders : o.id = r.id => o = r,
           \A o \in S : /\ l = "settle" => Map!Exists(orders', o.id)
                        /\ l \in Adopting => Map!Exists(pending', o.id)
                        /\ l \in {"update", "pend"} /\ (\E r \in pending'.orders : IsFill(r, o.id))
                               => o.status \notin Open,
           \A id \in Orders : HasStatus(id, "Filled") =>
               InBookUntilAnnounced(id)' /\ (pc'[id] \in Ahead \cup AfterInsert => Coming(id)')
    PROVE  BacktestInv'
<1>1. \A q \in Threads \ {p} : ~Busy(q)
  BY DEF BacktestInv, OneAtATime
<1>2. p \notin AllCancelers
  BY DEF BacktestInv, OneAtATime, Busy, Stopped
<1>3. Records' \subseteq Records
  BY BookTypes, RecordsStep
<1>4. NoneBehind'
  BY <1>3 DEF BacktestInv, NoneBehind
<1> QED
  BY <1>1, <1>2, <1>4, OnlyOne

(* A fill that was coming still is. *)
LEMMA StillComing ==
    ASSUME BookInv, BacktestInv, NEW p \in Threads, Busy(p), NEW l, NEW S, Moves(p, l, S), UNCHANGED feed,
           NEW id \in Orders, Coming(id),
           filled[id] = 1 => filled'[id] = 1,
           pc[p] \in Adopting \cup {"update", "settle", "emit"} /\ HasFill(p, id) => Coming(id)',
           p = id /\ pc[p] = "add" /\ (\E o \in pending.orders : IsFill(o, id)) => Coming(id)',
           p # id /\ ((\E o \in pending.orders : IsFill(o, id)) \/ (pc[p] = "pend" /\ HasFill(p, id)))
               => \E o \in pending'.orders : IsFill(o, id)
    PROVE  Coming(id)'
<1>1. \A q \in Threads : Busy(q) => q = p
  BY DEF BacktestInv, OneAtATime
<1>2. \A q \in Threads : pc[q] \in Adopting \cup {"update", "settle", "emit", "pend", "add"} => q = p
  BY <1>1 DEF Busy, Stopped, Adopting
<1>3. CASE filled[id] = 1 \/ \E i \in DOMAIN feed : IsFill(feed[i], id)
  BY <1>3 DEF Coming
<1>4. CASE \E q \in Threads : pc[q] \in Adopting \cup {"update", "settle", "emit"} /\ HasFill(q, id)
  BY <1>2, <1>4
<1>5. CASE pc[id] \in {"sent", "add"} /\ \/ \E o \in pending.orders : IsFill(o, id)
                                         \/ \E q \in Threads : pc[q] = "pend" /\ HasFill(q, id)
  <2>1. id \in Threads
    BY DEF Threads
  <2>2. CASE p = id
    BY <1>2, <1>5, <2>1, <2>2 DEF Busy
  <2>3. CASE p # id
    <3>1. \E o \in pending'.orders : IsFill(o, id)
      BY <1>2, <1>5, <2>3
    <3>2. pc'[id] = pc[id]
      BY <2>1, <2>3, BookTypes DEF Moves, Types
    <3> QED
      BY <1>5, <3>1, <3>2 DEF Coming
  <2> QED
    BY <2>2, <2>3
<1> QED
  BY <1>3, <1>4, <1>5 DEF Coming

LEMMA StillInBook ==
    ASSUME BookInv, NEW p \in Threads, NEW l, NEW S, Moves(p, l, S), NEW id \in Orders,
           InBookUntilAnnounced(id), p = id /\ l \in AfterInsert => pc[p] \in AfterInsert,
           pc[p] # "emit", UNCHANGED history, id \in Map!Ids(orders) => id \in Map!Ids(orders')
    PROVE  InBookUntilAnnounced(id)'
<1>1. Types /\ id \in Threads
  BY BookTypes DEF Threads
<1>2. pc'[id] \in AfterInsert => pc[id] \in AfterInsert
  BY <1>1 DEF Moves, Types
<1>3. Working("emit", id) \subseteq Working("emit", id)'
  BY <1>1, WorkingMoves DEF Working
<1>4. Map!Ids(orders)' = Map!Ids(orders')
  BY DEF Map!Ids
<1> QED
  BY <1>2, <1>3, <1>4 DEF InBookUntilAnnounced, Announced, history

(* What the operations on the two maps do when no removal is recorded. *)
LEMMA MapRemoval ==
    ASSUME NEW m \in KnownMap, m.removal = {}
    PROVE  /\ \A o \in Known : /\ Map!AddOrder(m, o).removal = {} /\ Map!Update(m, o).removal = {}
                               /\ Map!AddOrder(m, o).orders = {r \in m.orders : r.id # o.id} \cup {o}
           /\ \A id : Map!Exists(m, id) => /\ Map!Remove(m, id).removal = {}
                                           /\ Map!Remove(m, id).orders = {r \in m.orders : r.id # id}
           /\ \A expired \in SUBSET m.removal : Map!ProcessPendingRemoval(m, expired) = m
<1>1. m = [orders |-> m.orders, removal |-> {}]
  BY DEF KnownMap
<1>2. ASSUME NEW o \in Known
      PROVE  /\ Map!AddOrder(m, o).removal = {} /\ Map!Update(m, o).removal = {}
             /\ Map!AddOrder(m, o).orders = {r \in m.orders : r.id # o.id} \cup {o}
  BY DEF KnownMap, Map!AddOrder, Map!Update, Map!Without
<1>3. ASSUME NEW id, Map!Exists(m, id)
      PROVE  Map!Remove(m, id).removal = {} /\ Map!Remove(m, id).orders = {r \in m.orders : r.id # id}
  BY <1>3 DEF KnownMap, Map!Remove, Map!Without
<1>4. ASSUME NEW expired \in SUBSET m.removal  PROVE Map!ProcessPendingRemoval(m, expired) = m
  <2>1. expired = {} /\ (m.removal \cap Map!Ids(m)) \cup expired = {}
    BY <1>4
  <2>2. Map!Without(m, {}) = m.orders
    BY DEF Map!Without
  <2>3. Map!ProcessPendingRemoval(m, expired) = [orders |-> m.orders, removal |-> {}]
    <3>1. m.removal \ {} = {}
      OBVIOUS
    <3> QED
      BY <2>1, <2>2, <3>1, Zenon DEF Map!ProcessPendingRemoval
  <2> QED
    BY <1>1, <2>3
<1> QED
  BY <1>2, <1>3, <1>4

(* What a goroutine in the book has in hand. *)
LEMMA InHand ==
    ASSUME BookInv, EventInv, BacktestInv, NEW p \in Threads, NEW o \in arg[p]
    PROVE  /\ o \in Known /\ o.id \in Orders /\ o \in Records /\ arg[p] \subseteq Records
           /\ \A r \in arg[p] : r = o
           /\ \A id : HasFill(p, id) <=> IsFill(o, id)
           /\ p \in Orders => o.id = p
<1>1. arg \in [Threads -> SUBSET Known]
  BY DEF BookInv, KnownOK
<1>2. \A r \in arg[p] : r = o
  BY DEF EventInv, ControlInv
<1>3. o \in Known /\ o.id \in Orders
  BY <1>1 DEF Known, Order
<1>4. arg[p] \subseteq Records
  BY DEF Records
<1>5. p \in Orders => o.id = p
  BY DEF EventInv, ControlInv
<1> QED
  BY <1>2, <1>3, <1>4, <1>5 DEF HasFill

(* Update finds the order in the book, or it keeps the update, if it is a fill,
   for a submitter still waiting for its response. *)
LEMMA UpdateKeepsFills ==
    ASSUME BookInv, EventInv, BacktestInv, NEW p \in Threads, UpdateOrder(p)
    PROVE  BacktestInv'
<1>1. PICK o \in arg[p], l \in {"settle", "pend"} :
          /\ pc[p] = "update" /\ Moves(p, l, arg[p])
          /\ l = "settle" <=> Map!Exists(orders, o.id)
          /\ UNCHANGED <<placed, feed, orders, pending, history>>
  BY BookTypes, GotoMoves DEF UpdateOrder, exchangeVars
<1>2. Busy(p) /\ pc[p] \notin Ahead \cup Adopting \cup {"emit", "pend", "sent", "add"} /\ pc[p] \in AfterInsert
  BY <1>1 DEF Busy, Stopped, Ahead, Adopting, AfterInsert
<1>3. \A q \in Threads : Busy(q) => q = p
  BY <1>2 DEF BacktestInv, OneAtATime
<1>4. ASSUME NEW id \in Orders, HasStatus(id, "Filled"), HasFill(p, id), pc'[id] \in Ahead \cup AfterInsert
      PROVE  Coming(id)'
  <2>1. o.id = id /\ p \in Threads /\ id \in Threads
    BY <1>1, <1>4, InHand DEF IsFill, Threads
  <2>2. pc'[p] = l /\ arg'[p] = arg[p] /\ (id # p => pc'[id] = pc[id])
    BY <1>1, <2>1, BookTypes DEF Moves, Types
  <2>3. CASE l = "settle"
    BY <1>4, <2>2, <2>3 DEF Coming, HasFill
  <2>4. CASE pc[id] \in AfterInsert /\ l = "pend"
    <3>1. Announced(id)
      BY <1>1, <1>4, <2>1, <2>4 DEF BacktestInv, FillKept, InBookUntilAnnounced, Map!Exists
    <3>2. Working("emit", id) = {}
      BY <1>1, <1>3 DEF Working, Busy, Stopped
    <3>3. ~HasStatus(id, "Canceled")
      BY <1>4 DEF BookInv, PlacedOK, HasStatus
    <3>4. filled[id] \in Nat /\ canceled[id] \in Nat /\ OneAnnouncement(id)
      BY DEF BookInv, KnownOK, EventInv
    <3>5. filled[id] = 1
      BY <3>1, <3>2, <3>3, <3>4 DEF Announced, OneAnnouncement
    <3> QED
      BY <1>1, <3>5 DEF Coming, history
  <2>5. CASE pc[id] \notin AfterInsert /\ l = "pend"
    <3>1. id # p /\ pc[id] \in Ahead /\ ~Busy(id)
      BY <1>1, <1>2, <1>3, <1>4, <2>1, <2>2, <2>5
    <3>2. pc[id] # "idle"
      BY <1>4 DEF BookInv, PlacedOK, HasStatus
    <3>3. pc[id] = "sent"
      BY <3>1, <3>2 DEF Busy, Stopped, Ahead
    <3> QED
      BY <1>4, <2>2, <2>5, <3>1, <3>3 DEF Coming, HasFill
  <2> QED
    BY <1>1, <2>3, <2>4, <2>5
<1>5. ASSUME NEW id \in Orders, HasStatus(id, "Filled")
      PROVE  InBookUntilAnnounced(id)' /\ (pc'[id] \in Ahead \cup AfterInsert => Coming(id)')
  <2>1. FillKept(id)
    BY DEF BacktestInv
  <2>2. InBookUntilAnnounced(id)'
    BY <1>1, <1>2, <1>5, <2>1, StillInBook DEF FillKept
  <2>3. ASSUME pc'[id] \in Ahead \cup AfterInsert  PROVE Coming(id)'
    <3>1. pc[id] \in Ahead \cup AfterInsert
      BY <1>1, <1>2, <2>3, BookTypes DEF Moves, Types, Threads
    <3>2. Coming(id)
      BY <1>5, <2>1, <3>1 DEF FillKept
    <3> QED
      BY <1>1, <1>2, <1>4, <1>5, <2>3, <3>2, StillComing DEF history
  <2> QED
    BY <2>2, <2>3
<1>6. /\ orders'.removal = {} /\ pending'.removal = {} /\ pending'.orders \subseteq Records
      /\ arg[p] \subseteq Records /\ \A r, t \in pending'.orders : r.id = t.id => r = t
  BY <1>1 DEF BacktestInv, NothingDelayed, Records
<1>7. \A r \in arg[p] : /\ l = "settle" => Map!Exists(orders', r.id)
                        /\ l \in Adopting => Map!Exists(pending', r.id)
                        /\ l \in {"update", "pend"} /\ (\E t \in pending'.orders : IsFill(t, r.id))
                               => r.status \notin Open
  BY <1>1, InHand DEF Adopting, BacktestInv, NotReplaced
<1> QED
  BY <1>1, <1>2, <1>5, <1>6, <1>7, BusyStep

LEMMA PendKeepsFills ==
    ASSUME BookInv, EventInv, BacktestInv, NEW p \in Threads, Pend(p)
    PROVE  BacktestInv'
<1>1. PICK o \in arg[p] :
          /\ pc[p] = "pend" /\ Moves(p, "pendSweep", arg[p])
          /\ pending' = Map!AddOrder(pending, o)
          /\ UNCHANGED <<placed, feed, orders, history>>
  BY BookTypes, GotoMoves DEF Pend, exchangeVars
<1>2. Busy(p) /\ pc[p] \notin Ahead \cup Adopting \cup {"emit", "update", "settle", "add"} /\ pc[p] \in AfterInsert
  BY <1>1 DEF Busy, Stopped, Ahead, Adopting, AfterInsert
<1>3. o \in Known /\ o.id \in Orders /\ o \in Records /\ \A id : HasFill(p, id) <=> IsFill(o, id)
  BY InHand
<1>4. pending'.orders = {r \in pending.orders : r.id # o.id} \cup {o} /\ pending'.removal = {}
      /\ pending.orders \subseteq Known
  BY <1>1, <1>3, BookTypes, MapRemoval DEF BacktestInv, NothingDelayed, Types, KnownMap
<1>5. ASSUME NEW id \in Orders, HasStatus(id, "Filled"), \E r \in pending.orders : IsFill(r, id)
      PROVE  \E r \in pending'.orders : IsFill(r, id)
  <2>1. PICK r \in pending.orders : IsFill(r, id)
    BY <1>5
  <2>2. CASE o.id # id
    BY <1>4, <2>1, <2>2 DEF IsFill
  <2>3. CASE o.id = id
    <3>1. o.status \notin Open
      BY <1>1, <2>1, <2>3 DEF BacktestInv, NotReplaced
    <3> QED
      BY <1>3, <1>4, <1>5, <2>3, <3>1, FillIs
  <2> QED
    BY <2>2, <2>3
<1>6. ASSUME NEW id \in Orders, HasStatus(id, "Filled")
      PROVE  InBookUntilAnnounced(id)' /\ (pc'[id] \in Ahead \cup AfterInsert => Coming(id)')
  <2>1. FillKept(id)
    BY DEF BacktestInv
  <2>2. InBookUntilAnnounced(id)'
    BY <1>1, <1>2, <1>6, <2>1, StillInBook DEF FillKept
  <2>3. ASSUME pc'[id] \in Ahead \cup AfterInsert  PROVE Coming(id)'
    <3>1. pc[id] \in Ahead \cup AfterInsert
      BY <1>1, <1>2, <2>3, BookTypes DEF Moves, Types, Threads
    <3>2. Coming(id)
      BY <1>6, <2>1, <3>1 DEF FillKept
    <3> QED
      BY <1>1, <1>2, <1>3, <1>4, <1>5, <1>6, <3>2, StillComing DEF history
  <2> QED
    BY <2>2, <2>3
<1>7. /\ orders'.removal = {} /\ pending'.orders \subseteq Records
      /\ arg[p] \subseteq Records /\ \A r, t \in pending'.orders : r.id = t.id => r = t
  BY <1>1, <1>3, <1>4 DEF BacktestInv, NothingDelayed, Records
<1>8. "pendSweep" \notin Adopting \cup {"settle", "update", "pend"}
  BY DEF Adopting
<1> QED
  BY <1>1, <1>2, <1>4, <1>6, <1>7, <1>8, BusyStep

(* A step in the book that announces nothing keeps a fill, if it keeps one that
   is pending or in hand. *)
LEMMA FillsStay ==
    ASSUME BookInv, BacktestInv, NEW p \in Threads, Busy(p), NEW l, NEW S, Moves(p, l, S),
           UNCHANGED <<placed, feed, history>>, pc[p] \in AfterInsert \cup Ahead, pc[p] # "emit",
           l \in AfterInsert => pc[p] \in AfterInsert \/ p \notin Orders,
           NEW id \in Orders, HasStatus(id, "Filled"),
           id \in Map!Ids(orders) => id \in Map!Ids(orders'),
           pc[p] \in Adopting \cup {"update", "settle"} /\ HasFill(p, id) => Coming(id)',
           p = id /\ pc[p] = "add" /\ (\E o \in pending.orders : IsFill(o, id)) => Coming(id)',
           p # id /\ ((\E o \in pending.orders : IsFill(o, id)) \/ (pc[p] = "pend" /\ HasFill(p, id)))
               => \E o \in pending'.orders : IsFill(o, id)
    PROVE  InBookUntilAnnounced(id)' /\ (pc'[id] \in Ahead \cup AfterInsert => Coming(id)')
<1>1. FillKept(id)
  BY DEF BacktestInv
<1>2. InBookUntilAnnounced(id)'
  BY <1>1, StillInBook DEF FillKept
<1>3. ASSUME pc'[id] \in Ahead \cup AfterInsert  PROVE Coming(id)'
  <2>1. pc[id] \in Ahead \cup AfterInsert
    BY <1>3, BookTypes DEF Moves, Types, Threads
  <2>2. Coming(id)
    BY <1>1, <2>1 DEF FillKept
  <2> QED
    BY <2>2, StillComing DEF history
<1> QED
  BY <1>2, <1>3

(* Update ends without an announcement: the update was kept pending, it was out
   of date, or it says that the order is open. *)
LEMMA ReturnKeepsFills ==
    ASSUME BookInv, EventInv, BacktestInv, NEW p \in Threads, PendSweep(p) \/ SkipUpdate(p) \/ Refresh(p)
    PROVE  BacktestInv'
<1>1. /\ pc[p] \in {"pendSweep", "settle"} /\ Moves(p, Resume(p), {})
      /\ UNCHANGED <<placed, feed, history>>
  BY ReturnMoves DEF PendSweep, SkipUpdate, Refresh, exchangeVars
<1>2. Busy(p) /\ pc[p] \notin Ahead \cup Adopting \cup {"emit", "update", "pend", "add"} /\ pc[p] \in AfterInsert
  BY <1>1 DEF Busy, Stopped, Ahead, Adopting, AfterInsert
<1>3. orders \in KnownMap /\ pending \in KnownMap /\ orders.removal = {} /\ pending.removal = {}
  BY BookTypes DEF Types, BacktestInv, NothingDelayed
<1>4. pending' = pending
  BY <1>3, MapRemoval DEF PendSweep, SkipUpdate, Refresh
<1>5. orders'.removal = {} /\ Map!Ids(orders') = Map!Ids(orders)
  <2>1. CASE PendSweep(p) \/ SkipUpdate(p)
    BY <1>3, <2>1 DEF PendSweep, SkipUpdate
  <2>2. CASE Refresh(p)
    <3>1. PICK o \in arg[p] : orders' = Map!Update(orders, o)
      BY <2>2 DEF Refresh
    <3>2. o \in Known
      BY InHand
    <3> QED
      BY <1>3, <3>1, <3>2, MapRemoval, MapIds
  <2> QED
    BY <2>1, <2>2
<1>6. ASSUME NEW id \in Orders, HasStatus(id, "Filled"), pc[p] = "settle", HasFill(p, id)
      PROVE  FALSE
  <2>1. PICK o \in arg[p] : o.status \in Open \/ OutOfDate(o)
    BY <1>6 DEF PendSweep, SkipUpdate, Refresh
  <2>2. IsFill(o, id) /\ o \in Known
    BY <1>6, InHand
  <2>3. OutOfDate(o)
    BY <2>1, <2>2 DEF IsFill, Open
  <2>4. Map!Get(orders, id) \in Known /\ Map!Get(orders, id).id = id
    BY <1>3, <2>2, <2>3, GetFinds DEF OutOfDate, KnownMap, IsFill
  <2>5. Map!Get(orders, id).status \in Open \cup {"Filled"}
    BY <1>6, <2>4, FillIs DEF IsFill
  <2> QED
    BY <2>2, <2>3, <2>5 DEF OutOfDate, IsNewerOrderUpdate, NewerByStatus, IsFill
<1>7. ASSUME NEW id \in Orders, HasStatus(id, "Filled")
      PROVE  InBookUntilAnnounced(id)' /\ (pc'[id] \in Ahead \cup AfterInsert => Coming(id)')
  BY <1>1, <1>2, <1>4, <1>5, <1>6, <1>7, FillsStay
<1>8. /\ pending'.removal = {} /\ pending'.orders \subseteq Records
      /\ \A r, t \in pending'.orders : r.id = t.id => r = t
  BY <1>4 DEF BacktestInv, NothingDelayed, Records
<1> QED
  BY <1>1, <1>2, <1>5, <1>7, <1>8, BusyStep

(* A closed order leaves the book: if it was filled, to be announced. *)
LEMMA CloseKeepsFills ==
    ASSUME BookInv, EventInv, BacktestInv, NEW p \in Threads, Close(p)
    PROVE  BacktestInv'
<1>1. PICK o \in arg[p] : /\ pc[p] = "settle" /\ o.status \notin Open
                          /\ orders' = Map!Remove(orders, o.id)
                          /\ IF Announces(o) THEN Goto(p, "emit") /\ UNCHANGED arg ELSE Return(p)
                          /\ UNCHANGED <<placed, feed, pending, history>>
  BY DEF Close, RemoveClosed, exchangeVars
<1>2. Busy(p) /\ pc[p] \notin Ahead \cup Adopting \cup {"emit", "update", "pend", "add"} /\ pc[p] \in AfterInsert
  BY <1>1 DEF Busy, Stopped, Ahead, Adopting, AfterInsert
<1>3. PICK l, S : /\ Moves(p, l, S) /\ S \subseteq arg[p] /\ l \notin {"settle", "update", "pend"} \cup Adopting
                  /\ Announces(o) => l = "emit" /\ S = arg[p]
  <2>1. CASE Announces(o)
    BY <1>1, <2>1, BookTypes, GotoMoves DEF Adopting
  <2>2. CASE ~Announces(o)
    BY <1>1, <2>2, ReturnMoves DEF Adopting, Resume
  <2> QED
    BY <2>1, <2>2
<1>4. /\ o \in Known /\ o.id \in Orders /\ o \in Records /\ arg[p] \subseteq Records
      /\ \A id : HasFill(p, id) <=> IsFill(o, id)
  BY InHand
<1>5. Map!Exists(orders, o.id)
  BY <1>1 DEF BacktestInv, StillThere
<1>6. orders'.removal = {} /\ Map!Ids(orders') = Map!Ids(orders) \ {o.id}
  BY <1>1, <1>5, BookTypes, MapRemoval, MapIds DEF Types, BacktestInv, NothingDelayed
<1>7. ASSUME NEW id \in Orders, HasStatus(id, "Filled")
      PROVE  InBookUntilAnnounced(id)' /\ (pc'[id] \in Ahead \cup AfterInsert => Coming(id)')
  <2>1. CASE o.id = id
    <3>1. IsFill(o, id)
      BY <1>1, <1>4, <1>7, <2>1, FillIs
    <3>2. l = "emit" /\ S = arg[p]
      BY <1>3, <1>5, <3>1 DEF Announces, IsFill
    <3>3. pc'[p] = "emit" /\ arg'[p] = arg[p]
      BY <1>3, <3>2, BookTypes DEF Moves, Types
    <3>4. Coming(id)' /\ Announced(id)'
      BY <3>1, <3>3 DEF Coming, HasFill, Announced, Working, IsFill
    <3> QED
      BY <3>4 DEF InBookUntilAnnounced
  <2>2. CASE o.id # id
    <3>1. ~HasFill(p, id)
      BY <1>4, <2>2 DEF IsFill
    <3> QED
      BY <1>1, <1>2, <1>3, <1>6, <1>7, <2>2, <3>1, FillsStay
  <2> QED
    BY <2>1, <2>2
<1>8. /\ pending'.removal = {} /\ pending'.orders \subseteq Records
      /\ \A r, t \in pending'.orders : r.id = t.id => r = t
  BY <1>1 DEF BacktestInv, NothingDelayed, Records
<1> QED
  BY <1>1, <1>2, <1>3, <1>4, <1>6, <1>7, <1>8, BusyStep

LEMMA EmitKeepsFills ==
    ASSUME BookInv, EventInv, BacktestInv, NEW p \in Threads, Emit(p)
    PROVE  BacktestInv'
<1>1. PICK o \in arg[p] :
          /\ pc[p] = "emit" /\ Moves(p, Resume(p), {})
          /\ IF o.status = "Filled"
             THEN filled' = [filled EXCEPT ![o.id] = @ + 1] /\ canceled' = canceled
             ELSE canceled' = [canceled EXCEPT ![o.id] = @ + 1] /\ filled' = filled
          /\ UNCHANGED <<placed, feed, orders, pending>>
  BY ReturnMoves DEF Emit, exchangeVars, bookVars
<1>2. Busy(p) /\ pc[p] \notin Ahead \cup Adopting \cup {"settle", "update", "pend", "add"} /\ pc[p] \in AfterInsert
  BY <1>1 DEF Busy, Stopped, Ahead, Adopting, AfterInsert
<1>3. /\ o \in Known /\ o.id \in Orders /\ \A id : HasFill(p, id) <=> IsFill(o, id)
      /\ \A r \in arg[p] : r = o
  BY InHand
<1>4. filled[o.id] = 0 /\ canceled[o.id] = 0 /\ Types
  BY <1>1, EmitOnce, BookTypes
<1>5. ASSUME NEW id \in Orders, HasStatus(id, "Filled")
      PROVE  InBookUntilAnnounced(id)' /\ (pc'[id] \in Ahead \cup AfterInsert => Coming(id)')
  <2>1. FillKept(id) /\ filled[id] \in Nat /\ canceled[id] \in Nat
    BY <1>4 DEF BacktestInv, Types
  <2>2. pc'[id] \in Ahead \cup AfterInsert => pc[id] \in Ahead \cup AfterInsert
    BY <1>1, <1>2, <1>4 DEF Moves, Types, Threads
  <2>3. pc'[id] \in AfterInsert => pc[id] \in AfterInsert
    BY <1>1, <1>2, <1>4 DEF Moves, Types, Threads
  <2>4. Announced(id) => filled'[id] + canceled'[id] > 0
    <3>1. CASE filled[id] + canceled[id] > 0
      <4>1. filled'[id] >= filled[id] /\ canceled'[id] >= canceled[id] /\ filled'[id] \in Nat /\ canceled'[id] \in Nat
        BY <1>1, <1>4, <2>1 DEF Types
      <4> QED
        BY <2>1, <3>1, <4>1
    <3>2. CASE \E q \in Threads : pc[q] = "emit" /\ \E r \in arg[q] : r.id = id
      <4>1. o.id = id
        BY <1>2, <1>3, <3>2 DEF BacktestInv, OneAtATime, Busy, Stopped
      <4> QED
        BY <1>1, <1>4, <2>1, <4>1 DEF Types
    <3> QED
      BY <3>1, <3>2 DEF Announced, Working
  <2>5. Map!Ids(orders)' = Map!Ids(orders)
    BY <1>1 DEF Map!Ids
  <2>6. InBookUntilAnnounced(id)'
    BY <1>5, <2>1, <2>3, <2>4, <2>5 DEF FillKept, InBookUntilAnnounced, Announced
  <2>7. ASSUME pc'[id] \in Ahead \cup AfterInsert  PROVE Coming(id)'
    <3>1. CASE IsFill(o, id)
      BY <1>1, <1>4, <3>1 DEF IsFill, Coming, Types
    <3>2. CASE ~IsFill(o, id)
      <4>1. filled[id] = 1 => filled'[id] = 1
        BY <1>1, <1>4, <3>2 DEF IsFill, Types
      <4>2. ~HasFill(p, id) /\ Coming(id)
        BY <1>3, <1>5, <2>1, <2>2, <2>7, <3>2 DEF FillKept
      <4> QED
        BY <1>1, <1>2, <4>1, <4>2, StillComing
    <3> QED
      BY <3>1, <3>2
  <2> QED
    BY <2>6, <2>7
<1>6. /\ orders'.removal = {} /\ pending'.removal = {} /\ pending'.orders \subseteq Records
      /\ \A r, t \in pending'.orders : r.id = t.id => r = t
  BY <1>1 DEF BacktestInv, NothingDelayed, Records
<1> QED
  BY <1>1, <1>2, <1>5, <1>6, BusyStep

(* Add takes a pending fill in place of the order as it was created. *)
LEMMA AddKeepsFills ==
    ASSUME BookInv, EventInv, BacktestInv, NEW p \in Threads, AddOrder(p)
    PROVE  BacktestInv'
<1>1. PICK o \in arg[p] : /\ pc[p] = "add"
                          /\ IF Map!Exists(pending, o.id)
                             THEN arg' = [arg EXCEPT ![p] = {Adopted(o)}] /\ Goto(p, "insertPending")
                             ELSE UNCHANGED arg /\ Goto(p, "insert")
                          /\ UNCHANGED <<placed, feed, orders, pending, history>>
  BY DEF AddOrder, exchangeVars, bookVars
<1>2. Busy(p) /\ pc[p] \notin AfterInsert \cup Adopting \cup {"emit", "settle", "update", "pend"} /\ pc[p] \in Ahead
  BY <1>1 DEF Busy, Stopped, Ahead, Adopting, AfterInsert
<1>3. /\ o \in Known /\ o.id = p /\ p \in Orders /\ o \in Records /\ arg[p] \subseteq Records
  <2>1. p \in Orders
    BY <1>1 DEF EventInv, ControlInv, Adding
  <2> QED
    BY <2>1, InHand
<1>4. pending \in KnownMap /\ pending.removal = {} /\ orders.removal = {}
      /\ \A r, t \in pending.orders : r.id = t.id => r = t
  BY BookTypes DEF Types, BacktestInv, NothingDelayed
<1>5. ASSUME Map!Exists(pending, p)
      PROVE  /\ Map!Get(pending, p) \in pending.orders /\ Adopted(o) \in Records /\ Adopted(o).id = p
             /\ \A r \in pending.orders : r.id = p => Map!Get(pending, p) = r
  BY <1>3, <1>4, <1>5, GetFinds DEF Adopted, Records
<1>6. PICK l, S : /\ Moves(p, l, S) /\ S \subseteq Records /\ l \in {"insert", "insertPending"}
                  /\ Map!Exists(pending, p) => l = "insertPending" /\ S = {Adopted(o)}
                  /\ ~Map!Exists(pending, p) => l = "insert"
                  /\ \A r \in S : r.id = p
  <2>1. CASE Map!Exists(pending, p)
    <3>1. Moves(p, "insertPending", {Adopted(o)})
      BY <1>1, <1>3, <2>1 DEF Moves, Goto
    <3>2. {Adopted(o)} \subseteq Records /\ \A r \in {Adopted(o)} : r.id = p
      BY <1>5, <2>1
    <3> QED
      BY <2>1, <3>1, <3>2
  <2>2. CASE ~Map!Exists(pending, p)
    <3>1. Moves(p, "insert", arg[p])
      BY <1>1, <1>3, <2>2, BookTypes, GotoMoves
    <3>2. \A r \in arg[p] : r.id = p
      BY <1>3, InHand
    <3> QED
      BY <1>3, <2>2, <3>1, <3>2
  <2> QED
    BY <2>1, <2>2
<1>7. ASSUME HasStatus(p, "Filled"), \E r \in pending.orders : IsFill(r, p)
      PROVE  Coming(p)'
  <2>1. PICK r \in pending.orders : IsFill(r, p)
    BY <1>7
  <2>2. Map!Exists(pending, p)
    BY <2>1 DEF Map!Exists, Map!Ids, IsFill
  <2>3. Map!Get(pending, p) = r
    BY <1>5, <2>1, <2>2 DEF IsFill
  <2>4. o.status \in Open \cup {"Filled"}
    BY <1>3, <1>7, FillIs DEF IsFill
  <2>5. Adopted(o) = r
    BY <1>3, <2>1, <2>3, <2>4 DEF Adopted, IsNewerOrderUpdate, NewerByStatus, IsFill
  <2>6. pc'[p] = "insertPending" /\ arg'[p] = {r}
    BY <1>6, <2>2, <2>5, BookTypes DEF Moves, Types
  <2> QED
    BY <2>1, <2>6 DEF Coming, HasFill, Adopting
<1>8. ASSUME NEW id \in Orders, HasStatus(id, "Filled")
      PROVE  InBookUntilAnnounced(id)' /\ (pc'[id] \in Ahead \cup AfterInsert => Coming(id)')
  <2>1. l \notin AfterInsert
    BY <1>6 DEF AfterInsert
  <2> QED
    BY <1>1, <1>2, <1>6, <1>7, <1>8, <2>1, FillsStay
<1>9. \A r \in S : /\ l = "settle" => Map!Exists(orders', r.id)
                   /\ l \in Adopting => Map!Exists(pending', r.id)
                   /\ l \in {"update", "pend"} /\ (\E t \in pending'.orders : IsFill(t, r.id))
                          => r.status \notin Open
  BY <1>1, <1>6 DEF Adopting
<1>10. pending'.orders \subseteq Records
  BY <1>1 DEF Records
<1> QED
  BY <1>1, <1>2, <1>4, <1>6, <1>8, <1>9, <1>10, BusyStep

LEMMA InsertKeepsFills ==
    ASSUME BookInv, EventInv, BacktestInv, NEW p \in Threads, Insert(p)
    PROVE  BacktestInv'
<1>1. PICK o \in arg[p], l \in {"sweepPending", "sweep"} :
          /\ pc[p] \in {"insertPending", "insert"} /\ Moves(p, l, arg[p])
          /\ l = "sweepPending" <=> pc[p] = "insertPending"
          /\ orders' = Map!AddOrder(orders, o)
          /\ UNCHANGED <<placed, feed, pending, history>>
  BY BookTypes, GotoMoves DEF Insert, InsertAny, exchangeVars
<1>2. Busy(p) /\ pc[p] \notin AfterInsert \cup {"emit", "settle", "update", "pend", "add"} /\ pc[p] \in Ahead
  BY <1>1 DEF Busy, Stopped, Ahead, AfterInsert
<1>3. o \in Known /\ o.id = p /\ p \in Orders /\ arg[p] \subseteq Records /\ \A r \in arg[p] : r = o
  <2>1. p \in Orders
    BY <1>1 DEF EventInv, ControlInv, Adding
  <2> QED
    BY <2>1, InHand
<1>4. orders'.removal = {} /\ Map!Ids(orders') = Map!Ids(orders) \cup {p}
  BY <1>1, <1>3, BookTypes, MapRemoval, MapIds DEF Types, BacktestInv, NothingDelayed
<1>5. pc'[p] = l /\ arg'[p] = arg[p]
  BY <1>1, BookTypes DEF Moves, Types
<1>6. ASSUME NEW id \in Orders, HasStatus(id, "Filled")
      PROVE  InBookUntilAnnounced(id)' /\ (pc'[id] \in Ahead \cup AfterInsert => Coming(id)')
  <2>1. FillKept(id)
    BY DEF BacktestInv
  <2>2. InBookUntilAnnounced(id)'
    <3>1. CASE id = p
      BY <1>4, <3>1 DEF InBookUntilAnnounced, Map!Ids
    <3>2. CASE id # p
      BY <1>1, <1>4, <1>6, <2>1, <3>2, StillInBook DEF FillKept
    <3> QED
      BY <3>1, <3>2
  <2>3. ASSUME pc'[id] \in Ahead \cup AfterInsert  PROVE Coming(id)'
    <3>1. pc[id] \in Ahead \cup AfterInsert
      BY <1>1, <1>2, <2>3, BookTypes DEF Moves, Types, Threads
    <3>2. Coming(id)
      BY <1>6, <2>1, <3>1 DEF FillKept
    <3>3. pc[p] \in Adopting /\ HasFill(p, id) => Coming(id)'
      BY <1>1, <1>5 DEF Coming, HasFill, Adopting
    <3> QED
      BY <1>1, <1>2, <3>2, <3>3, StillComing DEF history
  <2> QED
    BY <2>2, <2>3
<1>7. \A r \in arg[p] : l \in Adopting => Map!Exists(pending', r.id)
  BY <1>1 DEF Adopting, BacktestInv, StillThere
<1>8. /\ pending'.removal = {} /\ pending'.orders \subseteq Records
      /\ \A r, t \in pending'.orders : r.id = t.id => r = t
  BY <1>1 DEF BacktestInv, NothingDelayed, Records
<1> QED
  BY <1>1, <1>2, <1>3, <1>4, <1>6, <1>7, <1>8, BusyStep

LEMMA SweepKeepsFills ==
    ASSUME BookInv, EventInv, BacktestInv, NEW p \in Threads, Sweep(p)
    PROVE  BacktestInv'
<1>1. orders' = orders /\ pc[p] \in {"sweepPending", "sweep"} /\ UNCHANGED <<placed, feed, pending, history>>
  BY BookTypes, MapRemoval DEF Sweep, exchangeVars, Types, BacktestInv, NothingDelayed
<1>2. Busy(p) /\ pc[p] \notin {"emit", "settle", "update", "pend", "add"} /\ pc[p] \in AfterInsert
  BY <1>1 DEF Busy, Stopped, AfterInsert
<1>3. PICK l, S : /\ Moves(p, l, S) /\ l \notin {"settle", "update", "pend"}
                  /\ pc[p] = "sweepPending" => l = "dropPending" /\ S = arg[p]
                  /\ pc[p] = "sweep" => l \notin Adopting /\ S = {}
  <2>1. CASE pc[p] = "sweepPending"
    BY <2>1, BookTypes, GotoMoves DEF Sweep
  <2>2. CASE pc[p] = "sweep"
    BY <2>2, ReturnMoves DEF Sweep, Adopting, Resume
  <2> QED
    BY <1>1, <2>1, <2>2
<1>4. pc'[p] = l /\ arg'[p] = S
  BY <1>3, BookTypes DEF Moves, Types
<1>5. ASSUME NEW id \in Orders, HasStatus(id, "Filled")
      PROVE  InBookUntilAnnounced(id)' /\ (pc'[id] \in Ahead \cup AfterInsert => Coming(id)')
  <2>1. pc[p] \in Adopting /\ HasFill(p, id) => Coming(id)'
    BY <1>1, <1>3, <1>4 DEF Coming, HasFill, Adopting
  <2> QED
    BY <1>1, <1>2, <1>3, <1>5, <2>1, FillsStay
<1>6. S \subseteq Records
  BY <1>1, <1>3 DEF Records
<1>7. \A r \in S : l \in Adopting => Map!Exists(pending', r.id)
  BY <1>1, <1>3 DEF Adopting, BacktestInv, StillThere
<1>8. /\ pending'.removal = {} /\ pending'.orders \subseteq Records /\ orders'.removal = {}
      /\ \A r, t \in pending'.orders : r.id = t.id => r = t
  BY <1>1 DEF BacktestInv, NothingDelayed, Records
<1> QED
  BY <1>1, <1>2, <1>3, <1>5, <1>6, <1>7, <1>8, BusyStep

LEMMA DropKeepsFills ==
    ASSUME BookInv, EventInv, BacktestInv, NEW p \in Threads, DropPending(p)
    PROVE  BacktestInv'
<1>1. PICK o \in arg[p] : /\ pc[p] = "dropPending"
                          /\ pending' = Map!Remove(pending, o.id)
                          /\ IF o.status = "New" THEN Return(p) ELSE Goto(p, "update") /\ UNCHANGED arg
                          /\ UNCHANGED <<placed, feed, orders, history>>
  BY DEF DropPending, exchangeVars
<1>2. Busy(p) /\ pc[p] \notin {"emit", "settle", "update", "pend", "add"} /\ pc[p] \in AfterInsert
  BY <1>1 DEF Busy, Stopped, AfterInsert
<1>3. /\ o \in Known /\ o.id = p /\ p \in Orders /\ arg[p] \subseteq Records /\ \A r \in arg[p] : r = o
      /\ \A id : HasFill(p, id) <=> IsFill(o, id)
  <2>1. p \in Orders
    BY <1>1 DEF EventInv, ControlInv, Adding
  <2> QED
    BY <2>1, InHand
<1>4. PICK l, S : /\ Moves(p, l, S) /\ S \subseteq arg[p] /\ l \notin {"settle", "pend"} \cup Adopting
                  /\ o.status # "New" => l = "update" /\ S = arg[p]
  <2>1. CASE o.status # "New"
    BY <1>1, <2>1, BookTypes, GotoMoves DEF Adopting
  <2>2. CASE o.status = "New"
    BY <1>1, <2>2, ReturnMoves DEF Adopting, Resume
  <2> QED
    BY <2>1, <2>2
<1>5. Map!Exists(pending, p)
  BY <1>1, <1>3 DEF BacktestInv, StillThere, Adopting
<1>6. pending'.orders = {r \in pending.orders : r.id # p} /\ pending'.removal = {}
  BY <1>1, <1>3, <1>5, BookTypes, MapRemoval DEF Types, BacktestInv, NothingDelayed
<1>7. pc'[p] = l /\ arg'[p] = S
  BY <1>4, BookTypes DEF Moves, Types
<1>8. ASSUME NEW id \in Orders, HasStatus(id, "Filled")
      PROVE  InBookUntilAnnounced(id)' /\ (pc'[id] \in Ahead \cup AfterInsert => Coming(id)')
  <2>1. HasFill(p, id) => Coming(id)'
    BY <1>3, <1>4, <1>7 DEF Coming, HasFill, IsFill
  <2>2. p # id /\ (\E r \in pending.orders : IsFill(r, id)) => \E r \in pending'.orders : IsFill(r, id)
    BY <1>6 DEF IsFill
  <2> QED
    BY <1>1, <1>2, <1>4, <1>8, <2>1, <2>2, FillsStay
<1>9. \A r \in S : ~\E t \in pending'.orders : IsFill(t, r.id)
  BY <1>3, <1>4, <1>6 DEF IsFill
<1>10. /\ pending'.orders \subseteq Records /\ orders'.removal = {} /\ S \subseteq Records
       /\ \A r, t \in pending'.orders : r.id = t.id => r = t
  BY <1>1, <1>3, <1>4, <1>6 DEF BacktestInv, NothingDelayed, Records
<1> QED
  BY <1>1, <1>2, <1>4, <1>6, <1>8, <1>9, <1>10, BusyStep

LEMMA BookKeepsFills ==
    ASSUME BookInv, EventInv, BacktestInv, NEW p \in Threads, Book(p)
    PROVE  BacktestInv'
  BY UpdateKeepsFills, PendKeepsFills, ReturnKeepsFills, CloseKeepsFills, EmitKeepsFills, AddKeepsFills,
     InsertKeepsFills, SweepKeepsFills, DropKeepsFills DEF Book

-----------------------------------------------------------------------------
(* The exchange changes an open order: nobody has seen it filled, and if it is
   filled now, the update says so. *)
LEMMA BecomesKeepsFills ==
    ASSUME BookInv, BookInv', EventInv, TrackedInv, BacktestInv, NEW o \in placed, o.status \in Open,
           NEW status, NEW executed, Becomes(o, status, executed),
           UNCHANGED <<bookVars, pc, arg, history>>
    PROVE  BacktestInv'
<1> DEFINE new == [o EXCEPT !.status = status, !.executed = executed, !.time = @ + 1]
<1>1. placed' = (placed \ {o}) \cup {new} /\ feed' = Append(feed, new)
  BY DEF Becomes
<1>2. o \in Order /\ o.id \in Orders /\ feed \in Seq(Known) /\ \A q \in placed : q.id = o.id => q = o
  BY DEF BookInv, KnownOK, PlacedOK, Order
<1>3. new.id = o.id /\ new.status = status
  BY <1>2 DEF Order
<1> HIDE DEF new
<1>4. \A i \in DOMAIN feed : feed[i].id = o.id => feed[i].status \in Open
  <2>1. SUFFICES ASSUME NEW i \in DOMAIN feed, feed[i].id = o.id, feed[i].status \notin Open  PROVE FALSE
    OBVIOUS
  <2>2. feed[i] \in Known
    BY <1>2
  <2> QED
    BY <1>2, <2>1, <2>2 DEF Known
<1>5. /\ DOMAIN feed' = 1 .. Len(feed) + 1 /\ DOMAIN feed = 1 .. Len(feed) /\ Len(feed) \in Nat
      /\ feed'[Len(feed) + 1] = new /\ \A i \in DOMAIN feed : feed'[i] = feed[i]
  BY <1>1, <1>2
<1>6. ClosedLast'
  <2>1. SUFFICES ASSUME NEW i \in DOMAIN feed', NEW j \in DOMAIN feed', i < j, feed'[i].id = feed'[j].id
                 PROVE  feed'[i].status \in Open
    BY DEF ClosedLast
  <2>2. i \in DOMAIN feed /\ (j \in DOMAIN feed \/ j = Len(feed) + 1)
    BY <1>5, <2>1
  <2>3. CASE j \in DOMAIN feed
    BY <1>5, <2>1, <2>2, <2>3 DEF BacktestInv, ClosedLast
  <2>4. CASE j = Len(feed) + 1
    BY <1>3, <1>4, <1>5, <2>1, <2>2, <2>4
  <2> QED
    BY <2>2, <2>3, <2>4
<1>7. NoneBehind'
  <2>1. SUFFICES ASSUME NEW i \in DOMAIN feed', NEW r \in Records, IsFill(r, feed'[i].id)
                 PROVE  feed'[i].status \notin Open
    BY DEF NoneBehind, Records, bookVars
  <2>2. CASE i \in DOMAIN feed
    BY <1>5, <2>1, <2>2 DEF BacktestInv, NoneBehind
  <2>3. CASE i = Len(feed) + 1
    BY <1>3, <1>5, <2>1, <2>3, NoFillOfOpen, RecordsKnown
  <2> QED
    BY <1>5, <2>2, <2>3
<1>8. ASSUME NEW id \in Orders, HasStatus(id, "Filled")'
      PROVE  InBookUntilAnnounced(id)' /\ (pc'[id] \in Ahead \cup AfterInsert => Coming(id)')
  <2>1. CASE id = o.id
    <3>1. new.status = "Filled"
      <4>1. \A q \in placed' : q.id = id => q = new
        BY <1>1, <1>2, <1>3, <2>1
      <4> QED
        BY <1>8, <4>1 DEF HasStatus
    <3>2. Coming(id)'
      BY <1>3, <1>5, <2>1, <3>1 DEF Coming, IsFill
    <3>3. id \notin ClosedIDs
      BY <2>1 DEF ClosedIDs, IsOpen
    <3>4. pc[id] \in AfterInsert => id \in Map!Ids(orders)
      BY <3>3 DEF TrackedInv, Map!Exists
    <3> QED
      BY <3>2, <3>4 DEF InBookUntilAnnounced, Map!Ids, bookVars
  <2>2. CASE id # o.id
    <3>1. HasStatus(id, "Filled")
      BY <1>1, <1>3, <1>8, <2>2 DEF HasStatus
    <3>2. FillKept(id)
      BY DEF BacktestInv
    <3>3. InBookUntilAnnounced(id)'
      BY <3>1, <3>2 DEF FillKept, InBookUntilAnnounced, Announced, Working, Map!Ids, bookVars, history
    <3>4. Coming(id) => Coming(id)'
      BY <1>5 DEF Coming, HasFill, bookVars, history
    <3> QED
      BY <3>1, <3>2, <3>3, <3>4 DEF FillKept
  <2> QED
    BY <2>1, <2>2
<1>9. OneAtATime' /\ NothingDelayed' /\ StillThere' /\ NotReplaced'
  BY DEF BacktestInv, OneAtATime, Busy, NothingDelayed, StillThere, NotReplaced, Map!Exists, Map!Ids, bookVars
<1>10. \A id \in Orders : FillKept(id)'
  BY <1>8 DEF FillKept
<1> QED
  BY <1>6, <1>7, <1>9, <1>10 DEF BacktestInv

(* A submitter begins, or learns what became of its request. *)
LEMMA SubmitKeepsFills ==
    ASSUME BookInv, BookInv', EventInv, BacktestInv, setting.backtest, NEW id \in Orders,
           Submitting(id)
    PROVE  BacktestInv'
<1>1. PICK l \in {"add", "lost"} : /\ pc[id] = "sent" /\ Moves(id, l, arg[id])
                                   /\ l = "add" => \A q \in Threads \ {id} : ~Busy(q)
                                   /\ UNCHANGED <<placed, feed, bookVars, history>>
  <2>1. id \in Threads
    BY DEF Threads
  <2>2. CASE Respond(id)
    <3>1. \A q \in Threads \ {id} : ~Busy(q)
      BY <2>2 DEF Respond, MayEnter, Busy
    <3> QED
      BY <2>1, <2>2, <3>1, BookTypes, GotoMoves DEF Respond, exchangeVars
  <2>3. CASE ResponseLost(id)
    BY <2>1, <2>3, BookTypes, GotoMoves DEF ResponseLost, exchangeVars
  <2> QED
    BY <2>2, <2>3 DEF Submitting
<1>2. id \in Threads /\ id \notin AllCancelers
  BY BookAssumption DEF Threads
<1>3. /\ pc'[id] = l /\ UNCHANGED arg
      /\ \A q \in Threads \ {id} : pc'[q] = pc[q]
  BY <1>1, <1>2, BookTypes DEF Moves, Types
<1>4. OneAtATime'
  <2>1. (\A q \in AllCancelers : pc[q] = "absent") /\ AllCancelers \subseteq Threads
    BY DEF BacktestInv, OneAtATime, Threads
  <2>2. \A q \in AllCancelers : pc'[q] = "absent"
    BY <1>2, <1>3, <2>1
  <2>3. \A q, r \in Threads : Busy(q)' /\ Busy(r)' => q = r
    <3>1. \A q \in Threads \ {id} : Busy(q)' <=> Busy(q)
      BY <1>3 DEF Busy
    <3>2. CASE l = "add"
      BY <1>1, <3>1, <3>2
    <3>3. CASE l = "lost"
      <4>1. ~Busy(id)'
        BY <1>3, <3>3 DEF Busy, Stopped
      <4> QED
        BY <3>1, <4>1 DEF BacktestInv, OneAtATime
    <3> QED
      BY <3>2, <3>3
  <2> QED
    BY <2>2, <2>3 DEF OneAtATime
<1>5. Records' = Records /\ NothingDelayed'
  BY <1>1, <1>3 DEF Records, BacktestInv, NothingDelayed, bookVars
<1>6. StillThere' /\ NotReplaced'
  BY <1>1, <1>3 DEF BacktestInv, StillThere, NotReplaced, Adopting, Map!Exists, Map!Ids, bookVars
<1>7. ClosedLast' /\ NoneBehind'
  BY <1>1, <1>5 DEF BacktestInv, ClosedLast, NoneBehind
<1>8. ASSUME NEW other \in Orders, HasStatus(other, "Filled")
      PROVE  InBookUntilAnnounced(other)' /\ (pc'[other] \in Ahead \cup AfterInsert => Coming(other)')
  <2>1. FillKept(other) /\ other \in Threads
    BY DEF BacktestInv, Threads
  <2>2. InBookUntilAnnounced(other)'
    <3>1. l \notin AfterInsert
      BY DEF AfterInsert
    <3>2. UNCHANGED orders
      BY <1>1 DEF bookVars
    <3> QED
      BY <1>1, <1>2, <1>8, <2>1, <3>1, <3>2, StillInBook DEF FillKept
  <2>3. ASSUME pc'[other] \in Ahead \cup AfterInsert  PROVE Coming(other)'
    <3>1. pc[other] \in Ahead \cup AfterInsert
      BY <1>1, <1>3, <2>1, <2>3 DEF Ahead
    <3>2. Coming(other)
      BY <1>8, <2>1, <3>1 DEF FillKept
    <3>3. \A q \in Threads : pc[q] \in Adopting \cup {"update", "settle", "emit", "pend"} => pc'[q] = pc[q]
      BY <1>1, <1>3 DEF Adopting
    <3>4. pc[other] \in {"sent", "add"} => pc'[other] \in {"sent", "add"}
      BY <1>1, <1>3, <2>1, <2>3 DEF Ahead, AfterInsert
    <3> QED
      BY <1>1, <1>3, <3>2, <3>3, <3>4 DEF Coming, HasFill, bookVars, history
  <2> QED
    BY <2>2, <2>3
<1>9. \A other \in Orders : FillKept(other)'
  BY <1>1, <1>8 DEF FillKept, HasStatus
<1> QED
  BY <1>4, <1>5, <1>6, <1>7, <1>9 DEF BacktestInv

(* The stream hands over an update: what it says of the order last is a fill if
   there is one. *)
LEMMA ReceiveKeepsFills ==
    ASSUME BookInv, BookInv', EventInv, BacktestInv, setting.backtest, NEW p \in Streams, Receive(p)
    PROVE  BacktestInv'
<1> DEFINE o == Head(feed)
<1>1. /\ pc[p] = "idle" /\ Moves(p, "update", {o}) /\ feed # <<>> /\ \A q \in Threads \ {p} : ~Busy(q)
      /\ UNCHANGED <<placed, bookVars, history>>
      /\ UNCHANGED feed \/ feed' = Tail(feed)
  BY DEF Receive, Goto, Moves, MayEnter, Busy
<1>2. p \in Threads /\ p \notin AllCancelers /\ p \notin Orders
  BY BookAssumption DEF Threads
<1>3. feed \in Seq(Known) /\ o \in Known /\ 1 \in DOMAIN feed /\ feed[1] = o
  BY <1>1 DEF BookInv, KnownOK
<1>4. /\ \A i \in DOMAIN feed' : \E j \in DOMAIN feed : feed'[i] = feed[j] /\ (feed' = Tail(feed) => j > 1)
      /\ feed' = Tail(feed) => \A i \in DOMAIN feed : i = 1 \/ \E j \in DOMAIN feed' : feed'[j] = feed[i]
  <2>1. CASE UNCHANGED feed /\ feed' # Tail(feed)
    BY <2>1
  <2>2. CASE feed' = Tail(feed)
    <3>1. DOMAIN feed = 1 .. Len(feed) /\ Len(feed) \in Nat /\ DOMAIN feed' = 1 .. Len(feed) - 1
          /\ \A i \in 1 .. Len(feed) - 1 : feed'[i] = feed[i + 1]
      BY <1>1, <1>3, <2>2
    <3>2. \A i \in 1 .. Len(feed) - 1 : i + 1 \in 1 .. Len(feed) /\ i + 1 > 1
      BY <3>1
    <3>3. \A i \in 1 .. Len(feed) : i # 1 => i - 1 \in 1 .. Len(feed) - 1 /\ feed'[i - 1] = feed[i]
      BY <3>1
    <3> QED
      BY <3>1, <3>2, <3>3
  <2> QED
    BY <1>1, <2>1, <2>2
<1>5. pc'[p] = "update" /\ arg'[p] = {o} /\ \A q \in Threads \ {p} : pc'[q] = pc[q] /\ arg'[q] = arg[q]
  BY <1>1, <1>2, BookTypes DEF Moves, Types
<1> HIDE DEF o
<1>6. NoneBehind'
  <2>1. SUFFICES ASSUME NEW i \in DOMAIN feed', NEW r \in Records', IsFill(r, feed'[i].id)
                 PROVE  feed'[i].status \notin Open
    BY DEF NoneBehind
  <2>2. PICK j \in DOMAIN feed : feed'[i] = feed[j] /\ (feed' = Tail(feed) => j > 1)
    BY <1>4
  <2>3. r \in Records \/ r = o
    BY <1>1, <1>5 DEF Records, bookVars
  <2>4. CASE r \in Records
    BY <2>1, <2>2, <2>4 DEF BacktestInv, NoneBehind
  <2>5. CASE r = o
    <3>1. feed[1].status \notin Open /\ feed[1].id = feed[j].id
      BY <1>3, <2>1, <2>2, <2>5 DEF IsFill, Open
    <3>2. j \in Nat /\ j >= 1
      BY <1>3
    <3>3. CASE j = 1
      BY <2>2, <3>1, <3>3
    <3>4. CASE j > 1
      BY <1>3, <3>1, <3>4 DEF BacktestInv, ClosedLast
    <3> QED
      BY <3>2, <3>3, <3>4
  <2> QED
    BY <2>3, <2>4, <2>5
<1>7. (\E r \in pending'.orders : IsFill(r, o.id)) => o.status \notin Open
  <2>1. pending'.orders \subseteq Records
    BY <1>1 DEF Records, bookVars
  <2> QED
    BY <1>3, <2>1 DEF BacktestInv, NoneBehind
<1>8. ASSUME NEW id \in Orders, HasStatus(id, "Filled")
      PROVE  InBookUntilAnnounced(id)' /\ (pc'[id] \in Ahead \cup AfterInsert => Coming(id)')
  <2>1. FillKept(id) /\ id \in Threads /\ id # p
    BY <1>2 DEF BacktestInv, Threads
  <2>2. InBookUntilAnnounced(id)'
    BY <1>1, <1>2, <1>8, <2>1, StillInBook DEF FillKept, bookVars
  <2>3. ASSUME pc'[id] \in Ahead \cup AfterInsert  PROVE Coming(id)'
    <3>1. Coming(id) /\ pc'[id] = pc[id]
      BY <1>5, <1>8, <2>1, <2>3 DEF FillKept
    <3>2. CASE \E i \in DOMAIN feed : IsFill(feed[i], id)
      <4>1. PICK i \in DOMAIN feed : IsFill(feed[i], id)
        BY <3>2
      <4>2. CASE UNCHANGED feed
        BY <4>1, <4>2 DEF Coming
      <4>3. CASE feed' = Tail(feed) /\ i = 1
        BY <1>2, <1>3, <1>5, <4>1, <4>3 DEF Coming, HasFill
      <4>4. CASE feed' = Tail(feed) /\ i # 1
        BY <1>4, <4>1, <4>4 DEF Coming
      <4> QED
        BY <1>1, <4>2, <4>3, <4>4
    <3>3. \A q \in Threads : pc[q] \in Adopting \cup {"update", "settle", "emit", "pend"}
              => pc'[q] = pc[q] /\ arg'[q] = arg[q]
      BY <1>1, <1>5 DEF Adopting
    <3> QED
      BY <1>1, <3>1, <3>2, <3>3 DEF Coming, HasFill, bookVars, history
  <2> QED
    BY <2>2, <2>3
<1>9. /\ orders'.removal = {} /\ pending'.removal = {}
      /\ \A r, t \in pending'.orders : r.id = t.id => r = t
  BY <1>1 DEF BacktestInv, NothingDelayed, bookVars
<1>10. "update" \notin Adopting
  BY DEF Adopting
<1>11. UNCHANGED placed /\ (UNCHANGED feed \/ (feed # <<>> /\ feed' = Tail(feed)))
  BY <1>1
<1> QED
  BY <1>1, <1>2, <1>6, <1>7, <1>8, <1>9, <1>10, <1>11, OnlyOne

(* A new order: nothing is known of it yet. *)
LEMMA PlaceKeepsFills ==
    ASSUME BookInv, BookInv', EventInv, BacktestInv, setting.backtest, NEW id \in Orders, Place(id)
    PROVE  BacktestInv'
<1> DEFINE new == Created(id)
<1>1. /\ pc[id] = "idle" /\ Moves(id, "sent", {new}) /\ \A q \in Threads \ {id} : ~Busy(q)
      /\ placed' = placed \cup {new} /\ feed' = Append(feed, new) /\ UNCHANGED <<bookVars, history>>
  BY DEF Place, Goto, Moves, MayEnter, Busy
<1>2. id \in Threads /\ id \notin AllCancelers /\ new.id = id /\ new.status = "New"
  BY BookAssumption DEF Threads, Created
<1> HIDE DEF new
<1>3. feed \in Seq(Known) /\ \A r \in Known : r.id # id
  <2>1. \A o \in placed : o.id # id
    BY <1>1 DEF BookInv, PlacedOK
  <2> QED
    BY <2>1 DEF BookInv, KnownOK, Known, KnownIDs, IsPlaced
<1>4. /\ DOMAIN feed' = 1 .. Len(feed) + 1 /\ DOMAIN feed = 1 .. Len(feed) /\ Len(feed) \in Nat
      /\ feed'[Len(feed) + 1] = new
      /\ \A i \in DOMAIN feed : feed'[i] = feed[i] /\ feed[i].id # id
  BY <1>1, <1>3
<1>5. ClosedLast'
  <2>1. SUFFICES ASSUME NEW i \in DOMAIN feed', NEW j \in DOMAIN feed', i < j, feed'[i].id = feed'[j].id
                 PROVE  feed'[i].status \in Open
    BY DEF ClosedLast
  <2>2. i \in DOMAIN feed /\ (j \in DOMAIN feed \/ j = Len(feed) + 1)
    BY <1>4, <2>1
  <2>3. j \in DOMAIN feed
    BY <1>2, <1>4, <2>1, <2>2
  <2> QED
    BY <1>4, <2>1, <2>2, <2>3 DEF BacktestInv, ClosedLast
<1>6. pc'[id] = "sent" /\ arg'[id] = {new} /\ \A q \in Threads \ {id} : pc'[q] = pc[q] /\ arg'[q] = arg[q]
  BY <1>1, <1>2, BookTypes DEF Moves, Types
<1>7. Records' \subseteq Records \cup {new}
  BY <1>1, <1>6 DEF Records, bookVars
<1>8. NoneBehind'
  <2>1. SUFFICES ASSUME NEW i \in DOMAIN feed', NEW r \in Records', IsFill(r, feed'[i].id)
                 PROVE  feed'[i].status \notin Open
    BY DEF NoneBehind
  <2>2. r # new
    BY <1>2, <2>1 DEF IsFill
  <2>3. r \in Records /\ r \in Known
    BY <1>7, <2>2, RecordsKnown
  <2>4. feed'[i] # new
    BY <1>2, <1>3, <2>1, <2>3 DEF IsFill
  <2>5. i \in DOMAIN feed
    BY <1>4, <2>4
  <2> QED
    BY <1>4, <2>1, <2>3, <2>5 DEF BacktestInv, NoneBehind
<1>9. OneAtATime'
  BY <1>1, <1>2, BookTypes, AloneStep DEF BacktestInv
<1>10. NothingDelayed'
  BY <1>1 DEF BacktestInv, NothingDelayed, bookVars
<1>11. StillThere' /\ NotReplaced'
  <2>1. \A q \in Threads \ {id} : pc'[q] \in Stopped \cup {"sent"}
    BY <1>1, <1>6 DEF Busy
  <2> QED
    BY <1>6, <2>1 DEF StillThere, NotReplaced, Adopting, Stopped
<1>12. ASSUME NEW other \in Orders, HasStatus(other, "Filled")'
       PROVE  InBookUntilAnnounced(other)' /\ (pc'[other] \in Ahead \cup AfterInsert => Coming(other)')
  <2>1. HasStatus(other, "Filled")
    BY <1>1, <1>2, <1>12 DEF HasStatus
  <2>2. other # id /\ FillKept(other) /\ other \in Threads
    BY <1>1, <2>1 DEF HasStatus, BookInv, PlacedOK, BacktestInv, Threads
  <2>3. InBookUntilAnnounced(other)'
    BY <1>1, <1>2, <2>1, <2>2, StillInBook DEF FillKept, bookVars
  <2>4. ASSUME pc'[other] \in Ahead \cup AfterInsert  PROVE Coming(other)'
    <3>1. Coming(other) /\ pc'[other] = pc[other]
      BY <1>6, <2>1, <2>2, <2>4 DEF FillKept
    <3>2. \A q \in Threads : pc[q] \in Adopting \cup {"update", "settle", "emit", "pend"}
              => pc'[q] = pc[q] /\ arg'[q] = arg[q]
      BY <1>1, <1>6 DEF Adopting
    <3>3. (\E i \in DOMAIN feed : IsFill(feed[i], other)) => \E i \in DOMAIN feed' : IsFill(feed'[i], other)
      BY <1>4
    <3> QED
      BY <1>1, <3>1, <3>2, <3>3 DEF Coming, HasFill, bookVars, history
  <2> QED
    BY <2>3, <2>4
<1>13. \A other \in Orders : FillKept(other)'
  BY <1>12 DEF FillKept
<1> QED
  BY <1>5, <1>8, <1>9, <1>10, <1>11, <1>13 DEF BacktestInv

-----------------------------------------------------------------------------
LEMMA InitFills ==
    ASSUME BacktestAlone, Init, setting.backtest
    PROVE  BacktestInv
<1>1. /\ \A p \in Threads : pc[p] \in {"done", "idle", "absent"} /\ arg[p] = {}
      /\ \A p \in AllCancelers : pc[p] = "absent"
  BY BookAssumption DEF Init, BacktestAlone, Setting, Threads
<1>2. \A p \in Threads : ~Busy(p)
  BY <1>1 DEF Busy, Stopped
<1>3. orders.removal = {} /\ pending = [orders |-> {}, removal |-> {}] /\ feed = <<>>
      /\ \A o \in placed : o.status = "New"
  BY DEF Init, Map!Empty, Created
<1>4. OneAtATime /\ NothingDelayed
  BY <1>1, <1>2, <1>3 DEF OneAtATime, NothingDelayed
<1>5. StillThere /\ NotReplaced /\ ClosedLast /\ NoneBehind
  BY <1>1, <1>3 DEF StillThere, NotReplaced, ClosedLast, NoneBehind
<1>6. \A id \in Orders : FillKept(id)
  BY <1>3 DEF FillKept, HasStatus
<1> QED
  BY <1>4, <1>5, <1>6 DEF BacktestInv

LEMMA NextFills ==
    ASSUME Syncers = {}, BookInv, BookInv', EventInv, TrackedInv, BacktestInv, setting.backtest, [Next]_vars
    PROVE  BacktestInv'
<1>1. \A p \in AllCancelers : pc[p] = "absent"
  BY DEF BacktestInv, OneAtATime
<1>2. CASE UNCHANGED vars
  BY <1>2 DEF vars, moving, exchangeVars, bookVars, history, BacktestInv, OneAtATime, Busy, NothingDelayed,
              StillThere, Map!Exists, Map!Ids, ClosedLast, NoneBehind, Records, NotReplaced, FillKept, HasStatus,
              InBookUntilAnnounced, Announced, Working, Coming, HasFill
<1>3. CASE Next
  <2>1. ASSUME NEW o \in placed, Fill(o) \/ Expire(o) \/ Age(o)  PROVE BacktestInv'
    <3>1. \E status, executed : o.status \in Open /\ Becomes(o, status, executed)
      BY <2>1 DEF Fill, Expire, Age, Open
    <3> QED
      BY <2>1, <3>1, BecomesKeepsFills DEF Fill, Expire, Age
  <2>2. ASSUME NEW p \in AllCancelers, CancelOne(p) \/ Graceful(p) \/ Fast(p) \/ CancelReturns(p)  PROVE FALSE
    BY <1>1, <2>2 DEF CancelOne, Graceful, GracefulCancel, Cleared, NotCleared, Interrupted, QueryOpenOrders,
                      QueryOpenOrdersFails, RemoveVerified, TryAgain, Fast, FastCancel, RemoveFast,
                      FastCancelReturns, CancelReturns
  <2>3. ASSUME NEW id \in Orders, Place(id) \/ Submitting(id)  PROVE BacktestInv'
    BY <2>3, PlaceKeepsFills, SubmitKeepsFills
  <2>4. ASSUME NEW p \in Streams, Receive(p)  PROVE BacktestInv'
    BY <2>4, ReceiveKeepsFills
  <2>5. ASSUME NEW p \in Threads, Book(p)  PROVE BacktestInv'
    BY <2>5, BookKeepsFills
  <2> QED
    BY <1>3, <2>1, <2>2, <2>3, <2>4, <2>5 DEF Next, External, AllCancelers
<1> QED
  BY <1>2, <1>3

(* In a back-test, where the callbacks of the stream run inside the goroutine
   that submits orders, every fill of an order that was added is announced
   exactly once and the order leaves the book, even if the fill came before the
   order was added, for any number of orders and repeated updates. *)
THEOREM FillAnnouncedInvariant == Syncers = {} /\ BacktestAlone => (Spec => []FillAnnounced)
<1> DEFINE Inv == /\ BookInv /\ OwnWork /\ EventInv
                  /\ FastIdle => CancelInv /\ TrackedInv
                  /\ setting.backtest => BacktestInv
<1>1. SUFFICES ASSUME Syncers = {}, BacktestAlone  PROVE Spec => []FillAnnounced
  OBVIOUS
<1>2. Init => Inv
  BY <1>1, InitBook, InitCancels, InitTracked, InitEvents, InitFills
<1>3. Inv /\ [Next]_vars => Inv'
  <2> SUFFICES ASSUME Inv, [Next]_vars  PROVE Inv'
    OBVIOUS
  <2>1. BookInv' /\ Monotone /\ OwnWork' /\ EventInv' /\ UNCHANGED setting
    BY <1>1, NextBook, NextOwn, NextEvents DEF Next, vars
  <2>2. FastIdle' => FastIdle
    BY FastStays
  <2>3. FastIdle' => CancelInv' /\ TrackedInv'
    BY <2>1, <2>2, NextCancels, NextKeeps, NextTracked
  <2>4. BacktestInv => FastIdle
    BY DEF BacktestInv, OneAtATime, FastIdle, AllCancelers
  <2>5. setting.backtest => BacktestInv'
    BY <1>1, <2>1, <2>4, NextFills
  <2> QED
    BY <2>1, <2>3, <2>5
<1>4. Inv => FillAnnounced
  <2> SUFFICES ASSUME Inv, setting.backtest, Quiet, NEW id \in Orders, pc[id] = "done", HasStatus(id, "Filled")
               PROVE  filled[id] = 1 /\ ~Map!Exists(orders, id)
    BY DEF FillAnnounced
  <2>1. feed = <<>> /\ \A p \in Threads : pc[p] \in Stopped
    BY DEF Quiet
  <2>2. Coming(id)
    BY DEF BacktestInv, FillKept, AfterInsert
  <2>3. filled[id] = 1
    BY <2>1, <2>2 DEF Coming, Stopped, Adopting
  <2>4. Announced(id)
    BY <2>3 DEF Announced, BookInv, KnownOK
  <2>5. id \notin Map!Ids(orders)
    BY <2>4 DEF EventInv, OnceInBook
  <2> QED
    BY <2>3, <2>5 DEF Map!Exists
<1> QED
  BY <1>2, <1>3, <1>4, PTL DEF Spec
=============================================================================
