-------------------------- MODULE ActiveOrderBook ---------------------------
(***************************************************************************)
(* bbgo.ActiveOrderBook (pkg/bbgo/activeorderbook.go) with the goroutines  *)
(* around it: the user data stream calling Update, one SubmitOrders call   *)
(* per order calling Add when the creation response arrives, a caller of   *)
(* GracefulCancel or FastCancel, and grid2's goroutine that is signalled   *)
(* by a ticker and by re-authentications through a channel of one place    *)
(* and reconciles the book with the open orders of the exchange.           *)
(*                                                                         *)
(* b.mu is held by Update, Exists and Remove but not by add and            *)
(* FastCancel, so those interleave with the inside of Update; every access *)
(* to a SyncOrderMap is atomic.  The book has a symbol and all orders have *)
(* it.  The signal b.C only shortens a wait and is left out.               *)
(***************************************************************************)
EXTENDS Integers, Sequences, FiniteSets

CONSTANTS
    Orders,          \* order IDs, each placed by a SubmitOrders call of its own
    Streams,         \* the user data stream's goroutine (one, or none)
    Cancelers,       \* goroutines that call GracefulCancel, once
    FastCancelers,   \* goroutines that call FastCancel, once
    Syncers,         \* goroutines that run recoverActiveOrdersPeriodically
    FullQty,         \* the quantity of an order, filled one unit at a time
    MaxDups,         \* how often the stream may report an update twice
    Settings         \* the settings a behaviour may have, see Setting

Map == INSTANCE SyncOrderMap

AllCancelers == Cancelers \cup FastCancelers

Threads == Orders \cup Streams \cup AllCancelers \cup Syncers

(* What is there, which orders are active from the start, which faults occur,
   whether one goroutine runs the stream and the submitters, as in back-testing,
   and whether the exchange is MAX. *)
Setting == [present : SUBSET Threads, held : SUBSET Orders, backtest : BOOLEAN, qty : 1 .. FullQty,
            queryFails : BOOLEAN, loses : BOOLEAN, dups : 0 .. MaxDups, max : BOOLEAN]

ASSUME BookAssumption ==
    /\ FullQty \in Nat \ {0}
    /\ MaxDups \in Nat
    /\ Settings \subseteq Setting
    /\ Orders \cap (Streams \cup AllCancelers \cup Syncers) = {}
    /\ Streams \cap (AllCancelers \cup Syncers) = {}
    /\ Syncers \cap AllCancelers = {}
    /\ Cancelers \cap FastCancelers = {}

OrderStatus == {"New", "PartiallyFilled", "Filled", "Canceled", "Rejected"}

Open == {"New", "PartiallyFilled"}

(* types.Order: the fields isNewerOrderUpdate compares; UpdateTime is a version. *)
Order == [id : Orders, status : OrderStatus, executed : 0 .. FullQty, time : 1 .. FullQty + 2]

VARIABLES
    setting,   \* the setting of this behaviour
    (* the exchange *)
    placed,    \* the orders it has, as they are now
    feed,      \* Seq(Order): updates in flight on the user data stream
    dups,      \* how often an update was repeated
    settled,   \* the IDs whose last update is more than three minutes old
    (* the book *)
    orders,    \* b.orders
    pending,   \* b.pendingOrderUpdates
    mu,        \* the set of goroutines holding b.mu
    (* the goroutines *)
    pc,        \* [Threads -> where the goroutine is]
    arg,       \* [Threads -> the set of at most one order it is working on]
    targets,   \* [AllCancelers -> the orders still to be cancelled or removed]
    left,      \* [Cancelers -> those found open in this round]
    request,   \* [Cancelers -> the orders of the call, and whether it is cancelAll]
    opened,    \* [Syncers -> the open orders the query returned]
    active,    \* [Syncers -> IDs of the active orders still to compare]
    ripe,      \* [Syncers -> IDs settled when the sync began (syncBefore)]
    loop,      \* [Syncers -> which of Flags are up]
    (* history *)
    filled,    \* [Orders -> how often EmitFilled was called]
    canceled   \* [Orders -> how often EmitCanceled was called]

exchangeVars == <<placed, feed, dups, settled>>
bookVars == <<orders, pending, mu>>
cancelVars == <<targets, left, request>>
syncVars == <<opened, active, ripe, loop>>
history == <<filled, canceled>>
moving == <<exchangeVars, bookVars, pc, arg, cancelVars, syncVars, history>>
vars == <<setting, moving>>

Control == {"idle", "sent", "add", "insertPending", "sweepPending", "dropPending",
            "insert", "sweep", "update", "pend", "pendSweep", "settle", "emit",
            "cancel", "wait", "query", "verify", "remove", "send", "ask", "read", "compare",
            "done", "lost", "unverified", "absent"}

(* A signal waits in recoverC; the last sync without an error is less than ten
   minutes old; a query of the sync under way failed. *)
Flags == {"signal", "recent", "error"}

Stopped == {"idle", "done", "lost", "unverified", "absent"}

TypeOK ==
    /\ setting \in Settings
    /\ placed \subseteq Order
    /\ feed \in Seq(Order)
    /\ dups \in 0 .. MaxDups
    /\ settled \subseteq Orders
    /\ {orders, pending} \subseteq [orders : SUBSET Order, removal : SUBSET Orders]
    /\ mu \subseteq Threads
    /\ pc \in [Threads -> Control]
    /\ arg \in [Threads -> SUBSET Order]
    /\ targets \in [AllCancelers -> SUBSET Order]
    /\ left \in [Cancelers -> SUBSET Order]
    /\ request \in [Cancelers -> [all : BOOLEAN, ids : SUBSET Orders]]
    /\ opened \in [Syncers -> SUBSET Order]
    /\ active \in [Syncers -> SUBSET Orders]
    /\ ripe \in [Syncers -> SUBSET Orders]
    /\ loop \in [Syncers -> SUBSET Flags]
    /\ filled \in [Orders -> Nat]
    /\ canceled \in [Orders -> Nat]

Created(id) == [id |-> id, status |-> "New", executed |-> 0, time |-> 1]

Init ==
    /\ setting \in Settings
    /\ placed = {Created(id) : id \in setting.held}
    /\ feed = <<>>
    /\ dups = 0
    /\ settled = {}
    /\ orders = [Map!Empty EXCEPT !.orders = placed]
    /\ pending = Map!Empty
    /\ mu = {}
    /\ pc = [p \in Threads |-> IF p \in setting.held THEN "done"
                             ELSE IF p \in setting.present THEN "idle" ELSE "absent"]
    /\ arg = [p \in Threads |-> {}]
    /\ targets = [p \in AllCancelers |-> {}]
    /\ left = [p \in Cancelers |-> {}]
    /\ request = [p \in Cancelers |-> [all |-> FALSE, ids |-> {}]]
    /\ opened = [p \in Syncers |-> {}]
    /\ active = [p \in Syncers |-> {}]
    /\ ripe = [p \in Syncers |-> {}]
    /\ loop = [p \in Syncers |-> {}]
    /\ filled = [o \in Orders |-> 0]
    /\ canceled = [o \in Orders |-> 0]

Goto(p, l) == pc' = [pc EXCEPT ![p] = l]

(* The goroutine goes back to what called Update or add. *)
Resume(p) == IF p \in Orders THEN "done" ELSE IF p \in Syncers THEN "compare" ELSE "idle"

Return(p) == Goto(p, Resume(p)) /\ arg' = [arg EXCEPT ![p] = {}]

(* In back-testing the callbacks run inside the submitting goroutine. *)
MayEnter(p) == setting.backtest => \A q \in Threads \ {p} : pc[q] \in Stopped \cup {"sent"}

-----------------------------------------------------------------------------
(***************************************************************************)
(* The exchange (external): updates of an order carry increasing times and *)
(* are sent in that order.                                                 *)
(***************************************************************************)
At(id) == CHOOSE o \in placed : o.id = id

IsPlaced(id) == \E o \in placed : o.id = id

IsOpen(id) == \E o \in placed : o.id = id /\ o.status \in Open

HasStatus(id, status) == \E o \in placed : o.id = id /\ o.status = status

Becomes(o, status, executed) ==
    LET new == [o EXCEPT !.status = status, !.executed = executed, !.time = @ + 1]
    IN  /\ placed' = (placed \ {o}) \cup {new}
        /\ feed' = Append(feed, new)
        /\ settled' = settled \ {o.id}

Fill(o) ==
    /\ o.status \in Open
    /\ Becomes(o, IF o.executed + 1 = setting.qty THEN "Filled" ELSE "PartiallyFilled", o.executed + 1)
    /\ UNCHANGED <<dups, bookVars, pc, arg, cancelVars, syncVars, history>>

(* The exchange cancels the order, or takes its acceptance back. *)
Expire(o) ==
    /\ \/ o.status \in Open /\ Becomes(o, "Canceled", o.executed)
       \/ o.status = "New" /\ Becomes(o, "Rejected", 0)
    /\ UNCHANGED <<dups, bookVars, pc, arg, cancelVars, syncVars, history>>

(* Three minutes without an update; long enough for all reports to be handled.
   Only the syncers look at it. *)
Age(o) ==
    /\ Syncers # {}
    /\ o.id \notin settled
    /\ \A i \in DOMAIN feed : feed[i].id # o.id
    /\ \A p \in Streams \cup {o.id} : pc[p] \in Stopped
    /\ settled' = settled \cup {o.id}
    /\ UNCHANGED <<placed, feed, dups, bookVars, pc, arg, cancelVars, syncVars, history>>

(***************************************************************************)
(* A SubmitOrders call: the exchange creates the order; the response, the  *)
(* order as created, reaches Add, or is lost.                              *)
(***************************************************************************)
Place(id) ==
    /\ pc[id] = "idle"
    /\ MayEnter(id)
    /\ placed' = placed \cup {Created(id)}
    /\ feed' = Append(feed, Created(id))
    /\ arg' = [arg EXCEPT ![id] = {Created(id)}]
    /\ Goto(id, "sent")
    /\ UNCHANGED <<dups, settled, bookVars, cancelVars, syncVars, history>>

Respond(id) ==
    /\ pc[id] = "sent"
    /\ MayEnter(id)
    /\ Goto(id, "add")
    /\ UNCHANGED <<exchangeVars, bookVars, arg, cancelVars, syncVars, history>>

ResponseLost(id) ==
    /\ pc[id] = "sent"
    /\ setting.loses
    /\ Goto(id, "lost")
    /\ UNCHANGED <<exchangeVars, bookVars, arg, cancelVars, syncVars, history>>

(* The stream hands its next update to orderUpdateHandler; the connection may
   repeat it (order snapshots after a reconnection). *)
Receive(p) ==
    /\ pc[p] = "idle"
    /\ MayEnter(p)
    /\ feed # <<>>
    /\ arg' = [arg EXCEPT ![p] = {Head(feed)}]
    /\ Goto(p, "update")
    /\ \/ feed' = Tail(feed) /\ UNCHANGED dups
       \/ dups < setting.dups /\ dups' = dups + 1 /\ UNCHANGED feed
    /\ UNCHANGED <<placed, settled, bookVars, cancelVars, syncVars, history>>

-----------------------------------------------------------------------------
(***************************************************************************)
(* isNewerOrderUpdate(a, b)                                                *)
(***************************************************************************)
NewerByStatus(a, b) ==
    CASE a.status \in {"Canceled", "Rejected"} -> b.status \in Open
      [] a.status = "PartiallyFilled" -> \/ b.status = "New"
                                         \/ b.status = a.status /\ a.executed > b.executed
      [] a.status = "Filled" -> b.status \in Open \cup {"Filled"}
      [] OTHER -> FALSE

(* Mutant: of two equal objects neither is newer. *)
NewerUnlessEqual(a, b) == a # b /\ (NewerByStatus(a, b) \/ a.time > b.time)

IsNewerOrderUpdate(a, b) == NewerByStatus(a, b) \/ a.time > b.time

(***************************************************************************)
(* Update, up to b.orders.Exists; the order is unknown (pend) or not       *)
(* (settle).  b.mu is held until the goroutine leaves either.              *)
(***************************************************************************)
UpdateOrder(p) ==
    \E o \in arg[p] :
        /\ pc[p] = "update"
        /\ mu = {}
        /\ mu' = {p}
        /\ Goto(p, IF Map!Exists(orders, o.id) THEN "settle" ELSE "pend")
        /\ UNCHANGED <<exchangeVars, orders, pending, arg, cancelVars, syncVars, history>>

(* pendingOrderUpdates.Add *)
Pend(p) ==
    \E o \in arg[p] :
        /\ pc[p] = "pend"
        /\ pending' = Map!AddOrder(pending, o)
        /\ Goto(p, "pendSweep")
        /\ UNCHANGED <<exchangeVars, orders, mu, arg, cancelVars, syncVars, history>>

PendSweep(p) ==
    \E expired \in SUBSET pending.removal :
        /\ pc[p] = "pendSweep"
        /\ pending' = Map!ProcessPendingRemoval(pending, expired)
        /\ mu' = {}
        /\ Return(p)
        /\ UNCHANGED <<exchangeVars, orders, cancelVars, syncVars, history>>

OutOfDate(o) == Map!Exists(orders, o.id) /\ ~IsNewerOrderUpdate(o, Map!Get(orders, o.id))

SkipUpdate(p) ==
    \E o \in arg[p] :
        /\ pc[p] = "settle"
        /\ OutOfDate(o)
        /\ mu' = {}
        /\ Return(p)
        /\ UNCHANGED <<exchangeVars, orders, pending, cancelVars, syncVars, history>>

Refresh(p) ==
    \E o \in arg[p] :
        /\ pc[p] = "settle"
        /\ o.status \in Open
        /\ ~OutOfDate(o)
        /\ orders' = Map!Update(orders, o)
        /\ mu' = {}
        /\ Return(p)
        /\ UNCHANGED <<exchangeVars, pending, cancelVars, syncVars, history>>

(* EmitFilled only for the goroutine that removed the order; EmitCanceled always. *)
Announces(o) == \/ o.status = "Filled" /\ Map!Exists(orders, o.id)
                \/ o.status = "Canceled"

(* Mutant: the closed order stays in the book. *)
KeepClosed(o) == orders' = Map!Update(orders, o)

RemoveClosed(o) == orders' = Map!Remove(orders, o.id)

Close(p) ==
    \E o \in arg[p] :
        /\ pc[p] = "settle"
        /\ o.status \notin Open
        /\ ~OutOfDate(o)
        /\ RemoveClosed(o)
        /\ mu' = {}
        /\ IF Announces(o) THEN Goto(p, "emit") /\ UNCHANGED arg ELSE Return(p)
        /\ UNCHANGED <<exchangeVars, pending, cancelVars, syncVars, history>>

(* EmitFilled or EmitCanceled, outside the mutex. *)
Emit(p) ==
    \E o \in arg[p] :
        /\ pc[p] = "emit"
        /\ IF o.status = "Filled"
           THEN filled' = [filled EXCEPT ![o.id] = @ + 1] /\ UNCHANGED canceled
           ELSE canceled' = [canceled EXCEPT ![o.id] = @ + 1] /\ UNCHANGED filled
        /\ Return(p)
        /\ UNCHANGED <<exchangeVars, bookVars, cancelVars, syncVars>>

(***************************************************************************)
(* add(order), without b.mu.                                               *)
(***************************************************************************)
Adopted(o) ==
    LET update == Map!Get(pending, o.id)
    IN  IF IsNewerOrderUpdate(update, o) THEN update ELSE o

AddOrder(p) ==
    \E o \in arg[p] :
        /\ pc[p] = "add"
        /\ IF Map!Exists(pending, o.id)
           THEN arg' = [arg EXCEPT ![p] = {Adopted(o)}] /\ Goto(p, "insertPending")
           ELSE UNCHANGED arg /\ Goto(p, "insert")
        /\ UNCHANGED <<exchangeVars, bookVars, cancelVars, syncVars, history>>

(* Mutant: an order taken from the pending updates is not inserted. *)
InsertAdded(p, o) == orders' = IF pc[p] = "insert" THEN Map!AddOrder(orders, o) ELSE orders

InsertAny(p, o) == orders' = Map!AddOrder(orders, o)

(* b.orders.Add: first the map, ... *)
Insert(p) ==
    \E o \in arg[p] :
        /\ \/ pc[p] = "insertPending" /\ Goto(p, "sweepPending")
           \/ pc[p] = "insert" /\ Goto(p, "sweep")
        /\ InsertAny(p, o)
        /\ UNCHANGED <<exchangeVars, pending, mu, arg, cancelVars, syncVars, history>>

(* ... then the pending removals, old ones (any, here) being forgotten. *)
Sweep(p) ==
    \E expired \in SUBSET orders.removal :
        /\ \/ pc[p] = "sweepPending" /\ Goto(p, "dropPending") /\ UNCHANGED arg
           \/ pc[p] = "sweep" /\ Return(p)
        /\ orders' = Map!ProcessPendingRemoval(orders, expired)
        /\ UNCHANGED <<exchangeVars, pending, mu, cancelVars, syncVars, history>>

DropPending(p) ==
    \E o \in arg[p] :
        /\ pc[p] = "dropPending"
        /\ pending' = Map!Remove(pending, o.id)
        /\ IF o.status = "New" THEN Return(p) ELSE Goto(p, "update") /\ UNCHANGED arg
        /\ UNCHANGED <<exchangeVars, orders, mu, cancelVars, syncVars, history>>

-----------------------------------------------------------------------------
(***************************************************************************)
(* GracefulCancel: of all active orders, or of some of them.               *)
(***************************************************************************)
Chosen(p, all, ids) ==
    /\ request' = [request EXCEPT ![p] = [all |-> all, ids |-> ids]]
    /\ targets' = [targets EXCEPT ![p] = {o \in orders.orders : o.id \in ids}]

GracefulCancel(p) ==
    /\ pc[p] = "idle"
    /\ \/ Chosen(p, TRUE, Map!Ids(orders))
       \/ \E ids \in SUBSET Map!Ids(orders) \ {{}} : Chosen(p, FALSE, ids)
    /\ Goto(p, "cancel")
    /\ UNCHANGED <<exchangeVars, bookVars, arg, left, syncVars, history>>

(* ex.CancelOrders: the exchange cancels open orders of the batch one by one; it
   may refuse some or all of them, and the error is only logged. *)
CancelOne(p) ==
    \E o \in placed :
        /\ pc[p] = "cancel"
        /\ o.status \in Open
        /\ \E t \in targets[p] : t.id = o.id
        /\ Becomes(o, "Canceled", o.executed)
        /\ UNCHANGED <<dups, bookVars, pc, arg, cancelVars, syncVars, history>>

CancelReturns(p) ==
    /\ pc[p] = "cancel"
    /\ Goto(p, IF p \in Cancelers THEN "wait" ELSE "remove")
    /\ UNCHANGED <<exchangeVars, bookVars, arg, cancelVars, syncVars, history>>

(* waitAllClear, respectively filterExistingOrders. *)
Clear(p) == IF request[p].all
            THEN orders.orders = {}
            ELSE \A t \in targets[p] : ~Map!Exists(orders, t.id)

Cleared(p) ==
    /\ pc[p] = "wait"
    /\ Clear(p)
    /\ Goto(p, "done")
    /\ UNCHANGED <<exchangeVars, bookVars, arg, cancelVars, syncVars, history>>

NotCleared(p) ==
    /\ pc[p] = "wait"
    /\ ~Clear(p)
    /\ Goto(p, "query")
    /\ UNCHANGED <<exchangeVars, bookVars, arg, cancelVars, syncVars, history>>

(* The caller's context ends while waiting for the book to be clear. *)
Interrupted(p) ==
    /\ pc[p] = "wait"
    /\ request[p].all
    /\ Goto(p, "unverified")
    /\ UNCHANGED <<exchangeVars, bookVars, arg, cancelVars, syncVars, history>>

(* Mutant: the open orders are not collected for the next try. *)
NoneLeft(p) == {}

LeftOrders(p) == {t \in targets[p] : IsOpen(t.id)}

(* QueryOpenOrders: what is open stays to be cancelled, the rest is to be
   removed; when the query fails the symbol's orders are skipped. *)
QueryOpenOrders(p) ==
    /\ pc[p] = "query"
    /\ left' = [left EXCEPT ![p] = LeftOrders(p)]
    /\ targets' = [targets EXCEPT ![p] = {t \in @ : ~IsOpen(t.id)}]
    /\ Goto(p, "verify")
    /\ UNCHANGED <<exchangeVars, bookVars, arg, request, syncVars, history>>

QueryOpenOrdersFails(p) ==
    /\ pc[p] = "query"
    /\ setting.queryFails
    /\ left' = [left EXCEPT ![p] = {}]
    /\ targets' = [targets EXCEPT ![p] = {}]
    /\ Goto(p, "verify")
    /\ UNCHANGED <<exchangeVars, bookVars, arg, request, syncVars, history>>

RemoveVerified(p) ==
    \E t \in targets[p] :
        /\ pc[p] = "verify"
        /\ mu = {}
        /\ orders' = Map!Remove(orders, t.id)
        /\ targets' = [targets EXCEPT ![p] = @ \ {t}]
        /\ UNCHANGED <<exchangeVars, pending, mu, pc, arg, left, request, syncVars, history>>

TryAgain(p) ==
    /\ pc[p] = "verify"
    /\ targets[p] = {}
    /\ targets' = [targets EXCEPT ![p] = left[p]]
    /\ Goto(p, "cancel")
    /\ UNCHANGED <<exchangeVars, bookVars, arg, left, request, syncVars, history>>

(***************************************************************************)
(* FastCancel: cancel some orders, or all when none are given, then remove *)
(* them from the book without looking.                                     *)
(***************************************************************************)
FastCancel(p) ==
    \E given \in SUBSET orders.orders :
        /\ pc[p] = "idle"
        /\ targets' = [targets EXCEPT ![p] = IF given = {} THEN orders.orders ELSE given]
        /\ Goto(p, "cancel")
        /\ UNCHANGED <<exchangeVars, bookVars, arg, left, request, syncVars, history>>

RemoveFast(p) ==
    \E t \in targets[p] :
        /\ pc[p] = "remove"
        /\ orders' = Map!Remove(orders, t.id)
        /\ targets' = [targets EXCEPT ![p] = @ \ {t}]
        /\ UNCHANGED <<exchangeVars, pending, mu, pc, arg, left, request, syncVars, history>>

FastCancelReturns(p) ==
    /\ pc[p] = "remove"
    /\ targets[p] = {}
    /\ Goto(p, "unverified")
    /\ UNCHANGED <<exchangeVars, bookVars, arg, cancelVars, syncVars, history>>

-----------------------------------------------------------------------------
(***************************************************************************)
(* recoverActiveOrdersPeriodically: the ticker's case and the signal's     *)
(* case of one select, so the goroutine that receives from recoverC is     *)
(* also the one that sends each tick into it.                              *)
(***************************************************************************)
Becoming(p, up, down) == loop' = [loop EXCEPT ![p] = (@ \ down) \cup up]

Looping == <<exchangeVars, bookVars, arg, cancelVars, opened, active, ripe, history>>

TenMinutes(p) ==
    /\ Becoming(p, {}, {"recent"})
    /\ UNCHANGED <<Looping, pc>>

(* initializeRecoverC, when the stream has authenticated again: the send does not
   block, a signal that finds recoverC full is dropped. *)
Reauthenticated(p) ==
    /\ pc[p] # "absent"
    /\ Becoming(p, {"signal"}, {})
    /\ UNCHANGED <<Looping, pc>>

(* 25 to 35 minutes have passed, or had passed during the last sync. *)
Tick(p) ==
    /\ pc[p] = "idle"
    /\ Goto(p, "send")
    /\ UNCHANGED <<Looping, loop>>

(* The send on recoverC blocks while a signal is in it. *)
SendSignal(p) ==
    /\ pc[p] = "send"
    /\ "signal" \notin loop[p]
    /\ Becoming(p, {"signal"}, {})
    /\ Goto(p, "idle")
    /\ UNCHANGED Looping

SkipSignal(p) ==
    /\ pc[p] = "idle"
    /\ {"signal", "recent"} \subseteq loop[p]
    /\ Becoming(p, {}, {"signal"})
    /\ UNCHANGED <<Looping, pc>>

(***************************************************************************)
(* syncActiveOrders: query the open orders, then read the active ones.     *)
(* The queries give up after some retries.                                 *)
(***************************************************************************)
SyncBegin(p) ==
    /\ pc[p] = "idle"
    /\ "signal" \in loop[p] /\ "recent" \notin loop[p]
    /\ Becoming(p, {}, {"signal", "error"})
    /\ ripe' = [ripe EXCEPT ![p] = settled]
    /\ Goto(p, "ask")
    /\ UNCHANGED <<exchangeVars, bookVars, arg, cancelVars, opened, active, history>>

AskOpenOrders(p) ==
    /\ pc[p] = "ask"
    /\ opened' = [opened EXCEPT ![p] = {o \in placed : o.status \in Open}]
    /\ Goto(p, "read")
    /\ UNCHANGED <<exchangeVars, bookVars, arg, cancelVars, active, ripe, loop, history>>

SyncReturns(p) ==
    /\ Goto(p, "idle")
    /\ ripe' = [ripe EXCEPT ![p] = {}]
    /\ UNCHANGED <<exchangeVars, bookVars, arg, cancelVars, opened, active, history>>

(* "failed to query open orders, skip this time" *)
AskFails(p) ==
    /\ pc[p] = "ask"
    /\ setting.queryFails
    /\ SyncReturns(p)
    /\ UNCHANGED loop

(* Mutant: the difference is taken the wrong way round. *)
OpenNotActive(ids, openIds) == openIds \ ids

ActiveNotOpen(ids, openIds) == ids \ openIds

ReadActive(p) ==
    LET ids == Map!Ids(orders)
        openIds == {o.id : o \in opened[p]}
    IN  /\ pc[p] = "read"
        /\ active' = [active EXCEPT ![p] = ActiveNotOpen(ids, openIds)]
        /\ opened' = [opened EXCEPT ![p] = {o \in @ : o.id \notin ids}]
        /\ Goto(p, "compare")
        /\ UNCHANGED <<exchangeVars, bookVars, arg, cancelVars, ripe, loop, history>>

(* An active order that is not open is queried. *)
Compared(p, id) ==
    /\ pc[p] = "compare"
    /\ id \in active[p]
    /\ active' = [active EXCEPT ![p] = @ \ {id}]
    /\ UNCHANGED <<exchangeVars, bookVars, cancelVars, opened, ripe, history>>

(* MAX calls an order done, its fees being known, when it was filled and in the end,
   or cancelled before any fill. *)
MayBeDone(o) == o.status = "Filled" \/ (o.status = "Canceled" /\ o.executed = 0)

OldEnough(p, id) == id \in ripe[p] \cap settled

(* syncActiveOrder: it is handed to Update when its last update is old enough; MAX
   must call it done. *)
SyncOne(p, id) ==
    /\ Compared(p, id)
    /\ OldEnough(p, id)
    /\ setting.max => MayBeDone(At(id))
    /\ arg' = [arg EXCEPT ![p] = {At(id)}]
    /\ Goto(p, "update")
    /\ UNCHANGED loop

SkipOne(p, id) ==
    /\ Compared(p, id)
    /\ setting.max \/ ~OldEnough(p, id)
    /\ UNCHANGED <<arg, pc, loop>>

QueryOrderFails(p, id) ==
    /\ Compared(p, id)
    /\ setting.queryFails
    /\ Becoming(p, {"error"}, {})
    /\ UNCHANGED <<arg, pc>>

(* Mutant: the open order is handed to Update, which does not know it. *)
AdoptByUpdate(p) == Goto(p, "update")

AdoptByAdd(p) == Goto(p, "add")

(* An open order that is not active is added, when old enough. *)
AdoptOpen(p) ==
    \E o \in opened[p] :
        /\ pc[p] = "compare"
        /\ active[p] = {}
        /\ opened' = [opened EXCEPT ![p] = @ \ {o}]
        /\ IF o.id \in ripe[p]
           THEN arg' = [arg EXCEPT ![p] = {o}] /\ AdoptByAdd(p)
           ELSE UNCHANGED <<arg, pc>>
        /\ UNCHANGED <<exchangeVars, bookVars, cancelVars, active, ripe, loop, history>>

(* The time of the sync is kept unless a query failed. *)
SyncEnd(p) ==
    /\ pc[p] = "compare"
    /\ active[p] = {}
    /\ opened[p] = {}
    /\ Becoming(p, IF "error" \in loop[p] THEN {} ELSE {"recent"}, {"error"})
    /\ SyncReturns(p)

-----------------------------------------------------------------------------
External == \E o \in placed : Fill(o) \/ Expire(o) \/ Age(o)

Submitting(id) == Respond(id) \/ ResponseLost(id)

Book(p) == UpdateOrder(p) \/ Pend(p) \/ PendSweep(p) \/ SkipUpdate(p) \/ Refresh(p) \/ Close(p) \/ Emit(p)
           \/ AddOrder(p) \/ Insert(p) \/ Sweep(p) \/ DropPending(p)

Graceful(p) == GracefulCancel(p) \/ Cleared(p) \/ NotCleared(p) \/ Interrupted(p)
               \/ QueryOpenOrders(p) \/ QueryOpenOrdersFails(p) \/ RemoveVerified(p) \/ TryAgain(p)

Fast(p) == FastCancel(p) \/ RemoveFast(p) \/ FastCancelReturns(p)

TakeSignal(p) == SkipSignal(p) \/ SyncBegin(p)

Waking(p) == Tick(p) \/ SendSignal(p) \/ TakeSignal(p)

Comparing(p) == \E id \in Orders : SyncOne(p, id) \/ SkipOne(p, id) \/ QueryOrderFails(p, id)

Syncing(p) == AskOpenOrders(p) \/ AskFails(p) \/ ReadActive(p) \/ Comparing(p) \/ AdoptOpen(p) \/ SyncEnd(p)

Recovering(p) == TenMinutes(p) \/ Reauthenticated(p) \/ Waking(p) \/ Syncing(p)

Next ==
    /\ \/ External
       \/ \E id \in Orders : Place(id) \/ Submitting(id)
       \/ \E p \in Streams : Receive(p)
       \/ \E p \in Cancelers : Graceful(p)
       \/ \E p \in FastCancelers : Fast(p)
       \/ \E p \in AllCancelers : CancelOne(p) \/ CancelReturns(p)
       \/ \E p \in Syncers : Recovering(p)
       \/ \E p \in Threads : Book(p)
    /\ UNCHANGED setting

Spec == Init /\ [][Next]_vars

(***************************************************************************)
(* Every goroutine is scheduled, mutexes are granted in turn and time      *)
(* passes.  The select takes every case that is ready again and again (Go  *)
(* picks among the ready cases at random).  The exchange answers a query   *)
(* that is made again and again, and MAX calls a filled order done in the  *)
(* end.  Nothing is assumed of re-authentications, nor of the send on      *)
(* recoverC but that it goes on when there is room.                        *)
(***************************************************************************)
Fairness ==
    /\ \A id \in Orders : WF_moving(Submitting(id)) /\ SF_moving(\E o \in placed : o.id = id /\ Age(o))
    /\ \A p \in Streams : WF_moving(Receive(p))
    /\ \A p \in Syncers :
           /\ WF_moving(TenMinutes(p)) /\ WF_moving(Waking(p)) /\ SF_moving(TakeSignal(p))
           /\ WF_moving(Syncing(p)) /\ SF_moving(AskOpenOrders(p))
           /\ \A id \in Orders : SF_moving(SyncOne(p, id))
    /\ \A p \in Threads : SF_moving(UpdateOrder(p)) /\ WF_moving(Book(p))

FairSpec == Spec /\ Fairness
-----------------------------------------------------------------------------
(***************************************************************************)
(* Properties                                                              *)
(***************************************************************************)
Quiet == feed = <<>> /\ \A p \in Threads : pc[p] \in Stopped

(* Final statuses, and what the subscribers were told, as OrderEvents sees them. *)
FinalStatus(id) ==
    IF \E o \in placed : o.id = id /\ o.status \notin Open THEN At(id).status ELSE "no"

Heard(id) == CASE filled[id] = 0 /\ canceled[id] = 0 -> "nothing"
               [] filled[id] = 1 /\ canceled[id] = 0 -> "Filled"
               [] filled[id] = 0 /\ canceled[id] = 1 -> "Canceled"
               [] OTHER -> "contradiction"

Events == INSTANCE OrderEvents WITH closed <- [o \in Orders |-> FinalStatus(o)],
                                    told <- [o \in Orders |-> Heard(o)]

(* The book implements the event specification: whatever the stream repeats
   and whoever else removes orders, a subscriber hears of a fill or of a
   cancellation once at most, never of both, and only after it happened. *)
ImplementsEvents == Events!Spec

(* From the moment add returns, an order that is open at the exchange is active,
   in whatever order its updates, its repeated updates and the creation response
   came, and whatever GracefulCancel removes: unless FastCancel is called. *)
OpenOrdersTracked ==
    (\A p \in FastCancelers : pc[p] \in {"idle", "absent"}) =>
        \A id \in Orders : pc[id] = "done" /\ IsOpen(id) => Map!Exists(orders, id)

(* When one goroutine runs everything, as in back-testing, a fill that came
   before the order was added is still announced, exactly once, and leaves
   the book. *)
FillAnnounced ==
    setting.backtest /\ Quiet => \A id \in Orders :
        pc[id] = "done" /\ HasStatus(id, "Filled")
            => filled[id] = 1 /\ ~Map!Exists(orders, id)

(* When GracefulCancel returns, none of the orders it was asked to cancel is
   still open ("ensure every order is canceled"), unless its context ended, as
   long as the exchange answers its queries. *)
GracefulCancelCloses ==
    \A p \in Cancelers :
        ~setting.queryFails /\ pc[p] = "done" => \A id \in request[p].ids : ~IsOpen(id)

(* "When order is filled, the order will be removed from the internal order
   storage": once everything is still no filled order is active. *)
FilledOrdersLeave ==
    Quiet => \A id \in Orders : HasStatus(id, "Filled") => ~Map!Exists(orders, id)

(* The goroutine waits for good to send a signal that nobody but itself receives. *)
Blocked(p) == pc[p] = "send" /\ "signal" \in loop[p]

(* With syncActiveOrders running again and again, whichever of its queries fail, a
   filled order that is still active, its update lost to a race or its addition
   late, leaves the book: unless the goroutine took a tick while a signal of a
   re-authentication was in recoverC, which ends its work. *)
FilledOrdersEventuallyLeave ==
    \A id \in Orders :
        (HasStatus(id, "Filled") /\ Map!Exists(orders, id))
            ~> (~Map!Exists(orders, id) \/ \E p \in Syncers : Blocked(p))

(* And an open order that is not active, its creation response lost, becomes
   active once it has not changed for three minutes, or it changes again, unless
   the goroutine is blocked. *)
OpenOrdersEventuallyTracked ==
    \A id \in Orders :
        (IsOpen(id) /\ id \in settled /\ ~Map!Exists(orders, id))
            ~> \/ Map!Exists(orders, id)
               \/ ~IsOpen(id)
               \/ id \notin settled
               \/ \E p \in Syncers : Blocked(p)
=============================================================================
