---------------------------- MODULE SyncOrderMap ----------------------------
(***************************************************************************)
(* types.SyncOrderMap (pkg/types/ordermap.go) as operators on its value: a *)
(* set of orders with distinct `id' and the IDs whose removal was asked    *)
(* for before they were known.  Each operator is one critical section of   *)
(* the map's mutex; the method Add is AddOrder followed, in a section of   *)
(* its own, by ProcessPendingRemoval.                                      *)
(***************************************************************************)

Empty == [orders |-> {}, removal |-> {}]

Ids(m) == {o.id : o \in m.orders}

Exists(m, id) == id \in Ids(m)

Get(m, id) == CHOOSE o \in m.orders : o.id = id

Without(m, ids) == {o \in m.orders : o.id \notin ids}

AddOrder(m, o) == [m EXCEPT !.orders = Without(m, {o.id}) \cup {o}]

Update(m, o) == IF Exists(m, o.id) THEN AddOrder(m, o) ELSE m

(* Mutant: the orders are recorded instead of the ID. *)
RemoveRecordsOrders(m, id) ==
    IF Exists(m, id)
    THEN [m EXCEPT !.orders = Without(m, {id})]
    ELSE [m EXCEPT !.removal = @ \cup {m}]

Remove(m, id) ==
    IF Exists(m, id)
    THEN [m EXCEPT !.orders = Without(m, {id})]
    ELSE [m EXCEPT !.removal = @ \cup {id}]

(* Honour the removals recorded for orders that are now known, and drop the
   `expired' ones (recorded more than five minutes ago). *)
ProcessPendingRemoval(m, expired) ==
    LET removing == (m.removal \cap Ids(m)) \cup expired
    IN  [orders |-> Without(m, removing), removal |-> m.removal \ removing]
=============================================================================
