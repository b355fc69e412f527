----------------------------- MODULE OrderStore -----------------------------
(***************************************************************************)
(* core.OrderStore (pkg/core/orderstore.go) as operators on its value.     *)
(*                                                                         *)
(* The trade collector only ever asks whether an order ID is in the store, *)
(* so the store is the set of the IDs it holds; tags, statuses and the     *)
(* notification channel C are left out.  Exists, Add, Update and Remove    *)
(* hold the store's mutex from entry to exit, so each is one atomic step.  *)
(***************************************************************************)

CONSTANTS
    AddOrderUpdate,   \* BOOLEAN: an update of an unknown order adds it
    RemoveCancelled,  \* BOOLEAN: a cancel update removes the order even if it traded
    RemoveFilled      \* BOOLEAN: a fill update removes the order

OrderStatus == {"New", "PartiallyFilled", "Filled", "Canceled", "Rejected"}

Exists(store, o) == o \in store

Add(store, o) == store \cup {o}

Remove(store, o) == store \ {o}

(***************************************************************************)
(* HandleOrderUpdate: what an order update from the stream does to the     *)
(* membership.  `executed' is ~order.ExecutedQuantity.IsZero().  A filled  *)
(* order is first added or updated and then, when RemovedNext, removed in  *)
(* a critical section of its own.                                          *)
(***************************************************************************)
Kept(status, executed) ==
    CASE status = "Canceled" -> ~RemoveCancelled /\ executed
      [] status = "Rejected" -> FALSE
      [] OTHER               -> TRUE

(* Mutant: an unknown order is never added by its update. *)
TrackedIfKnown(store, o, status) == Exists(store, o)

Tracked(store, o, status) ==
    \/ Exists(store, o)
    \/ AddOrderUpdate /\ status \in {"New", "PartiallyFilled", "Filled"}

HandleOrderUpdate(store, o, status, executed) ==
    IF Tracked(store, o, status) /\ Kept(status, executed)
    THEN Add(store, o)
    ELSE Remove(store, o)

RemovedNext(status) == RemoveFilled /\ status = "Filled"
=============================================================================
