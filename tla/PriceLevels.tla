----------------------------- MODULE PriceLevels -----------------------------
(***************************************************************************)
(* What one side of an order book promises: a map from prices to volumes   *)
(* in which levels are set and deleted.  RBTree is shown to implement it.  *)
(***************************************************************************)
CONSTANTS Prices, Volumes

VARIABLE levels

Init == levels = [p \in {} |-> 0]

Set(p, v) ==
    levels' = [q \in DOMAIN levels \cup {p} |-> IF q = p THEN v ELSE levels[q]]

Delete(p) ==
    levels' = [q \in DOMAIN levels \ {p} |-> levels[q]]

Next == \E p \in Prices : Delete(p) \/ \E v \in Volumes : Set(p, v)

Spec == Init /\ [][Next]_levels
=============================================================================
