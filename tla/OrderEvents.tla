----------------------------- MODULE OrderEvents ----------------------------
(***************************************************************************)
(* What an active order book promises its subscribers, without the book:   *)
(* an order is closed once by the exchange, and the subscribers are told   *)
(* of that at most once, and told what happened.                           *)
(***************************************************************************)
CONSTANT Orders

VARIABLES
    closed,  \* [Orders -> "no" or the final status the exchange gave the order]
    told     \* [Orders -> "nothing" or the final status the subscribers heard]

vars == <<closed, told>>

Init ==
    /\ closed = [o \in Orders |-> "no"]
    /\ told = [o \in Orders |-> "nothing"]

Close(o, status) ==
    /\ closed[o] = "no"
    /\ closed' = [closed EXCEPT ![o] = status]
    /\ UNCHANGED told

(* A rejected order is removed without telling anyone. *)
Tell(o) ==
    /\ closed[o] \in {"Filled", "Canceled"}
    /\ told[o] = "nothing"
    /\ told' = [told EXCEPT ![o] = closed[o]]
    /\ UNCHANGED closed

Next == \E o \in Orders :
            \/ \E status \in {"Filled", "Canceled", "Rejected"} : Close(o, status)
            \/ Tell(o)

Spec == Init /\ [][Next]_vars
=============================================================================
