-------------------------- MODULE ConnectionEvents --------------------------
(***************************************************************************)
(* What a subscriber of types.Stream relies on (pkg/types/stream.go,       *)
(* StandardStreamEventHub): it is told of a connection, then gets messages *)
(* of that connection only, then is told of the disconnection before the   *)
(* next connection.  A depth buffer that is reset on disconnection, for    *)
(* one, never sees messages of two connections mixed.                      *)
(***************************************************************************)
CONSTANT Conns   \* the connections

VARIABLES
    up,       \* the connections announced and not yet disconnected
    source    \* the connection whose messages were delivered, if any were

vars == <<up, source>>

Init == up = {} /\ source = {}

Connect(c) == up = {} /\ up' = {c} /\ UNCHANGED source

Message(c) == up = {c} /\ source' = {c} /\ UNCHANGED up

Disconnect(c) == up = {c} /\ up' = {} /\ source' = {}

Next == \E c \in Conns : Connect(c) \/ Message(c) \/ Disconnect(c)

Spec == Init /\ [][Next]_vars
=============================================================================
