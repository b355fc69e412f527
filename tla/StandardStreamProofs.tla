------------------------ MODULE StandardStreamProofs ------------------------
(***************************************************************************)
(* Proofs about StandardStream, for any set of at least two connection     *)
(* names.  Everything rests on one inductive invariant, IInv: which        *)
(* goroutines can be alive at each point of the connector, and why the     *)
(* reconnector knows of every connection that is on its way out.           *)
(***************************************************************************)
EXTENDS StandardStream, TLAPS

(* The connection being set up, and what is installed when. *)
SettingUpOK ==
    /\ connector \in {"lock", "wait", "emit", "run"} <=> dialled # {}
    /\ connector \in {"lock", "wait"} => dialled \cap conn = {}
    /\ connector \in {"emit", "run"} => dialled = conn
    /\ connector \in {"select", "stopped"} => conn # {}

(* Only the installed connection has goroutines, once sg.Run started them. *)
GoroutinesOK ==
    /\ \A c \in Conns : c \notin conn => reader[c] = "done" /\ pinger[c] = "done"
    /\ connector \in {"emit", "run"} => \A c \in conn : reader[c] = "done" /\ pinger[c] = "done"

(* The announced connection is the one with a reader, or about to get one. *)
UpOK == up = IF connector = "run" THEN conn ELSE {c \in conn : reader[c] # "done"}

SourceOK == source \subseteq up

ContextsOK ==
    /\ cancelled \subseteq conn
    /\ closing \subseteq conn
    /\ closer # "idle" => closeC
    /\ connector = "stopped" => ~Running
    /\ Running /\ connector \in {"emit", "run"} => cancelled = {}

(* Why a wakeup is not lost: a connection that was cancelled, or one of whose
   goroutines is leaving, left a signal, or the connector is at work. *)
Leaving(c) == \/ c \in cancelled
              \/ reader[c] \in {"cancel", "emit", "done"}
              \/ pinger[c] \in {"cancel", "done"}

SignalOK == Running => ConnectionComing \/ \A c \in conn : ~Leaving(c)

IInv == TypeOK /\ SettingUpOK /\ GoroutinesOK /\ UpOK /\ SourceOK /\ ContextsOK /\ SignalOK
-----------------------------------------------------------------------------
(* The initial state satisfies the invariant. *)
LEMMA InitInv == Init => IInv
  BY DEF Init, IInv, TypeOK, AtMostOne, SettingUpOK, GoroutinesOK, UpOK, SourceOK, ContextsOK,
         SignalOK, Running, ConnectionComing

(* The connector's steps, which set up one connection after another. *)
LEMMA ConnectorInv ==
    ASSUME IInv, Connect \/ Dialling \/ SettingUp \/ ReceiveSignal \/ StopReconnector
    PROVE  IInv'
<1> USE DEF IInv, TypeOK, AtMostOne, SettingUpOK, GoroutinesOK, UpOK, SourceOK, ContextsOK,
            SignalOK, Leaving, Running, ConnectionComing, fields, sockets, history
<1>1. CASE Connect \/ ConnectFails
  BY <1>1 DEF Connect, ConnectFails
<1>2. CASE RedialFails
  BY <1>2 DEF RedialFails, TryLater, Reconnect
<1>3. ASSUME NEW c \in Conns, Dial(c)  PROVE IInv'
  BY <1>3 DEF Dial
<1>4. CASE SetConn
  BY <1>4 DEF SetConn
<1>5. CASE Install
  BY <1>5 DEF Install, WaitAndClear, InstallDialled
<1>6. CASE EmitConnect
  BY <1>6, ZenonT(60) DEF EmitConnect
<1>7. CASE Run
  BY <1>7 DEF Run
<1>8. CASE ReceiveSignal
  BY <1>8 DEF ReceiveSignal
<1>9. CASE StopReconnector
  BY <1>9 DEF StopReconnector, Stops
<1> QED
  BY <1>1, <1>2, <1>3, <1>4, <1>5, <1>6, <1>7, <1>8, <1>9 DEF Dialling, SettingUp

(* The steps of a connection's reader. *)
LEMMA ReaderInv ==
    ASSUME IInv, NEW c \in Conns, Reading(c)
    PROVE  IInv'
<1> USE DEF IInv, TypeOK, AtMostOne, SettingUpOK, GoroutinesOK, UpOK, SourceOK, ContextsOK,
            SignalOK, Leaving, Running, ConnectionComing, fields, sockets, history, ReaderGoto
<1>1. CASE ReaderStops(c)
  BY <1>1 DEF ReaderStops, Done
<1>2. CASE BeginRead(c)
  BY <1>2 DEF BeginRead
<1>3. CASE ReadMessage(c)
  BY <1>3 DEF ReadMessage
<1>4. CASE ReadFails(c)
  BY <1>4 DEF ReadFails
<1>5. CASE Dispatch(c)
  BY <1>5 DEF Dispatch
<1>6. CASE ReaderSignals(c)
  BY <1>6 DEF ReaderSignals, Reconnect
<1>7. CASE ReaderCancels(c)
  BY <1>7 DEF ReaderCancels
<1>8. CASE EmitDisconnect(c)
  BY <1>8 DEF EmitDisconnect
<1> QED
  BY <1>1, <1>2, <1>3, <1>4, <1>5, <1>6, <1>7, <1>8 DEF Reading, Returning

(* The steps of a connection's ping worker. *)
LEMMA PingerInv ==
    ASSUME IInv, NEW c \in Conns, PingerEnds(c) \/ PingFails(c)
    PROVE  IInv'
<1> USE DEF IInv, TypeOK, AtMostOne, SettingUpOK, GoroutinesOK, UpOK, SourceOK, ContextsOK,
            SignalOK, Leaving, Running, ConnectionComing, fields, sockets, history, PingerGoto
<1>1. CASE PingerStops(c)
  BY <1>1 DEF PingerStops, Done
<1>2. CASE PingFails(c)
  BY <1>2 DEF PingFails
<1>3. CASE PingerSignals(c)
  BY <1>3 DEF PingerSignals, PingerAsks, Reconnect
<1>4. CASE PingerCancels(c)
  BY <1>4 DEF PingerCancels
<1> QED
  BY <1>1, <1>2, <1>3, <1>4 DEF PingerEnds

(* The steps of the callers of Resubscribe and Close, and of the surroundings. *)
Others == \/ Resubscribe \/ ResubscribeReconnects
          \/ Close \/ CloseReads \/ CloseCancels \/ CloseWrites
          \/ End \/ \E c \in Conns : Break(c)

LEMMA OthersInv ==
    ASSUME IInv, Others
    PROVE  IInv'
<1> USE DEF IInv, TypeOK, AtMostOne, SettingUpOK, GoroutinesOK, UpOK, SourceOK, ContextsOK,
            SignalOK, Leaving, Running, ConnectionComing, fields, sockets, goroutines, history
<1>1. CASE Resubscribe
  BY <1>1 DEF Resubscribe
<1>2. CASE ResubscribeReconnects
  BY <1>2 DEF ResubscribeReconnects, AskAgain, Reconnect
<1>3. CASE Close
  BY <1>3 DEF Close
<1>4. CASE CloseReads
  BY <1>4 DEF CloseReads
<1>5. CASE CloseCancels
  BY <1>5 DEF CloseCancels
<1>6. CASE CloseWrites
  BY <1>6 DEF CloseWrites
<1>7. CASE End
  BY <1>7 DEF End
<1>8. ASSUME NEW c \in Conns, Break(c)  PROVE IInv'
  BY <1>8 DEF Break
<1> QED
  BY <1>1, <1>2, <1>3, <1>4, <1>5, <1>6, <1>7, <1>8 DEF Others

(* The invariant is inductive. *)
LEMMA NextInv == IInv /\ [Next]_vars => IInv'
<1> SUFFICES ASSUME IInv, [Next]_vars  PROVE IInv'
  OBVIOUS
<1>1. CASE UNCHANGED vars
  BY <1>1 DEF vars, fields, sockets, goroutines, history, IInv, TypeOK, SettingUpOK, GoroutinesOK,
              UpOK, SourceOK, ContextsOK, SignalOK, Leaving, Running, ConnectionComing
<1>2. CASE Next
  BY <1>2, ConnectorInv, ReaderInv, PingerInv, OthersInv DEF Next, Others
<1> QED
  BY <1>1, <1>2

(* The invariant always holds. *)
LEMMA Invariant == Spec => []IInv
  BY InitInv, NextInv, PTL DEF Spec
-----------------------------------------------------------------------------
(* Types: there is one connection, one being set up, and every goroutine is
   somewhere (StandardStream's fields). *)
THEOREM TypeCorrect == Spec => []TypeOK
  BY Invariant, PTL DEF IInv

(* No reconnection is lost: a reader that leaves a running stream has left a
   signal, or the reconnector is connecting (Reconnect, reconnector). *)
THEOREM ReconnectComingInvariant == Spec => []ReconnectComing
<1>1. IInv => ReconnectComing
  BY DEF IInv, SignalOK, Leaving, ReconnectComing
<1> QED
  BY <1>1, Invariant, PTL

(* New subscriptions are sent: the signal of Resubscribe is not lost, whatever
   reconnection it overlaps (Resubscribe, EmitConnect). *)
THEOREM SubscriptionsComingInvariant == Spec => []SubscriptionsComing
<1> USE DEF SubscriptionsComing, Running, fields, sockets, goroutines, history
<1>1. Init => SubscriptionsComing
  BY DEF Init
<1>2. SubscriptionsComing /\ [Next]_vars => SubscriptionsComing'
  <2> SUFFICES ASSUME SubscriptionsComing, [Next]_vars  PROVE SubscriptionsComing'
    OBVIOUS
  <2>1. CASE UNCHANGED vars
    BY <2>1 DEF vars
  <2>2. CASE Connect \/ Dialling \/ SettingUp \/ ReceiveSignal \/ StopReconnector
    BY <2>2 DEF Connect, Dialling, ConnectFails, RedialFails, TryLater, Reconnect, Dial,
                SettingUp, SetConn, Install, EmitConnect, Run, ReceiveSignal, StopReconnector, Stops
  <2>3. ASSUME NEW c \in Conns, Reading(c)  PROVE SubscriptionsComing'
    BY <2>3 DEF Reading, Returning, ReaderStops, BeginRead, ReadMessage, ReadFails, Dispatch,
                ReaderSignals, Reconnect, ReaderCancels, EmitDisconnect
  <2>4. ASSUME NEW c \in Conns, PingerEnds(c) \/ PingFails(c)  PROVE SubscriptionsComing'
    BY <2>4 DEF PingerEnds, PingFails, PingerStops, PingerSignals, PingerAsks, Reconnect, PingerCancels
  <2>5. CASE Others
    BY <2>5 DEF Others, Resubscribe, ResubscribeReconnects, AskAgain, Reconnect, Close, CloseReads,
                CloseCancels, CloseWrites, End, Break
  <2> QED
    BY <2>1, <2>2, <2>3, <2>4, <2>5 DEF Next, Others
<1> QED
  BY <1>1, <1>2, PTL DEF Spec
-----------------------------------------------------------------------------
(* The subscriber's view, by the steps that change it. *)
LEMMA StepImplements == IInv /\ [Next]_vars => [Events!Next]_(Events!vars)
<1> SUFFICES ASSUME IInv, [Next]_vars  PROVE [Events!Next]_(Events!vars)
  OBVIOUS
<1> USE DEF Events!vars, IInv, TypeOK, AtMostOne, SettingUpOK, GoroutinesOK, UpOK, SourceOK,
            fields, sockets, goroutines, history
<1>1. CASE UNCHANGED vars
  BY <1>1 DEF vars
<1>2. CASE EmitConnect
  <2>1. PICK c \in Conns : dialled = {c}
    BY <1>2 DEF EmitConnect
  <2>2. up = {} /\ up' = {c} /\ UNCHANGED source
    BY <1>2, <2>1 DEF EmitConnect
  <2> QED
    BY <2>2 DEF Events!Next, Events!Connect
<1>3. ASSUME NEW c \in Conns, Dispatch(c)  PROVE Events!Next
  <2>1. c \in conn /\ up = {c}
    BY <1>3 DEF Dispatch
  <2>2. source' = {c} /\ UNCHANGED up
    BY <1>3 DEF Dispatch
  <2> QED
    BY <2>1, <2>2 DEF Events!Next, Events!Message
<1>4. ASSUME NEW c \in Conns, EmitDisconnect(c)  PROVE Events!Next
  <2>1. c \in conn /\ up = {c}
    BY <1>4 DEF EmitDisconnect
  <2>2. up' = {} /\ source' = {}
    BY <1>4, <2>1 DEF EmitDisconnect
  <2> QED
    BY <2>1, <2>2 DEF Events!Next, Events!Disconnect
<1>5. CASE \/ Connect \/ Dialling \/ SetConn \/ Install \/ Run \/ ReceiveSignal \/ StopReconnector
           \/ Others
  BY <1>5 DEF Connect, Dialling, ConnectFails, RedialFails, Dial, SetConn, Install, Run, ReceiveSignal,
              StopReconnector, Others, Resubscribe, ResubscribeReconnects, Close, CloseReads,
              CloseCancels, CloseWrites, End, Break
<1>6. ASSUME NEW c \in Conns, PingerEnds(c) \/ PingFails(c)  PROVE UNCHANGED Events!vars
  BY <1>6 DEF PingerEnds, PingFails, PingerStops, PingerSignals, PingerCancels
<1>7. ASSUME NEW c \in Conns, Reading(c)  PROVE [Events!Next]_(Events!vars)
  <2>1. CASE Dispatch(c) \/ EmitDisconnect(c)
    BY <2>1, <1>3, <1>4
  <2>2. CASE ~(Dispatch(c) \/ EmitDisconnect(c))
    BY <2>2, <1>7 DEF Reading, Returning, ReaderStops, BeginRead, ReadMessage, ReadFails,
                      ReaderSignals, ReaderCancels
  <2> QED
    BY <2>1, <2>2
<1> QED
  BY <1>1, <1>2, <1>5, <1>6, <1>7 DEF Next, SettingUp, Others

(* StandardStream implements ConnectionEvents: its subscribers are told of one
   connection at a time (SetConn's WaitAndClear, Read's deferred EmitDisconnect). *)
THEOREM Implementation == Spec => ImplementsEvents
<1>1. Init => Events!Init
  BY DEF Init, Events!Init
<1> QED
  BY <1>1, StepImplements, Invariant, PTL DEF Spec, ImplementsEvents, Events!Spec
=============================================================================
