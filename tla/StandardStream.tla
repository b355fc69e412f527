--------------------------- MODULE StandardStream ---------------------------
(***************************************************************************)
(* types.StandardStream with its SyncGroup (pkg/types/stream.go,           *)
(* pkg/types/syncgroup.go): the goroutine that calls Connect and then      *)
(* becomes the reconnector, a reader and a ping worker for each            *)
(* connection, a caller of Resubscribe, a caller of Close, and the end of  *)
(* the context that was given to Connect.                                  *)
(*                                                                         *)
(* A new connection is dialled while the old one may still run, and takes  *)
(* its place only when the goroutines of the old one are gone, so two      *)
(* names are enough: a connection that was replaced gives its name back.   *)
(* Close is called once, after a connection was made (it dereferences      *)
(* Conn), and Connect once.                                                *)
(***************************************************************************)
EXTENDS Naturals, FiniteSets

CONSTANT Conns   \* names of connections

ASSUME ConnsAssumption == Cardinality(Conns) > 1

VARIABLES
    (* fields of the stream *)
    conn,        \* s.Conn: the set of at most one connection
    reconnectC,  \* a signal is in ReconnectC, which has room for one
    closeC,      \* CloseC is closed
    ended,       \* the context given to Connect is done
    stale,       \* Subscriptions changed since a connect callback sent them
    (* connections *)
    socket,      \* [Conns -> "open", "broken" by the peer or network, "closed" by us, or "none"]
    cancelled,   \* the connections whose own context was cancelled
    (* goroutines *)
    connector,   \* where Connect, later the reconnector, is
    dialled,     \* the set of at most one connection it is setting up
    reader,      \* [Conns -> where Read is]
    pinger,      \* [Conns -> where ping is]
    subscriber,  \* where the caller of Resubscribe is
    closer,      \* where the caller of Close is
    closing,     \* the connection Close read
    (* history *)
    up,          \* connections announced by EmitConnect whose reader did not EmitDisconnect
    source       \* the connection whose message was dispatched last, while it is announced

fields == <<conn, reconnectC, closeC, ended, stale>>
sockets == <<socket, cancelled>>
goroutines == <<connector, dialled, reader, pinger, subscriber, closer, closing>>
history == <<up, source>>
vars == <<fields, sockets, goroutines, history>>

AtMostOne == {{}} \cup {{c} : c \in Conns}

TypeOK ==
    /\ conn \in AtMostOne /\ dialled \in AtMostOne /\ closing \in AtMostOne
    /\ reconnectC \in BOOLEAN /\ closeC \in BOOLEAN /\ ended \in BOOLEAN /\ stale \in BOOLEAN
    /\ socket \in [Conns -> {"none", "open", "broken", "closed"}]
    /\ cancelled \subseteq Conns
    /\ connector \in {"idle", "dial", "lock", "wait", "emit", "run", "select", "stopped", "failed"}
    /\ reader \in [Conns -> {"select", "read", "handle", "signal", "cancel", "emit", "done"}]
    /\ pinger \in [Conns -> {"select", "signal", "cancel", "done"}]
    /\ subscriber \in {"idle", "signal"}
    /\ closer \in {"idle", "lock", "cancel", "write", "done"}
    /\ up \subseteq Conns
    /\ source \subseteq Conns

Init ==
    /\ conn = {} /\ dialled = {} /\ closing = {}
    /\ reconnectC = FALSE /\ closeC = FALSE /\ ended = FALSE /\ stale = FALSE
    /\ socket = [c \in Conns |-> "none"]
    /\ cancelled = {}
    /\ connector = "idle"
    /\ reader = [c \in Conns |-> "done"]
    /\ pinger = [c \in Conns |-> "done"]
    /\ subscriber = "idle"
    /\ closer = "idle"
    /\ up = {} /\ source = {}

(* Reconnect: a send that gives up when the channel is full. *)
Reconnect == reconnectC' = TRUE

(* connCtx.Done() *)
Done(c) == ended \/ c \in cancelled

-----------------------------------------------------------------------------
(***************************************************************************)
(* Connect and reconnector                                                 *)
(***************************************************************************)
Connect ==
    /\ connector = "idle"
    /\ connector' = "dial"
    /\ UNCHANGED <<fields, sockets, dialled, reader, pinger, subscriber, closer, closing, history>>

(* beforeConnect or the first Dial returns an error: there is no stream. *)
ConnectFails ==
    /\ connector = "dial"
    /\ conn = {}
    /\ connector' = "failed"
    /\ UNCHANGED <<fields, sockets, dialled, reader, pinger, subscriber, closer, closing, history>>

(* The connection gets a context and goroutines of its own. *)
Dial(c) ==
    /\ connector = "dial"
    /\ c \notin conn
    /\ dialled' = {c}
    /\ socket' = [socket EXCEPT ![c] = "open"]
    /\ connector' = "lock"
    /\ UNCHANGED <<fields, cancelled, reader, pinger, subscriber, closer, closing, history>>

(* Mutant: the failed attempt is not repeated. *)
GiveUp == UNCHANGED reconnectC

TryLater == Reconnect

RedialFails ==
    /\ connector = "dial"
    /\ conn # {}
    /\ TryLater
    /\ connector' = "select"
    /\ UNCHANGED <<conn, closeC, ended, stale, sockets, dialled, reader, pinger, subscriber,
                   closer, closing, history>>

(* SetConn: lock ConnLock, cancel the previous connection, ... *)
SetConn ==
    /\ connector = "lock"
    /\ cancelled' = cancelled \cup conn
    /\ connector' = "wait"
    /\ UNCHANGED <<fields, socket, dialled, reader, pinger, subscriber, closer, closing, history>>

(* Mutant: the previous connection's reader is not waited for. *)
PingersGone == \A c \in conn : pinger[c] = "done"

(* ... WaitAndClear: the previous goroutines have returned, ... *)
WaitAndClear == \A c \in conn : reader[c] = "done" /\ pinger[c] = "done"

(* Mutant: the previous connection stays beside the new one. *)
InstallBeside == conn' = conn \cup dialled

InstallDialled == conn' = dialled

(* ... install the new connection and unlock.  Nothing but Close can refer to
   the previous connection, closed or not, and what Close still does to it has
   no effect: its name is free. *)
Install ==
    /\ connector = "wait"
    /\ WaitAndClear
    /\ InstallDialled
    /\ socket' = [c \in Conns |-> IF c \in conn THEN "none" ELSE socket[c]]
    /\ cancelled' = cancelled \ conn
    /\ closing' = closing \ conn
    /\ connector' = "emit"
    /\ UNCHANGED <<reconnectC, closeC, ended, stale, dialled, reader, pinger, subscriber,
                   closer, history>>

(* EmitConnect; a connect callback sends the subscriptions. *)
EmitConnect ==
    /\ connector = "emit"
    /\ up' = up \cup dialled
    /\ stale' = FALSE
    /\ connector' = "run"
    /\ UNCHANGED <<conn, reconnectC, closeC, ended, sockets, dialled, reader, pinger,
                   subscriber, closer, closing, source>>

(* sg.Add twice and sg.Run; the first time, the reconnector and EmitStart follow. *)
Run ==
    /\ connector = "run"
    /\ reader' = [c \in Conns |-> IF c \in dialled THEN "select" ELSE reader[c]]
    /\ pinger' = [c \in Conns |-> IF c \in dialled THEN "select" ELSE pinger[c]]
    /\ dialled' = {}
    /\ connector' = "select"
    /\ UNCHANGED <<fields, sockets, subscriber, closer, closing, history>>

(* reconnector's select chooses among what is ready. *)
ReceiveSignal ==
    /\ connector = "select"
    /\ reconnectC
    /\ reconnectC' = FALSE
    /\ connector' = "dial"
    /\ UNCHANGED <<conn, closeC, ended, stale, sockets, dialled, reader, pinger, subscriber,
                   closer, closing, history>>

(* Mutant: the reconnector does not look at CloseC. *)
StopsWhenEnded == ended

Stops == ended \/ closeC

StopReconnector ==
    /\ connector = "select"
    /\ Stops
    /\ connector' = "stopped"
    /\ UNCHANGED <<fields, sockets, dialled, reader, pinger, subscriber, closer, closing, history>>

-----------------------------------------------------------------------------
(***************************************************************************)
(* Read(c)                                                                 *)
(***************************************************************************)
ReaderGoto(c, l) == reader' = [reader EXCEPT ![c] = l]

ReaderStops(c) ==
    /\ reader[c] = "select"
    /\ Done(c) \/ closeC
    /\ ReaderGoto(c, "cancel")
    /\ UNCHANGED <<fields, sockets, connector, dialled, pinger, subscriber, closer, closing, history>>

BeginRead(c) ==
    /\ reader[c] = "select"
    /\ ~Done(c) /\ ~closeC
    /\ ReaderGoto(c, "read")
    /\ UNCHANGED <<fields, sockets, connector, dialled, pinger, subscriber, closer, closing, history>>

ReadMessage(c) ==
    /\ reader[c] = "read"
    /\ socket[c] = "open"
    /\ ReaderGoto(c, "handle")
    /\ UNCHANGED <<fields, sockets, connector, dialled, pinger, subscriber, closer, closing, history>>

(* EmitRawMessage and the dispatcher. *)
Dispatch(c) ==
    /\ reader[c] = "handle"
    /\ source' = {c}
    /\ ReaderGoto(c, "select")
    /\ UNCHANGED <<fields, sockets, connector, dialled, pinger, subscriber, closer, closing, up>>

(* An error, or the read deadline: the connection is closed and a new one asked for. *)
ReadFails(c) ==
    /\ reader[c] = "read"
    /\ socket' = [socket EXCEPT ![c] = "closed"]
    /\ ReaderGoto(c, "signal")
    /\ UNCHANGED <<fields, cancelled, connector, dialled, pinger, subscriber, closer, closing, history>>

ReaderSignals(c) ==
    /\ reader[c] = "signal"
    /\ Reconnect
    /\ ReaderGoto(c, "cancel")
    /\ UNCHANGED <<conn, closeC, ended, stale, sockets, connector, dialled, pinger, subscriber,
                   closer, closing, history>>

ReaderCancels(c) ==
    /\ reader[c] = "cancel"
    /\ cancelled' = cancelled \cup {c}
    /\ ReaderGoto(c, "emit")
    /\ UNCHANGED <<fields, socket, connector, dialled, pinger, subscriber, closer, closing, history>>

EmitDisconnect(c) ==
    /\ reader[c] = "emit"
    /\ up' = up \ {c}
    /\ source' = source \ {c}
    /\ ReaderGoto(c, "done")
    /\ UNCHANGED <<fields, sockets, connector, dialled, pinger, subscriber, closer, closing>>

(***************************************************************************)
(* ping(c); a ping that succeeds changes nothing.                          *)
(***************************************************************************)
PingerGoto(c, l) == pinger' = [pinger EXCEPT ![c] = l]

PingerStops(c) ==
    /\ pinger[c] = "select"
    /\ Done(c) \/ closeC
    /\ PingerGoto(c, "cancel")
    /\ UNCHANGED <<fields, sockets, connector, dialled, reader, subscriber, closer, closing, history>>

(* The heart beat or the ping message fails, or its deadline passes. *)
PingFails(c) ==
    /\ pinger[c] = "select"
    /\ PingerGoto(c, "signal")
    /\ UNCHANGED <<fields, sockets, connector, dialled, reader, subscriber, closer, closing, history>>

(* Mutant: a failed ping only ends the connection. *)
PingerGivesUp == UNCHANGED reconnectC

PingerAsks == Reconnect

PingerSignals(c) ==
    /\ pinger[c] = "signal"
    /\ PingerAsks
    /\ PingerGoto(c, "cancel")
    /\ UNCHANGED <<conn, closeC, ended, stale, sockets, connector, dialled, reader, subscriber,
                   closer, closing, history>>

PingerCancels(c) ==
    /\ pinger[c] = "cancel"
    /\ cancelled' = cancelled \cup {c}
    /\ PingerGoto(c, "done")
    /\ UNCHANGED <<fields, socket, connector, dialled, reader, subscriber, closer, closing, history>>

-----------------------------------------------------------------------------
(***************************************************************************)
(* Resubscribe: replace the subscriptions, then Reconnect, under subLock.  *)
(***************************************************************************)
Resubscribe ==
    /\ subscriber = "idle"
    /\ stale' = TRUE
    /\ subscriber' = "signal"
    /\ UNCHANGED <<conn, reconnectC, closeC, ended, sockets, connector, dialled, reader, pinger,
                   closer, closing, history>>

(* Mutant: the signal is sent only while the reconnector waits for it. *)
AskIfWaiting == IF connector = "select" THEN Reconnect ELSE UNCHANGED reconnectC

AskAgain == Reconnect

ResubscribeReconnects ==
    /\ subscriber = "signal"
    /\ AskAgain
    /\ subscriber' = "idle"
    /\ UNCHANGED <<conn, closeC, ended, stale, sockets, connector, dialled, reader, pinger,
                   closer, closing, history>>

(***************************************************************************)
(* Close                                                                   *)
(***************************************************************************)
Close ==
    /\ closer = "idle"
    /\ conn # {}
    /\ closeC' = TRUE
    /\ closer' = "lock"
    /\ UNCHANGED <<conn, reconnectC, ended, stale, sockets, connector, dialled, reader, pinger,
                   subscriber, closing, history>>

(* Under ConnLock, which SetConn holds while it waits. *)
CloseReads ==
    /\ closer = "lock"
    /\ connector # "wait"
    /\ closing' = conn
    /\ closer' = "cancel"
    /\ UNCHANGED <<fields, sockets, connector, dialled, reader, pinger, subscriber, history>>

CloseCancels ==
    /\ closer = "cancel"
    /\ cancelled' = cancelled \cup closing
    /\ closer' = "write"
    /\ UNCHANGED <<fields, socket, connector, dialled, reader, pinger, subscriber, closing, history>>

(* The close message, which the peer answers by closing too; or the write fails. *)
CloseWrites ==
    /\ closer = "write"
    /\ socket' = [c \in Conns |-> IF c \in closing /\ socket[c] = "open" THEN "broken" ELSE socket[c]]
    /\ closing' = {}
    /\ closer' = "done"
    /\ UNCHANGED <<fields, cancelled, connector, dialled, reader, pinger, subscriber, history>>

(***************************************************************************)
(* The surroundings: connections break, the program ends.                  *)
(***************************************************************************)
Break(c) ==
    /\ socket[c] = "open"
    /\ socket' = [socket EXCEPT ![c] = "broken"]
    /\ UNCHANGED <<fields, cancelled, goroutines, history>>

End ==
    /\ ~ended
    /\ ended' = TRUE
    /\ UNCHANGED <<conn, reconnectC, closeC, stale, sockets, goroutines, history>>

-----------------------------------------------------------------------------
Dialling == ConnectFails \/ RedialFails \/ \E c \in Conns : Dial(c)

SettingUp == SetConn \/ Install \/ EmitConnect \/ Run

Returning(c) == ReadMessage(c) \/ ReadFails(c)

Reading(c) == \/ ReaderStops(c) \/ BeginRead(c) \/ Returning(c) \/ Dispatch(c)
              \/ ReaderSignals(c) \/ ReaderCancels(c) \/ EmitDisconnect(c)

PingerEnds(c) == PingerStops(c) \/ PingerSignals(c) \/ PingerCancels(c)

Next ==
    \/ Connect \/ Dialling \/ SettingUp \/ ReceiveSignal \/ StopReconnector
    \/ \E c \in Conns : Reading(c) \/ PingerEnds(c) \/ PingFails(c) \/ Break(c)
    \/ Resubscribe \/ ResubscribeReconnects
    \/ Close \/ CloseReads \/ CloseCancels \/ CloseWrites
    \/ End

Spec == Init /\ [][Next]_vars

(***************************************************************************)
(* Every goroutine is scheduled, reads end at their deadline, a select     *)
(* takes each of its ready cases now and then, the mutex is granted, and   *)
(* dialling again and again succeeds in the end.                           *)
(***************************************************************************)
Fairness ==
    /\ WF_vars(Dialling) /\ SF_vars(\E c \in Conns : Dial(c))
    /\ WF_vars(SettingUp)
    /\ WF_vars(ReceiveSignal) /\ SF_vars(StopReconnector)
    /\ \A c \in Conns : WF_vars(Reading(c)) /\ WF_vars(PingerEnds(c))
    /\ WF_vars(ResubscribeReconnects)
    /\ SF_vars(CloseReads) /\ WF_vars(CloseCancels \/ CloseWrites)

FairSpec == Spec /\ Fairness
-----------------------------------------------------------------------------
(***************************************************************************)
(* Properties                                                              *)
(***************************************************************************)
Events == INSTANCE ConnectionEvents

(* A subscriber hears of one connection at a time: connected, its messages,
   disconnected; however reconnections, failing readers and pingers, Close and
   Resubscribe interleave ("ensure the previous context is cancelled and all
   routines are closed"). *)
ImplementsEvents == Events!Spec

Running == ~closeC /\ ~ended

(* The reconnector will make a connection, or will be asked to. *)
ConnectionComing == \/ reconnectC
                    \/ connector \in {"idle", "dial", "lock", "wait", "emit", "run", "failed"}

(* No wakeup is lost: when the reader of the connection is leaving, or is gone,
   the stream being neither closed nor ended, a new connection is coming. *)
ReconnectComing ==
    Running => ConnectionComing \/ \A c \in conn : reader[c] \notin {"cancel", "emit", "done"}

(* New subscriptions reach the exchange: until a connect callback has sent
   them, the signal is there or the callback is still to come, also when
   Resubscribe overlaps a reconnection ("It will reconnect to the server"). *)
SubscriptionsComing ==
    Running /\ stale =>
        \/ reconnectC
        \/ subscriber = "signal"
        \/ connector \in {"idle", "dial", "lock", "wait", "emit", "failed"}

(* A stream without a connection is connected again, and new subscriptions are
   sent, unless it is closed or ended. *)
ConnectsAgain ==
    (conn # {} /\ (up = {} \/ stale)) ~> ((up # {} /\ ~stale) \/ ~Running)

(* "close the close signal channel, so that reader and ping worker will stop":
   after Close, all goroutines of the stream return, and Close does. *)
CloseStopsAll ==
    closeC ~> /\ connector = "stopped" /\ closer = "done"
              /\ \A c \in Conns : reader[c] = "done" /\ pinger[c] = "done"
=============================================================================
