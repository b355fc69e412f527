----------------------------- MODULE DepthBuffer ----------------------------
(***************************************************************************)
(* depth.Buffer (pkg/depth/buffer.go) between a stream of order book       *)
(* updates and the StreamOrderBook that subscribes to it.  The reader      *)
(* goroutine of the stream calls AddUpdate, fetch goroutines started       *)
(* through the Reonce ask the exchange for a snapshot, and the disconnect  *)
(* handler calls Reset.                                                    *)
(*                                                                         *)
(* Everything between b.mu.Lock and b.mu.Unlock is one step; the callbacks *)
(* OnPush and OnReady run after the unlock, in steps of their own.         *)
(*                                                                         *)
(* Update k of the exchange changes one price level, k % Levels.  A book   *)
(* is the number of the last update each level shows.                      *)
(***************************************************************************)
EXTENDS Integers, Sequences

CONSTANTS
    MaxVersion,  \* bound: how many changes the exchange makes
    MaxWidth,    \* how many changes one update may carry
    Levels,      \* number of price levels
    Fetchers,    \* bound: fetch goroutines alive at one time
    MaxResets    \* bound: how often the connection breaks

ASSUME DepthAssumption ==
    /\ MaxVersion \in Nat
    /\ MaxWidth \in Nat \ {0}
    /\ Levels \in Nat \ {0}
    /\ MaxResets \in Nat

Versions == 0 .. MaxVersion

Update == [first : Versions, final : Versions]

Book == [0 .. Levels - 1 -> Versions]

(* The last of the changes a to b that touches a level, 0 when none does. *)
LastChange(l, a, b) ==
    LET hits == {k \in a .. b : k % Levels = l}
    IN  IF hits = {} THEN 0 ELSE CHOOSE k \in hits : \A j \in hits : j <= k

(* The exchange's book after v changes, and what an update does to a book. *)
BookAt(v) == [l \in 0 .. Levels - 1 |-> LastChange(l, 1, v)]

Apply(b, u) ==
    [l \in 0 .. Levels - 1 |->
        LET k == LastChange(l, u.first, u.final) IN IF k = 0 THEN b[l] ELSE k]

VARIABLES
    version,   \* the exchange: changes made so far
    feed,      \* the exchange: updates in flight
    resets,    \* how often the connection broke
    buffer,    \* b.buffer
    final,     \* b.finalUpdateID
    ready,     \* b.snapshot # nil
    resetC,    \* b.resetC holds a signal
    once,      \* b.once.done
    adding,    \* AddUpdate: <<>>, or the update, and whether it is to be pushed
    pc,        \* [Fetchers -> where the fetch goroutine is]
    fetched,   \* [Fetchers -> version of the snapshot it holds]
    updates,   \* [Fetchers -> the buffered updates it emits after it]
    book,      \* the subscriber's book
    base,      \* history: version of the snapshot in use
    committed  \* history: the book, had the callbacks run inside the mutex

exchangeVars == <<version, feed, resets>>
bufferVars == <<buffer, final, ready, resetC, once>>
fetchVars == <<pc, fetched, updates>>
vars == <<exchangeVars, bufferVars, adding, fetchVars, book, base, committed>>

TypeOK ==
    /\ version \in Versions
    /\ feed \in Seq(Update)
    /\ resets \in 0 .. MaxResets
    /\ buffer \in Seq(Update)
    /\ final \in Versions
    /\ ready \in BOOLEAN
    /\ resetC \in BOOLEAN
    /\ once \in BOOLEAN
    /\ adding \in {<<>>} \cup ({"lock", "push"} \X Update)
    /\ pc \in [Fetchers -> {"none", "fetch", "fetched", "load", "emit"}]
    /\ fetched \in [Fetchers -> Versions]
    /\ updates \in [Fetchers -> Seq(Update)]
    /\ book \in Book
    /\ base \in Versions
    /\ committed \in Book

Init ==
    /\ version = 0
    /\ feed = <<>>
    /\ resets = 0
    /\ buffer = <<>>
    /\ final = 0
    /\ ready = FALSE
    /\ resetC = FALSE
    /\ once = FALSE
    /\ adding = <<>>
    /\ pc = [f \in Fetchers |-> "none"]
    /\ fetched = [f \in Fetchers |-> 0]
    /\ updates = [f \in Fetchers |-> <<>>]
    /\ book = BookAt(0)
    /\ base = 0
    /\ committed = BookAt(0)

-----------------------------------------------------------------------------
(***************************************************************************)
(* The exchange (external) publishes its changes, some per update.         *)
(***************************************************************************)
Publish(width) ==
    /\ version + width <= MaxVersion
    /\ version' = version + width
    /\ feed' = Append(feed, [first |-> version + 1, final |-> version + width])
    /\ UNCHANGED <<resets, bufferVars, adding, fetchVars, book, base, committed>>

(* resetSnapshot followed by emitReset; the signal channel has one slot. *)
ResetSnapshot ==
    /\ ready' = FALSE
    /\ final' = 0
    /\ resetC' = TRUE

(* The connection breaks: what is in flight is lost, and handleDisconnect
   calls Reset, which leaves the buffered updates where they are. *)
Reset ==
    /\ resets < MaxResets
    /\ resets' = resets + 1
    /\ feed' = <<>>
    /\ ResetSnapshot
    /\ UNCHANGED <<version, buffer, once, adding, fetchVars, book, base, committed>>

-----------------------------------------------------------------------------
(***************************************************************************)
(* AddUpdate                                                               *)
(***************************************************************************)

(* Up to b.mu.Lock(): take the reset signal and re-arm the Reonce, which
   only this goroutine ever touches. *)
AddUpdate ==
    /\ adding = <<>>
    /\ feed # <<>>
    /\ adding' = <<"lock", Head(feed)>>
    /\ feed' = Tail(feed)
    /\ once' = (once /\ ~resetC)
    /\ resetC' = FALSE
    /\ UNCHANGED <<version, resets, buffer, final, ready, fetchVars, book, base, committed>>

(* once.Do(func() { go b.tryFetch() }) *)
DoOnce ==
    IF once
    THEN UNCHANGED <<once, pc>>
    ELSE /\ once' = TRUE
         /\ \E f \in Fetchers : pc[f] = "none" /\ pc' = [pc EXCEPT ![f] = "fetch"]

(* Without a snapshot the update is buffered. *)
BufferUpdate(u) ==
    /\ adding = <<"lock", u>>
    /\ ~ready
    /\ buffer' = Append(buffer, u)
    /\ DoOnce
    /\ adding' = <<>>
    /\ UNCHANGED <<exchangeVars, final, ready, resetC, fetched, updates, book, base, committed>>

(* Mutant: one missing change goes unnoticed. *)
MissingTwo(u, last) == u.first > last + 2

Missing(u, last) == u.first > last + 1

(* Mutant: no reset signal, so the Reonce is never armed again. *)
ForgetSnapshot ==
    /\ ready' = FALSE
    /\ final' = 0
    /\ UNCHANGED resetC

DropSnapshot == ResetSnapshot

FoundMissing(u) ==
    /\ adding = <<"lock", u>>
    /\ ready
    /\ Missing(u, final)
    /\ buffer' = <<u>>
    /\ DropSnapshot
    /\ adding' = <<>>
    /\ UNCHANGED <<exchangeVars, once, fetchVars, book, base, committed>>

Accept(u) ==
    /\ adding = <<"lock", u>>
    /\ ready
    /\ ~Missing(u, final)
    /\ final' = u.final
    /\ committed' = Apply(committed, u)
    /\ adding' = <<"push", u>>
    /\ UNCHANGED <<exchangeVars, buffer, ready, resetC, once, fetchVars, book, base>>

(* EmitPush, outside the mutex: StreamOrderBook.Update *)
Push(u) ==
    /\ adding = <<"push", u>>
    /\ book' = Apply(book, u)
    /\ adding' = <<>>
    /\ UNCHANGED <<exchangeVars, bufferVars, fetchVars, base, committed>>

-----------------------------------------------------------------------------
(***************************************************************************)
(* tryFetch: fetchAndPush until it succeeds.  A request that fails changes *)
(* nothing and is repeated, so only answered ones are steps.               *)
(***************************************************************************)
Fetch(f) ==
    /\ pc[f] = "fetch"
    /\ fetched' = [fetched EXCEPT ![f] = version]
    /\ pc' = [pc EXCEPT ![f] = "fetched"]
    /\ UNCHANGED <<exchangeVars, bufferVars, adding, updates, book, base, committed>>

(* Mutant: a snapshot that ends exactly at the first buffered update is refused. *)
TooEarlyOrEqual(v) == buffer # <<>> /\ v <= buffer[1].first

TooEarly(v) == buffer # <<>> /\ v < buffer[1].first

(* Reach[i]: the update ID reached from a snapshot of version v by the first i
   buffered updates, -1 once one is missing; an update that starts at or
   before the ID reached is an old event and skipped. *)
Reach(v) ==
    LET reach[i \in 0 .. Len(buffer)] ==
            IF i = 0 THEN v
            ELSE IF reach[i - 1] = -1 \/ Missing(buffer[i], reach[i - 1]) THEN -1
            ELSE IF buffer[i].first < reach[i - 1] + 1 THEN reach[i - 1]
            ELSE buffer[i].final
    IN  reach

Used(v) == {i \in DOMAIN buffer : buffer[i].first = Reach(v)[i - 1] + 1}

PushUpdates(v) ==
    LET push[i \in 0 .. Len(buffer)] ==
            IF i = 0 THEN <<>> ELSE IF i \in Used(v) THEN Append(push[i - 1], buffer[i]) ELSE push[i - 1]
    IN  push[Len(buffer)]

(* Mutant: a gap between the snapshot and the buffered updates is not looked for. *)
RefusedEarly(v) == TooEarly(v)

Refused(v) == TooEarly(v) \/ Reach(v)[Len(buffer)] = -1

FetchRefused(f) ==
    /\ pc[f] = "fetched"
    /\ Refused(fetched[f])
    /\ ResetSnapshot
    /\ pc' = [pc EXCEPT ![f] = "fetch"]
    /\ UNCHANGED <<exchangeVars, buffer, once, adding, fetched, updates, book, base, committed>>

ApplyAll(b, us) ==
    LET after[i \in 0 .. Len(us)] == IF i = 0 THEN b ELSE Apply(after[i - 1], us[i])
    IN  after[Len(us)]

FetchAccepted(f) ==
    LET v == fetched[f]
    IN  /\ pc[f] = "fetched"
        /\ ~Refused(v)
        /\ updates' = [updates EXCEPT ![f] = PushUpdates(v)]
        /\ buffer' = <<>>
        /\ final' = Reach(v)[Len(buffer)]
        /\ ready' = TRUE
        /\ base' = v
        /\ committed' = ApplyAll(BookAt(v), PushUpdates(v))
        /\ pc' = [pc EXCEPT ![f] = "load"]
        /\ UNCHANGED <<exchangeVars, resetC, once, adding, fetched, book>>

(* EmitReady, outside the mutex: StreamOrderBook.Load, then each update. *)
Load(f) ==
    /\ pc[f] = "load"
    /\ book' = BookAt(fetched[f])
    /\ pc' = [pc EXCEPT ![f] = "emit"]
    /\ UNCHANGED <<exchangeVars, bufferVars, adding, fetched, updates, base, committed>>

EmitUpdate(f) ==
    /\ pc[f] = "emit"
    /\ updates[f] # <<>>
    /\ book' = Apply(book, Head(updates[f]))
    /\ updates' = [updates EXCEPT ![f] = Tail(@)]
    /\ UNCHANGED <<exchangeVars, bufferVars, adding, pc, fetched, base, committed>>

FetchEnd(f) ==
    /\ pc[f] = "emit"
    /\ updates[f] = <<>>
    /\ pc' = [pc EXCEPT ![f] = "none"]
    /\ fetched' = [fetched EXCEPT ![f] = 0]
    /\ UNCHANGED <<exchangeVars, bufferVars, adding, updates, book, base, committed>>

-----------------------------------------------------------------------------
Stream == AddUpdate \/ \E u \in Update : BufferUpdate(u) \/ FoundMissing(u) \/ Accept(u) \/ Push(u)

TryFetch(f) == Fetch(f) \/ FetchRefused(f) \/ FetchAccepted(f) \/ Load(f) \/ EmitUpdate(f) \/ FetchEnd(f)

Next ==
    \/ \E width \in 1 .. MaxWidth : Publish(width)
    \/ Reset
    \/ Stream
    \/ \E f \in Fetchers : TryFetch(f)

Spec == Init /\ [][Next]_vars

(* Goroutines are scheduled and the exchange answers in the end. *)
Fairness == WF_vars(Stream) /\ \A f \in Fetchers : WF_vars(TryFetch(f))

FairSpec == Spec /\ Fairness
-----------------------------------------------------------------------------
(***************************************************************************)
(* Properties                                                              *)
(***************************************************************************)

(* What the buffer commits to under its mutex has no hole: as soon as it has
   caught up with its snapshot, the snapshot and the updates taken since
   make up exactly the exchange's book at finalUpdateID, however often the
   connection broke and however many fetches overlapped. *)
NoSilentGap ==
    ready /\ final >= base => committed = BookAt(final)

(* The buffer never waits for a snapshot nobody is going to fetch: once spent
   without a snapshot means that a fetch is under way, or that a reset signal
   is waiting to re-arm it. *)
FetchComing ==
    ~ready /\ once => resetC \/ \E f \in Fetchers : pc[f] \in {"fetch", "fetched"}

(* A fetch goroutine retries until the snapshot fits the buffered updates, and
   that comes to an end. *)
FetchEnds ==
    \A f \in Fetchers : (pc[f] # "none") ~> (pc[f] = "none")

Quiet == feed = <<>> /\ adding = <<>> /\ \A f \in Fetchers : pc[f] = "none"

(* "set the final update ID so that we will know if there is an update
   missing": when the buffer believes to be up to date, the subscriber's book
   misses no update. *)
MissingUpdateIsKnown ==
    Quiet /\ ready /\ final = version => book = BookAt(version)
=============================================================================
