---------------------------- MODULE XMakerProofs ----------------------------
(***************************************************************************)
(* No open quote of xmaker is forgotten, and CoveredPosition is what the   *)
(* acknowledged hedge orders will still change in the position, for any    *)
(* configuration, number of layers, rounds, fills and failures.            *)
(***************************************************************************)
EXTENDS XMaker, Lemmas

Label == {"idle", "quote", "submit", "add", "process", "uncovered", "hedge", "cover", "write", "store"}

(* What is generated is either about to be submitted or about to be added to
   the book; and while it is not submitted, nothing relies on it. *)
IInv ==
    /\ pc \in [Threads -> Label]
    /\ QuotesTracked
    /\ pc["loop"] = "submit" => open \subseteq active \cup failed
    /\ submitting # {} => pc["loop"] \in {"submit", "add"}

LEMMA InitInv == Init => IInv
  BY DEF Init, IInv, QuotesTracked, Label

(* A step that leaves the quotes alone, and whose goroutine does not come to
   submitting or adding some, changes nothing. *)
LEMMA QuotesUntouched ==
    ASSUME IInv, UNCHANGED <<open, active, submitting>>, failed \subseteq failed',
           NEW th \in Threads, NEW label \in Label \ {"submit", "add"},
           pc' = [pc EXCEPT ![th] = label],
           th = "loop" => pc["loop"] \notin {"submit", "add"}
    PROVE  IInv'
  BY DEF IInv, QuotesTracked, Threads, Streams

LEMMA NextInv == IInv /\ [Next]_vars => IInv'
<1> SUFFICES ASSUME IInv, [Next]_vars  PROVE IInv'
  OBVIOUS
<1> USE DEF exchangeVars, loopVars, positionVars, boundVars, Goto
<1>a. "loop" \in Threads /\ Streams \subseteq Threads /\ "loop" \notin Streams
  BY DEF Threads, Streams
<1>1. CASE UNCHANGED vars
  BY <1>1 DEF vars, IInv, QuotesTracked
<1>2. CASE CancelQuotes
  BY <1>a, <1>2 DEF CancelQuotes, IInv, QuotesTracked, Label
<1>3. CASE Generate
  BY <1>a, <1>3 DEF Generate, IInv, QuotesTracked, Label
<1>4. CASE SubmitQuotes
  BY <1>a, <1>4 DEF SubmitQuotes, IInv, QuotesTracked, Label
<1>5. CASE AddQuotes
  BY <1>a, <1>5 DEF AddQuotes, IInv, QuotesTracked, Label
<1>6. CASE Fill
  BY <1>6 DEF Fill, IInv, QuotesTracked
<1>7. ASSUME NEW th \in Threads, NEW t, NEW next \in {"idle", "process"}, AddTrade(th, t, next)
      PROVE  \E label \in Label \ {"submit", "add"} : pc' = [pc EXCEPT ![th] = label]
  BY <1>7 DEF AddTrade, Label
<1>8. CASE Process
  BY <1>a, <1>8, QuotesUntouched DEF Process, Label
<1>9. CASE ProcessTrade
  <2>1. PICK t \in batch : AddTrade("loop", t, "process")
    BY <1>9 DEF ProcessTrade
  <2>2. PICK label \in Label \ {"submit", "add"} : pc' = [pc EXCEPT !["loop"] = label]
    BY <2>1, <1>a, <1>7
  <2> QED
    BY <1>a, <1>9, <2>2, QuotesUntouched DEF ProcessTrade
<1>10. CASE ReadBase
  BY <1>a, <1>10, QuotesUntouched DEF ReadBase, Label
<1>11. CASE ReadCovered
  <2>1. PICK label \in {"idle", "hedge", "process"} : pc' = [pc EXCEPT !["loop"] = label]
    BY <1>11 DEF ReadCovered, DoHedge
  <2> QED
    BY <1>a, <1>11, <2>1, QuotesUntouched DEF ReadCovered, Label
<1>12. CASE SubmitHedge
  BY <1>a, <1>12, QuotesUntouched DEF SubmitHedge, Label
<1>13. CASE StoreHedge
  BY <1>a, <1>13, QuotesUntouched DEF StoreHedge, Label
<1>14. ASSUME NEW x \in Streams, Receive(x)  PROVE IInv'
  <2>1. CASE UNCHANGED pc
    BY <1>14, <2>1 DEF Receive, IInv, QuotesTracked
  <2>2. CASE AddTrade(x, Head(feed[x]), "idle")
    <3>1. PICK label \in Label \ {"submit", "add"} : pc' = [pc EXCEPT ![x] = label]
      BY <2>2, <1>a, <1>7
    <3> QED
      BY <1>a, <1>14, <3>1, <2>2, QuotesUntouched DEF Receive, AddTrade
  <2> QED
    BY <1>14, <2>1, <2>2 DEF Receive
<1>15. ASSUME NEW th \in Threads, ReadForCover(th)  PROVE IInv'
  BY <1>15, QuotesUntouched DEF ReadForCover, Label
<1>16. ASSUME NEW th \in Threads, WriteCover(th)  PROVE IInv'
  <2>1. PICK label \in {"idle", "process", "store"} : pc' = [pc EXCEPT ![th] = label]
    BY <1>16 DEF WriteCover
  <2> QED
    BY <1>16, <2>1, QuotesUntouched DEF WriteCover, Label
<1> QED
  BY <1>1, <1>2, <1>3, <1>4, <1>5, <1>6, <1>8, <1>9, <1>10, <1>11, <1>12, <1>13, <1>14, <1>15, <1>16
     DEF Next, Quoting, Hedging

(* Every open quote is in the active book, so that the next updateQuote cancels
   it, or about to be added to it, or left over by a submission that failed. *)
THEOREM QuotesTrackedInvariant == Spec => []QuotesTracked
<1>1. IInv => QuotesTracked
  BY DEF IInv
<1> QED
  BY <1>1, InitInv, NextInv, PTL DEF Spec

-----------------------------------------------------------------------------
(***************************************************************************)
(* Sums of quantities                                                      *)
(***************************************************************************)
Amounts(S) == IsFiniteSet(S) /\ \A t \in S : t.qty \in Int

LEMMA SumOf ==
    ASSUME NEW S, Amounts(S), NEW T \in SUBSET S
    PROVE  Amounts(T) /\ Sum(T) = SumFunctionOnSet([t \in S |-> t.qty], T)
  <1> DEFINE f == [t \in T |-> t.qty]
             g == [t \in S |-> t.qty]
  <1>1. Amounts(T)
    BY FS_Subset DEF Amounts
  <1>2. \A t \in T : f[t] \in Int /\ f[t] = g[t]
    BY DEF Amounts
  <1>3. SumFunctionOnSet(f, T) = SumFunctionOnSet(g, T)
    <2> HIDE DEF f, g
    <2> QED
      BY <1>1, <1>2, SumAgree DEF Amounts
  <1> QED
    BY <1>1, <1>3 DEF Sum

LEMMA SumIsInt ==
    ASSUME NEW S, Amounts(S)
    PROVE  Sum(S) \in Int
  <1> DEFINE f == [t \in S |-> t.qty]
  <1>1. \A t \in S : f[t] \in Int
    BY DEF Amounts
  <1>2. SumFunctionOnSet(f, S) \in Int
    <2> HIDE DEF f
    <2> QED
      BY <1>1, SumType DEF Amounts
  <1> QED
    BY <1>2 DEF Sum

LEMMA SumOfNone == Sum({}) = 0
  BY SumEmpty DEF Sum

LEMMA SumOfBoth ==
    ASSUME NEW S, Amounts(S), NEW T, Amounts(T), S \cap T = {}
    PROVE  Amounts(S \cup T) /\ Sum(S \cup T) = Sum(S) + Sum(T)
  <1> DEFINE f == [t \in S \cup T |-> t.qty]
  <1>1. Amounts(S \cup T)
    BY FS_Union DEF Amounts
  <1>2. \A t \in S \cup T : f[t] \in Int
    BY DEF Amounts
  <1>3. SumFunctionOnSet(f, S \cup T) = SumFunctionOnSet(f, S) + SumFunctionOnSet(f, T)
    <2> HIDE DEF f
    <2> QED
      BY <1>2, SumUnion DEF Amounts
  <1>4. Sum(S) = SumFunctionOnSet(f, S) /\ Sum(T) = SumFunctionOnSet(f, T)
    BY <1>1, SumOf
  <1> QED
    BY <1>1, <1>3, <1>4 DEF Sum

LEMMA SumOfOne ==
    ASSUME NEW t, t.qty \in Int
    PROVE  Amounts({t}) /\ Sum({t}) = t.qty
  <1> DEFINE f == [s \in {t} |-> s.qty]
  <1>1. f[t] = t.qty
    OBVIOUS
  <1>2. SumFunctionOnSet(f, {}) = 0
    BY SumEmpty
  <1>3. SumFunctionOnSet(f, {} \cup {t}) = f[t] + SumFunctionOnSet(f, {})
    <2>1. \A x \in {} \cup {t} : f[x] \in Int
      OBVIOUS
    <2> HIDE DEF f
    <2> QED
      BY <2>1, SumAdd, FS_EmptySet
  <1>4. {} \cup {t} = {t}
    OBVIOUS
  <1>5. SumFunctionOnSet(f, {t}) = t.qty
    <2> HIDE DEF f
    <2> QED
      BY <1>1, <1>2, <1>3, <1>4
  <1> QED
    BY <1>5, FS_Singleton DEF Amounts, Sum

(* What is taken from a set is taken from its sum. *)
LEMMA SumWithout ==
    ASSUME NEW S, Amounts(S), NEW t \in S
    PROVE  Sum(S \ {t}) = Sum(S) - t.qty
  <1>1. Amounts(S \ {t}) /\ t.qty \in Int
    BY SumOf DEF Amounts
  <1>2. Amounts({t}) /\ Sum({t}) = t.qty
    BY <1>1, SumOfOne
  <1> DEFINE R == S \ {t}
  <1>3. R \cup {t} = S
    OBVIOUS
  <1>4. Sum(S) = Sum(R) + Sum({t})
    <2>1. Sum(R \cup {t}) = Sum(R) + Sum({t})
      BY <1>1, <1>2, SumOfBoth
    <2> HIDE DEF R
    <2> QED
      BY <1>3, <2>1, Zenon
  <1>5. Sum(R) \in Int
    BY <1>1, SumIsInt
  <1>6. Sum(R) = Sum(S) - t.qty
    <2> HIDE DEF R
    <2> QED
      BY <1>1, <1>2, <1>3, <1>4, <1>5
  <1> QED
    BY <1>6

-----------------------------------------------------------------------------
(***************************************************************************)
(* The invariant                                                           *)
(***************************************************************************)
TradesOf(o) == {t \in Trades : t.order = o}

(* The trades are numbered as they are executed, and a hedge order that is
   stored, or has a trade, has a number that the next one will not get. *)
Numbered ==
    /\ executed \in Seq(Trade)
    /\ IsFiniteSet(Trades)
    /\ \A t \in Trades : t.id <= Len(executed) /\ (t.order.ex = "source" => t.order.n <= Len(executed))
    /\ \A o \in orderStore : o.ex = "source" => o.n <= Len(executed)
    /\ \A o \in open \cup submitting : o.ex = "maker"

(* A trade is in one place: in flight, once, waiting for its order, taken by
   Process, or added to the position, which it is only with its order known. *)
Delivered ==
    /\ tradeStore \cap batch = {}
    /\ (tradeStore \cup batch) \cap applied = {}
    /\ \A x \in Streams : \A i \in DOMAIN feed[x] :
          feed[x][i] \notin tradeStore \cup batch \cup applied /\ feed[x][i].order.ex = x
    /\ \A x \in Streams : \A i, j \in DOMAIN feed[x] : feed[x][i] = feed[x][j] => i = j
    /\ \A t \in batch \cup applied : t.order \in orderStore

Single(S) == S = {} \/ \E x : S = {x}

(* What a goroutine is adding to CoveredPosition: a trade that is in the
   position, which no other goroutine is adding; or, in the loop, a hedge order
   that is not stored, first without trades and then with all of them. *)
Occupied ==
    /\ \A th \in Threads : Single(cur[th])
    /\ \A th \in Threads : pc[th] \notin {"hedge", "cover", "write", "store"} => cur[th] = {}
    /\ \A th \in Threads : \A t \in cur[th] :
          t \in Trade => t \in applied /\ t.order.ex = "source" /\ pc[th] \in {"cover", "write"}
    /\ \A a, b \in Threads : a # b => cur[a] \cap cur[b] = {}
    /\ \A x \in Streams : pc[x] \in {"idle", "cover", "write"} /\ cur[x] \subseteq Trade
    /\ \A o \in cur["loop"] : o \in Order =>
          /\ o.ex = "source"
          /\ pc["loop"] \in {"hedge", "cover", "write"} => o \notin orderStore
          /\ pc["loop"] = "hedge" => TradesOf(o) = {} /\ o.n <= Len(executed) + 1
          /\ pc["loop"] \in {"cover", "write", "store"} =>
                o.n <= Len(executed) /\ Sum(TradesOf(o)) = o.qty

-----------------------------------------------------------------------------
(***************************************************************************)
(* The operators                                                           *)
(***************************************************************************)
LEMMA MinType ==
    ASSUME NEW a \in Int, NEW b \in Int
    PROVE  Min({a, b}) \in Int
  <1>1. \E x \in {a, b} : \A y \in {a, b} : x <= y
    OBVIOUS
  <1> QED
    BY <1>1 DEF Min

LEMMA Kinds ==
    /\ \A o \in Order : IsOrder(o) /\ o \notin Trade /\ o.qty \in Int /\ o.n \in Nat /\ o.ex \in Streams
    /\ \A t \in Trade : ~IsOrder(t) /\ t \notin Order /\ t.qty \in Int /\ t.id \in Nat /\ t.order \in Order
  <1>1. ASSUME NEW o \in Order
        PROVE  DOMAIN o = {"ex", "n", "qty"} /\ o.qty \in Int /\ o.n \in Nat /\ o.ex \in Streams
    BY DEF Order
  <1>2. ASSUME NEW t \in Trade
        PROVE  DOMAIN t = {"id", "order", "qty"} /\ t.qty \in Int /\ t.id \in Nat /\ t.order \in Order
    BY DEF Trade
  <1> QED
    BY <1>1, <1>2 DEF IsOrder

LEMMA TradesAreAmounts ==
    ASSUME Numbered, NEW S \in SUBSET Trades
    PROVE  Amounts(S)
  <1>1. Trades \subseteq Trade
    BY DEF Numbered, Trades, ToSet
  <1> QED
    BY <1>1, Kinds, FS_Subset DEF Numbered, Amounts

(* The quotes that can be generated. *)
LEMMA LayersType ==
    ASSUME TypeOK, NEW side \in Int, NEW maker, NEW hedge
    PROVE  Layers(side, maker, hedge) \subseteq {o \in Order : o.ex = "maker"}
  <1> DEFINE N == setting.layers
             V == SUBSET {o \in Order : o.ex = "maker"}
             quantity(i) == Quantity * 2 ^ (i - 1)
             quote(i) == Quote(2 * i + IF side > 0 THEN 0 ELSE 1, side * quantity(i))
             Step(i, qs) == IF Abs(Sum(qs)) + quantity(i) > Min({maker, hedge}) THEN qs
                            ELSE qs \cup {quote(i)}
             D == [i \in 1 .. N |-> [qs \in V |-> Step(i, qs)]]
             Def(g) == [i \in 0 .. N |-> IF i = 0 THEN {} ELSE Step(i, g[i - 1])]
             P == CHOOSE g : g = Def(g)
  <1>1. N \in Nat /\ {} \in V /\ rounds \in Nat /\ Quantity \in Nat
    BY XMakerAssumption DEF TypeOK, Setting
  <1>2. ASSUME NEW i \in 1 .. N
        PROVE  quote(i) \in {o \in Order : o.ex = "maker"}
    <2>1. 2 ^ (i - 1) \in Int
      OBVIOUS
    <2>2. quantity(i) \in Int
      BY <1>1, <2>1
    <2>3. side * quantity(i) \in Int
      <3> HIDE DEF quantity
      <3> QED
        BY <2>2
    <2> HIDE DEF quantity
    <2> QED
      BY <1>1, <2>3 DEF Quote, Order, Streams
  <1>3. \A i \in 1 .. N, qs \in V : Step(i, qs) \in V
    <2> HIDE DEF quote, quantity
    <2> QED
      BY <1>2
  <1>4. Layers(side, maker, hedge) = P[N]
    BY DEF Layers
  <1> HIDE DEF N, V, Step, P, quantity, quote
  <1>5. D \in [1 .. N -> [V -> V]]
    BY <1>3
  <1>6. PICK g : Recursion(g, N, V, {}, D)
    <2> HIDE DEF D
    <2> QED
      BY <1>1, <1>5, RecursionExists
  <1>7. \A i \in 1 .. N : g[i] = Step(i, g[i - 1])
    <2> SUFFICES ASSUME NEW i \in 1 .. N
                 PROVE  g[i] = Step(i, g[i - 1])
      OBVIOUS
    <2>1. g[i - 1] \in V
      BY <1>1, <1>6 DEF Recursion
    <2> QED
      BY <1>6, <2>1 DEF Recursion
  <1>8. g = Def(g)
    BY <1>1, <1>6, <1>7 DEF Recursion
  <1>9. P = Def(P)
    <2> HIDE DEF Def
    <2> QED
      BY <1>8 DEF P
  <1>10. P[0] = {} /\ \A i \in 1 .. N : P[i] = Step(i, P[i - 1])
    BY <1>1, <1>9
  <1>11. \A i \in 0 .. N : P[i] \in V
    <2>1. \A i \in 1 .. N : P[i - 1] \in V => P[i] \in V
      BY <1>3, <1>10
    <2>2. P[0] \in V
      BY <1>1, <1>10, Zenon
    <2> QED
      BY <1>1, <2>1, <2>2, ValuesInduction
  <1> QED
    BY <1>1, <1>4, <1>11 DEF V

LEMMA BaseType ==
    ASSUME TypeOK, Numbered
    PROVE  /\ Base \in Int
           /\ \A ex : Sum(TradesAt(ex)) \in Int
           /\ SourceBase \in Int /\ SourceQuote \in Int
  <1>1. applied \subseteq Trades
    BY DEF TypeOK
  <1>2. Base \in Int
    BY <1>1, TradesAreAmounts, SumIsInt DEF Base
  <1>3. \A ex : Sum(TradesAt(ex)) \in Int
    BY TradesAreAmounts, SumIsInt DEF TradesAt
  <1>4. setting.base \in Int /\ setting.quote \in Int
    BY XMakerAssumption DEF TypeOK, Setting
  <1> QED
    BY <1>2, <1>3, <1>4 DEF SourceBase, SourceQuote

LEMMA HedgedType ==
    ASSUME TypeOK, Numbered, NEW uncovered \in Int
    PROVE  Hedged(uncovered) \in Int
  <1>1. SourceBase \in Int /\ SourceQuote \in Int
    BY BaseType
  <1>2. Min({uncovered, SourceBase}) \in Int
    BY <1>1, MinType
  <1> HIDE DEF SourceBase, SourceQuote
  <1> QED
    BY <1>1, <1>2 DEF Hedged

(* Trades that are executed next: they are new, and numbered. *)
NewTrades(new) ==
    /\ new \in Seq(Trade)
    /\ IsFiniteSet(ToSet(new))
    /\ \A t \in ToSet(new) : t.id > Len(executed) /\ t.id <= Len(executed) + Len(new)
    /\ \A i, j \in DOMAIN new : new[i] = new[j] => i = j

LEMMA TradesAfter ==
    ASSUME Numbered, NEW new, NewTrades(new), executed' = executed \o new
    PROVE  /\ executed' \in Seq(Trade)
           /\ Len(executed') = Len(executed) + Len(new)
           /\ Trades' = Trades \cup ToSet(new)
           /\ Trades \cap ToSet(new) = {}
           /\ IsFiniteSet(Trades')
  <1>1. executed \in Seq(Trade) /\ new \in Seq(Trade)
    BY DEF Numbered, NewTrades
  <1>2. executed' \in Seq(Trade) /\ Len(executed') = Len(executed) + Len(new)
    BY <1>1
  <1>3. Trades' = Trades \cup ToSet(new)
    <2>1. ASSUME NEW i \in DOMAIN executed
          PROVE  i \in DOMAIN executed' /\ executed'[i] = executed[i]
      BY <1>1
    <2>2. ASSUME NEW i \in DOMAIN new
          PROVE  Len(executed) + i \in DOMAIN executed' /\ executed'[Len(executed) + i] = new[i]
      BY <1>1
    <2>3. ASSUME NEW i \in DOMAIN executed'
          PROVE  \/ i \in DOMAIN executed
                 \/ i - Len(executed) \in DOMAIN new /\ executed'[i] = new[i - Len(executed)]
      BY <1>1
    <2>4. ASSUME NEW t \in Trades'
          PROVE  t \in Trades \cup ToSet(new)
      <3>1. PICK i \in DOMAIN executed' : t = executed'[i]
        BY DEF Trades, ToSet
      <3> QED
        BY <2>1, <2>3, <3>1 DEF Trades, ToSet
    <2>5. Trades \subseteq Trades'
      BY <2>1 DEF Trades, ToSet
    <2>6. ToSet(new) \subseteq Trades'
      BY <2>2 DEF Trades, ToSet
    <2> QED
      BY <2>4, <2>5, <2>6
  <1>4. Trades \cap ToSet(new) = {}
    <2>1. ASSUME NEW t \in Trades, t \in ToSet(new)
          PROVE  FALSE
      <3>1. t \in Trade /\ t.id \in Int /\ Len(executed) \in Int
        BY <1>1, Kinds DEF Trades, ToSet
      <3> QED
        BY <2>1, <3>1 DEF Numbered, NewTrades
    <2> QED
      BY <2>1
  <1>5. IsFiniteSet(Trades')
    BY <1>3, FS_Union DEF Numbered, NewTrades
  <1> QED
    BY <1>2, <1>3, <1>4, <1>5

LEMMA ToSetOfOne ==
    ASSUME NEW t
    PROVE  ToSet(<<t>>) = {t}
  BY DEF ToSet

LEMMA ToSetOfTwo ==
    ASSUME NEW s, NEW t
    PROVE  ToSet(<<s, t>>) = {s, t}
  <1>1. DOMAIN <<s, t>> = {1, 2}
    OBVIOUS
  <1> QED
    BY <1>1 DEF ToSet

LEMMA OneNewTrade ==
    ASSUME Numbered, NEW o \in Order, NEW qty \in Int
    PROVE  NewTrades(<<NewTrade(o, qty)>>)
  <1> DEFINE t == NewTrade(o, qty)
  <1>1. Len(executed) \in Nat
    BY DEF Numbered
  <1>2. t \in Trade /\ t.id = Len(executed) + 1
    BY <1>1 DEF NewTrade, Trade
  <1> HIDE DEF t
  <1>3. ToSet(<<t>>) = {t} /\ IsFiniteSet({t})
    BY ToSetOfOne, FS_Singleton
  <1>4. IsFiniteSet(ToSet(<<t>>))
    BY <1>3, Zenon
  <1> QED
    BY <1>1, <1>2, <1>3, <1>4 DEF NewTrades, t

(* The trades of a hedge order are all of it. *)
LEMMA ExecutionsAreWhole ==
    ASSUME Numbered, NEW o \in Order, NEW new \in Executions(o)
    PROVE  /\ NewTrades(new)
           /\ new # <<>>
           /\ \A t \in ToSet(new) : t.order = o
           /\ Sum(ToSet(new)) = o.qty
  <1> DEFINE one == IF o.qty > 0 THEN 1 ELSE -1
             t(k, qty) == [id |-> Len(executed) + k, order |-> o, qty |-> qty]
  <1>1. Len(executed) \in Nat /\ o.qty \in Int
    BY Kinds DEF Numbered
  <1>2. ASSUME NEW k \in {1, 2}, NEW qty \in Int
        PROVE  t(k, qty) \in Trade
    BY <1>1 DEF Trade
  <1>3. CASE new = <<t(1, o.qty)>>
    <2> DEFINE a == t(1, o.qty)
    <2>1. a \in Trade /\ a.order = o /\ a.qty = o.qty /\ a.id = Len(executed) + 1
      BY <1>1, <1>2
    <2> HIDE DEF a
    <2>2. new = <<a>>
      BY <1>3 DEF a
    <2>3. ToSet(new) = {a}
      BY <2>2, ToSetOfOne, Zenon
    <2>4. IsFiniteSet(ToSet(new)) /\ Sum(ToSet(new)) = o.qty
      <3>1. IsFiniteSet({a}) /\ Sum({a}) = o.qty
        BY <1>1, <2>1, SumOfOne, FS_Singleton
      <3> QED
        BY <2>3, <3>1, Zenon
    <2> QED
      BY <1>1, <2>1, <2>2, <2>3, <2>4 DEF NewTrades
  <1>4. CASE new = <<t(1, one), t(2, o.qty - one)>>
    <2> DEFINE a == t(1, one)
               b == t(2, o.qty - one)
    <2>1. /\ a \in Trade /\ a.order = o /\ a.qty = one /\ a.id = Len(executed) + 1
          /\ b \in Trade /\ b.order = o /\ b.qty = o.qty - one /\ b.id = Len(executed) + 2
      BY <1>1, <1>2
    <2>2. new = <<a, b>>
      BY <1>4
    <2>3. one \in Int
      OBVIOUS
    <2> HIDE DEF a, b, one
    <2>4. ToSet(new) = {a, b}
      BY <2>2, ToSetOfTwo, Zenon
    <2>5. {a} \cap {b} = {} /\ {a} \cup {b} = {a, b}
      BY <1>1, <2>1
    <2>6. IsFiniteSet(ToSet(new)) /\ Sum(ToSet(new)) = o.qty
      <3>1. a.qty \in Int /\ b.qty \in Int
        BY <1>1, <2>1, <2>3
      <3>2. Amounts({a}) /\ Amounts({b}) /\ Sum({a}) = a.qty /\ Sum({b}) = b.qty
        BY <3>1, SumOfOne
      <3>3. Amounts({a} \cup {b}) /\ Sum({a} \cup {b}) = Sum({a}) + Sum({b})
        BY <2>5, <3>2, SumOfBoth
      <3>4. Amounts({a, b}) /\ Sum({a, b}) = Sum({a}) + Sum({b})
        BY <2>5, <3>3, Zenon
      <3>5. Sum({a, b}) = o.qty
        BY <1>1, <2>1, <2>3, <3>2, <3>4
      <3> QED
        BY <2>4, <3>4, <3>5, Zenon DEF Amounts
    <2> QED
      BY <1>1, <2>1, <2>2, <2>4, <2>6 DEF NewTrades
  <1> QED
    BY <1>3, <1>4 DEF Executions

-----------------------------------------------------------------------------
(***************************************************************************)
(* Each part of the invariant is kept                                      *)
(***************************************************************************)
(* What Fill does to the trades. *)
LEMMA FillExecutes ==
    ASSUME TypeOK, Numbered, Fill
    PROVE  \E o \in open, t \in Trade :
              /\ NewTrades(<<t>>) /\ t.order = o
              /\ executed' = executed \o <<t>>
              /\ feed' = [feed EXCEPT !["maker"] = @ \o <<t>>]
              /\ open' \subseteq open
  <1>1. executed \in Seq(Trade) /\ feed["maker"] \in Seq(Trades)
    BY DEF Numbered, TypeOK, Streams
  <1> DEFINE Taken(o, qty) ==
                 LET t == NewTrade(o, IF o.qty > 0 THEN qty ELSE -qty)
                 IN  /\ executed' = Append(executed, t)
                     /\ feed' = [feed EXCEPT !["maker"] = Append(@, t)]
                     /\ open' = IF qty = Left(o) THEN open \ {o} ELSE open
  <1>2. \E o \in open : \E qty \in 1 .. Left(o) : Taken(o, qty)
    BY DEF Fill
  <1> HIDE DEF Taken
  <1>3. PICK o \in open : \E qty \in 1 .. Left(o) : Taken(o, qty)
    BY <1>2
  <1>4. PICK qty \in 1 .. Left(o) : Taken(o, qty)
    BY <1>3
  <1> DEFINE q == IF o.qty > 0 THEN qty ELSE -qty
             t == NewTrade(o, q)
  <1>5. o \in Order /\ q \in Int
    BY DEF TypeOK
  <1>6. NewTrades(<<t>>)
    BY <1>5, OneNewTrade
  <1>7. t \in Trade /\ t.order = o
    BY <1>1, <1>5 DEF NewTrade, Trade
  <1>8. /\ executed' = Append(executed, t)
        /\ feed' = [feed EXCEPT !["maker"] = Append(@, t)]
        /\ open' \subseteq open
    BY <1>4 DEF Taken
  <1> HIDE DEF t, q
  <1>9. Append(executed, t) = executed \o <<t>> /\ Append(feed["maker"], t) = feed["maker"] \o <<t>>
    BY <1>1
  <1> QED
    BY <1>6, <1>7, <1>8, <1>9

(* What SubmitHedge does to the trades. *)
LEMMA HedgeExecutes ==
    ASSUME Numbered, Occupied, TypeOK, SubmitHedge
    PROVE  \E o \in cur["loop"] :
              /\ cur["loop"] = {o} /\ o \in Order /\ o.ex = "source" /\ o \notin orderStore
              /\ TradesOf(o) = {} /\ o.n <= Len(executed) + 1
              /\ \/ /\ UNCHANGED <<executed, feed>>
                    /\ cur' = [cur EXCEPT !["loop"] = {}] /\ Goto("loop", "idle")
                 \/ \E new \in Executions(o) :
                       /\ executed' = executed \o new
                       /\ feed' = [feed EXCEPT !["source"] = @ \o new]
                       /\ \/ cur' = [cur EXCEPT !["loop"] = {}] /\ Goto("loop", "idle")
                          \/ cur' = cur /\ Goto("loop", "cover")
  <1>a. "loop" \in Threads
    BY DEF Threads
  <1>1. pc["loop"] = "hedge"
    BY DEF SubmitHedge
  <1>2. PICK o \in cur["loop"], ok \in BOOLEAN, done \in BOOLEAN :
           /\ ok => done
           /\ IF done
              THEN \E new \in Executions(o) :
                      /\ executed' = executed \o new
                      /\ feed' = [feed EXCEPT !["source"] = @ \o new]
              ELSE UNCHANGED <<executed, feed>>
           /\ Goto("loop", IF ok THEN "cover" ELSE "idle")
           /\ cur' = IF ok THEN cur ELSE [cur EXCEPT !["loop"] = {}]
    BY DEF SubmitHedge
  <1>3. o \in Order
    BY <1>a, <1>1, Kinds DEF Occupied, TypeOK, Trades, ToSet, Numbered
  <1>4. cur["loop"] = {o} /\ o.ex = "source" /\ o \notin orderStore /\ TradesOf(o) = {} /\ o.n <= Len(executed) + 1
    BY <1>a, <1>1, <1>3 DEF Occupied, Single
  <1> QED
    BY <1>2, <1>3, <1>4

LEMMA NumberedKept ==
    ASSUME Numbered, UNCHANGED <<executed, orderStore>>, \A o \in open' \cup submitting' : o.ex = "maker"
    PROVE  Numbered'
  BY DEF Numbered, Trades

LEMMA NumberedGrows ==
    ASSUME Numbered, NEW new, NewTrades(new), executed' = executed \o new,
           UNCHANGED orderStore, open' \subseteq open, submitting' = submitting,
           \A t \in ToSet(new) : t.order.ex = "source" => t.order.n <= Len(executed) + Len(new),
           orderStore \subseteq Order
    PROVE  Numbered'
  <1>1. /\ executed' \in Seq(Trade)
        /\ Len(executed') = Len(executed) + Len(new)
        /\ Trades' = Trades \cup ToSet(new)
        /\ IsFiniteSet(Trades')
    BY TradesAfter
  <1>2. Len(executed) \in Nat /\ Len(new) \in Nat
    BY DEF Numbered, NewTrades
  <1>3. ASSUME NEW t \in Trades
        PROVE  t.id \in Nat /\ t.order.n \in Nat
    <2>1. t \in Trade
      BY DEF Numbered, Trades, ToSet
    <2> QED
      BY <2>1, Kinds
  <1>4. \A t \in Trades' : t.id <= Len(executed') /\ (t.order.ex = "source" => t.order.n <= Len(executed'))
    <2>1. ASSUME NEW t \in Trades
          PROVE  t.id <= Len(executed') /\ (t.order.ex = "source" => t.order.n <= Len(executed'))
      <3>1. t.id <= Len(executed) /\ (t.order.ex = "source" => t.order.n <= Len(executed))
        BY DEF Numbered
      <3> QED
        BY <1>1, <1>2, <1>3, <3>1
    <2>2. ASSUME NEW t \in ToSet(new)
          PROVE  t.id <= Len(executed') /\ (t.order.ex = "source" => t.order.n <= Len(executed'))
      BY <1>1 DEF NewTrades
    <2> QED
      BY <1>1, <2>1, <2>2
  <1>5. \A o \in orderStore' : o.ex = "source" => o.n <= Len(executed')
    <2>1. \A o \in orderStore : o.n \in Int
      BY Kinds
    <2> QED
      BY <1>1, <1>2, <2>1 DEF Numbered
  <1>6. \A o \in open' \cup submitting' : o.ex = "maker"
    BY DEF Numbered
  <1> QED
    BY <1>1, <1>4, <1>5, <1>6 DEF Numbered

LEMMA NumberedNext == TypeOK /\ Numbered /\ Occupied /\ [Next]_vars => Numbered'
<1> SUFFICES ASSUME TypeOK, Numbered, Occupied, [Next]_vars  PROVE Numbered'
  OBVIOUS
<1>a. "loop" \in Threads
  BY DEF Threads
<1>1. CASE UNCHANGED <<executed, orderStore, open, submitting>>
  BY <1>1, NumberedKept DEF Numbered
<1>2. CASE CancelQuotes
  BY <1>2, NumberedKept DEF CancelQuotes, Numbered, loopVars
<1>3. CASE Generate
  <2>1. \A o \in submitting' : o.ex = "maker"
    BY <1>3, LayersType DEF Generate
  <2> QED
    BY <1>3, <2>1, NumberedKept DEF Generate, Numbered, exchangeVars
<1>4. CASE SubmitQuotes
  BY <1>4, NumberedKept DEF SubmitQuotes, Numbered
<1>5. CASE AddQuotes
  BY <1>5 DEF AddQuotes, Numbered, exchangeVars, Trades
<1>6. CASE Fill
  <2>1. PICK o \in open, t \in Trade :
              /\ NewTrades(<<t>>) /\ t.order = o
              /\ executed' = executed \o <<t>>
              /\ open' \subseteq open
    BY <1>6, FillExecutes
  <2>2. o.ex = "maker"
    BY DEF Numbered
  <2>3. \A s \in ToSet(<<t>>) : s.order.ex = "source" => s.order.n <= Len(executed) + Len(<<t>>)
    BY <2>1, <2>2, ToSetOfOne
  <2>4. UNCHANGED <<orderStore, submitting>> /\ orderStore \subseteq Order
    BY <1>6 DEF Fill, loopVars, TypeOK
  <2> QED
    BY <2>1, <2>3, <2>4, NumberedGrows
<1>7. CASE SubmitHedge
  <2>1. PICK o \in cur["loop"] :
              /\ o \in Order /\ o.n <= Len(executed) + 1
              /\ \/ UNCHANGED executed
                 \/ \E new \in Executions(o) : executed' = executed \o new
    BY <1>7, HedgeExecutes
  <2>2. UNCHANGED <<orderStore, submitting, open>> /\ orderStore \subseteq Order
    BY <1>7 DEF SubmitHedge, loopVars, TypeOK
  <2>3. CASE UNCHANGED executed
    BY <2>2, <2>3, NumberedKept DEF Numbered
  <2>4. CASE \E new \in Executions(o) : executed' = executed \o new
    <3>1. PICK new \in Executions(o) : executed' = executed \o new
      BY <2>4
    <3>2. NewTrades(new) /\ new # <<>> /\ \A t \in ToSet(new) : t.order = o
      BY <2>1, ExecutionsAreWhole
    <3>3. Len(new) \in Nat /\ Len(new) >= 1 /\ Len(executed) \in Nat /\ o.n \in Nat
      BY <2>1, <3>2, Kinds DEF NewTrades, Numbered
    <3>4. \A t \in ToSet(new) : t.order.ex = "source" => t.order.n <= Len(executed) + Len(new)
      BY <2>1, <3>2, <3>3
    <3> QED
      BY <2>2, <3>1, <3>2, <3>4, NumberedGrows
  <2> QED
    BY <2>1, <2>3, <2>4
<1>8. CASE StoreHedge
  <2>1. pc["loop"] = "store" /\ orderStore' = orderStore \cup cur["loop"]
    BY <1>8 DEF StoreHedge
  <2>2. \A o \in cur["loop"] : o \in Order
    BY <1>a, <2>1, Kinds DEF Occupied, TypeOK, Trades, ToSet, Numbered
  <2>3. \A o \in cur["loop"] : o.n <= Len(executed)
    BY <2>1, <2>2 DEF Occupied
  <2> QED
    BY <1>8, <2>1, <2>3 DEF StoreHedge, Numbered, exchangeVars, loopVars, Trades
<1> QED
  BY <1>1, <1>2, <1>3, <1>4, <1>5, <1>6, <1>7, <1>8
     DEF Next, Quoting, Hedging, vars, exchangeVars, loopVars, positionVars, boundVars,
         Process, ProcessTrade, ReadBase, ReadCovered, Receive, ReadForCover, WriteCover

LEMMA DeliveredGrows ==
    ASSUME TypeOK, Numbered, Delivered, NEW x \in Streams, NEW new, NewTrades(new),
           feed' = [feed EXCEPT ![x] = @ \o new], \A t \in ToSet(new) : t.order.ex = x,
           UNCHANGED <<tradeStore, batch, applied, orderStore>>
    PROVE  Delivered'
  <1>1. feed \in [Streams -> Seq(Trades)] /\ new \in Seq(Trade)
    BY DEF TypeOK, NewTrades
  <1>2. Trades \cap ToSet(new) = {}
    <2>1. \A t \in Trades : t \in Trade /\ t.id \in Int
      BY Kinds DEF Numbered, Trades, ToSet
    <2>2. Len(executed) \in Int
      BY DEF Numbered
    <2> QED
      BY <2>1, <2>2 DEF Numbered, NewTrades
  <1>3. \A y \in Streams \ {x} : feed'[y] = feed[y]
    BY <1>1
  <1>4. feed'[x] = feed[x] \o new
    BY <1>1
  <1>5. ASSUME NEW i \in DOMAIN feed'[x]
        PROVE  \/ i \in DOMAIN feed[x] /\ feed'[x][i] = feed[x][i] /\ feed'[x][i] \in Trades
               \/ /\ i \notin DOMAIN feed[x]
                  /\ i - Len(feed[x]) \in DOMAIN new /\ feed'[x][i] = new[i - Len(feed[x])]
                  /\ feed'[x][i] \in ToSet(new)
    <2>1. feed[x] \in Seq(Trades) /\ new \in Seq(Trade)
      BY <1>1
    <2>2. \/ i \in DOMAIN feed[x] /\ feed'[x][i] = feed[x][i]
          \/ i \notin DOMAIN feed[x] /\ i - Len(feed[x]) \in DOMAIN new /\ feed'[x][i] = new[i - Len(feed[x])]
      BY <1>4, <2>1
    <2>3. \A k \in DOMAIN feed[x] : feed[x][k] \in Trades
      BY <2>1
    <2>4. \A k \in DOMAIN new : new[k] \in ToSet(new)
      BY DEF ToSet
    <2> QED
      BY <2>2, <2>3, <2>4
  <1>6. tradeStore \cup batch \cup applied \subseteq Trades
    BY DEF TypeOK
  <1>7. ASSUME NEW i \in DOMAIN feed'[x]
        PROVE  feed'[x][i] \notin tradeStore \cup batch \cup applied /\ feed'[x][i].order.ex = x
    BY <1>2, <1>5, <1>6 DEF Delivered
  <1>8. ASSUME NEW i \in DOMAIN feed'[x], NEW j \in DOMAIN feed'[x], feed'[x][i] = feed'[x][j]
        PROVE  i = j
    <2>1. i \in Int /\ j \in Int /\ Len(feed[x]) \in Int
      BY <1>1, <1>4
    <2>2. CASE i \in DOMAIN feed[x]
      BY <1>2, <1>5, <1>8, <2>2 DEF Delivered
    <2>3. CASE i \notin DOMAIN feed[x]
      <3>1. /\ i - Len(feed[x]) \in DOMAIN new /\ j - Len(feed[x]) \in DOMAIN new
            /\ new[i - Len(feed[x])] = new[j - Len(feed[x])]
        BY <1>2, <1>5, <1>8, <2>3
      <3>2. i - Len(feed[x]) = j - Len(feed[x])
        BY <3>1 DEF NewTrades
      <3> QED
        BY <2>1, <3>2
    <2> QED
      BY <2>2, <2>3
  <1>9. \A y \in Streams : \A i \in DOMAIN feed'[y] :
            feed'[y][i] \notin tradeStore \cup batch \cup applied /\ feed'[y][i].order.ex = y
    BY <1>3, <1>7 DEF Delivered
  <1>10. \A y \in Streams : \A i, j \in DOMAIN feed'[y] : feed'[y][i] = feed'[y][j] => i = j
    BY <1>3, <1>8 DEF Delivered
  <1> QED
    BY <1>9, <1>10 DEF Delivered

(* What is left in flight when a stream has delivered a trade. *)
LEMMA TailOfFeed ==
    ASSUME TypeOK, Delivered, NEW x \in Streams, feed[x] # <<>>, feed' = [feed EXCEPT ![x] = Tail(@)]
    PROVE  /\ Head(feed[x]) \in Trades /\ Head(feed[x]).order.ex = x
           /\ Head(feed[x]) \notin tradeStore \cup batch \cup applied
           /\ feed' \in [Streams -> Seq(Trades)]
           /\ \A y \in Streams : \A i \in DOMAIN feed'[y] :
                 /\ feed'[y][i] \notin {Head(feed[x])} \cup tradeStore \cup batch \cup applied
                 /\ feed'[y][i].order.ex = y
           /\ \A y \in Streams : \A i, j \in DOMAIN feed'[y] : feed'[y][i] = feed'[y][j] => i = j
  <1> DEFINE s == feed[x]
  <1>1. feed \in [Streams -> Seq(Trades)] /\ s \in Seq(Trades)
    BY DEF TypeOK
  <1>2. /\ 1 \in DOMAIN s /\ Head(s) = s[1] /\ Tail(s) \in Seq(Trades)
        /\ \A i \in DOMAIN Tail(s) : i \in Int /\ i >= 1 /\ i + 1 \in DOMAIN s /\ Tail(s)[i] = s[i + 1]
    BY <1>1
  <1>3. feed'[x] = Tail(s) /\ feed' \in [Streams -> Seq(Trades)]
    BY <1>1, <1>2
  <1>4. \A y \in Streams \ {x} : feed'[y] = feed[y]
    BY <1>1
  <1>5. \A i, j \in DOMAIN s : s[i] = s[j] => i = j
    BY DEF Delivered
  <1>6. s[1] \in Trades /\ s[1].order.ex = x /\ s[1] \notin tradeStore \cup batch \cup applied
    BY <1>1, <1>2 DEF Delivered
  <1>7. ASSUME NEW y \in Streams, NEW i \in DOMAIN feed'[y]
        PROVE  /\ feed'[y][i] \notin {s[1]} \cup tradeStore \cup batch \cup applied
               /\ feed'[y][i].order.ex = y
    <2>1. CASE y = x
      <3>1. i \in Int /\ i >= 1 /\ i + 1 \in DOMAIN s /\ feed'[x][i] = s[i + 1]
        BY <1>2, <1>3, <2>1
      <3>2. s[i + 1] # s[1]
        BY <1>2, <1>5, <3>1
      <3>3. s[i + 1] \notin tradeStore \cup batch \cup applied /\ s[i + 1].order.ex = x
        BY <3>1 DEF Delivered
      <3> QED
        BY <2>1, <3>1, <3>2, <3>3
    <2>2. CASE y # x
      <3>1. feed'[y] = feed[y]
        BY <1>4, <2>2
      <3> QED
        BY <1>6, <2>2, <3>1 DEF Delivered
    <2> QED
      BY <2>1, <2>2
  <1>8. ASSUME NEW y \in Streams, NEW i \in DOMAIN feed'[y], NEW j \in DOMAIN feed'[y],
               feed'[y][i] = feed'[y][j]
        PROVE  i = j
    <2>1. CASE y = x
      <3>1. i \in Int /\ j \in Int /\ i + 1 \in DOMAIN s /\ j + 1 \in DOMAIN s /\ s[i + 1] = s[j + 1]
        BY <1>2, <1>3, <1>8, <2>1
      <3>2. i + 1 = j + 1
        BY <1>5, <3>1
      <3> QED
        BY <3>1, <3>2
    <2>2. CASE y # x
      BY <1>4, <1>8, <2>2 DEF Delivered
    <2> QED
      BY <2>1, <2>2
  <1> QED
    BY <1>2, <1>3, <1>6, <1>7, <1>8

LEMMA DeliveredNext == TypeOK /\ Numbered /\ Delivered /\ Occupied /\ [Next]_vars => Delivered'
<1> SUFFICES ASSUME TypeOK, Numbered, Delivered, Occupied, [Next]_vars  PROVE Delivered'
  OBVIOUS
<1>1. CASE UNCHANGED <<feed, tradeStore, batch, applied>> /\ orderStore \subseteq orderStore'
  BY <1>1 DEF Delivered
<1>2. CASE Fill
  <2>1. PICK o \in open, t \in Trade :
              /\ NewTrades(<<t>>) /\ t.order = o
              /\ feed' = [feed EXCEPT !["maker"] = @ \o <<t>>]
    BY <1>2, FillExecutes
  <2>2. \A s \in ToSet(<<t>>) : s.order.ex = "maker"
    BY <2>1, ToSetOfOne DEF Numbered
  <2> QED
    BY <1>2, <2>1, <2>2, DeliveredGrows DEF Fill, positionVars, loopVars, Streams
<1>3. CASE SubmitHedge
  <2>1. PICK o \in cur["loop"] :
              /\ o \in Order /\ o.ex = "source"
              /\ \/ UNCHANGED feed
                 \/ \E new \in Executions(o) : feed' = [feed EXCEPT !["source"] = @ \o new]
    BY <1>3, HedgeExecutes
  <2>2. UNCHANGED <<tradeStore, batch, applied, orderStore>>
    BY <1>3 DEF SubmitHedge, loopVars
  <2>3. CASE UNCHANGED feed
    BY <1>1, <2>2, <2>3
  <2>4. CASE \E new \in Executions(o) : feed' = [feed EXCEPT !["source"] = @ \o new]
    <3>1. PICK new \in Executions(o) : feed' = [feed EXCEPT !["source"] = @ \o new]
      BY <2>4
    <3>2. NewTrades(new) /\ \A t \in ToSet(new) : t.order = o
      BY <2>1, ExecutionsAreWhole
    <3>3. \A t \in ToSet(new) : t.order.ex = "source"
      BY <2>1, <3>2
    <3> QED
      BY <2>2, <3>1, <3>2, <3>3, DeliveredGrows DEF Streams
  <2> QED
    BY <2>1, <2>3, <2>4
<1>4. ASSUME NEW x \in Streams, Receive(x)  PROVE Delivered'
  <2> DEFINE t == Head(feed[x])
  <2>1. feed[x] # <<>> /\ feed' = [feed EXCEPT ![x] = Tail(@)] /\ UNCHANGED <<batch, orderStore>>
    BY <1>4 DEF Receive, loopVars
  <2>2. \/ t.order \in orderStore /\ applied' = applied \cup {t} /\ UNCHANGED tradeStore
        \/ tradeStore' = tradeStore \cup {t} /\ UNCHANGED applied
    BY <1>4 DEF Receive, AddTrade, positionVars
  <2> HIDE DEF t
  <2>3. /\ t \notin tradeStore \cup batch \cup applied
        /\ \A y \in Streams : \A i \in DOMAIN feed'[y] :
              /\ feed'[y][i] \notin {t} \cup tradeStore \cup batch \cup applied
              /\ feed'[y][i].order.ex = y
        /\ \A y \in Streams : \A i, j \in DOMAIN feed'[y] : feed'[y][i] = feed'[y][j] => i = j
    BY <2>1, TailOfFeed DEF t
  <2> QED
    BY <2>1, <2>2, <2>3 DEF Delivered
<1>5. CASE Process
  BY <1>5 DEF Process, Delivered, exchangeVars, positionVars
<1>6. CASE ProcessTrade
  <2>1. PICK t \in batch : batch' = batch \ {t} /\ applied' = applied \cup {t}
    BY <1>6 DEF ProcessTrade, AddTrade
  <2> QED
    BY <1>6, <2>1 DEF ProcessTrade, Delivered, exchangeVars
<1> QED
  BY <1>1, <1>2, <1>3, <1>4, <1>5, <1>6
     DEF Next, Quoting, Hedging, vars, exchangeVars, loopVars, positionVars, boundVars,
         CancelQuotes, Generate, SubmitQuotes, AddQuotes, StoreHedge,
         ReadBase, ReadCovered, ReadForCover, WriteCover

LEMMA SingleIs == Single({}) /\ \A x : Single({x})
  BY DEF Single

Busy == {"hedge", "cover", "write", "store"}

LEMMA ThreadsAre == Streams \subseteq Threads /\ "loop" \in Threads /\ "loop" \notin Streams
                    /\ \A th \in Threads : th = "loop" \/ th \in Streams
  BY DEF Threads, Streams

LEMMA Things ==
    ASSUME TypeOK, Numbered
    PROVE  /\ Trades \subseteq Trade
           /\ \A th \in Threads : \A thing \in cur[th] : thing \in Trade \/ thing \in Order
  BY DEF TypeOK, Numbered, Trades, ToSet

(* The loop moves without a trade or a hedge order in its hand. *)
LEMMA LoopMoves ==
    ASSUME TypeOK, Occupied, pc["loop"] \notin Busy, UNCHANGED <<executed, cur, applied>>,
           NEW label, label \notin Busy, pc' = [pc EXCEPT !["loop"] = label] \/ pc' = pc
    PROVE  Occupied'
  <1>1. pc \in [Threads -> Label]
    BY DEF TypeOK, Label
  <1>2. pc'["loop"] \notin Busy /\ \A x \in Streams : pc'[x] = pc[x]
    BY <1>1, ThreadsAre
  <1>3. cur["loop"] = {}
    BY ThreadsAre DEF Occupied, Busy
  <1>4. \A th \in Threads : cur'[th] = cur[th] /\ (th = "loop" \/ pc'[th] = pc[th])
    BY <1>2, ThreadsAre
  <1> QED
    BY <1>2, <1>3, <1>4, ThreadsAre DEF Occupied, Busy

(* The trades, or those of no hedge order, and where the goroutines are do not change. *)
LEMMA OccupiedKept ==
    ASSUME Occupied, UNCHANGED <<cur, pc, orderStore, applied>>, Len(executed) <= Len(executed'),
           Len(executed) \in Nat, Len(executed') \in Nat,
           \A o \in Order : o.ex = "source" => TradesOf(o)' = TradesOf(o)
    PROVE  Occupied'
  <1>1. ASSUME NEW o \in cur["loop"], o \in Order
        PROVE  /\ pc["loop"] = "hedge" => TradesOf(o)' = {} /\ o.n <= Len(executed') + 1
               /\ pc["loop"] \in {"cover", "write", "store"} =>
                     o.n <= Len(executed') /\ Sum(TradesOf(o)') = o.qty
    <2>1. o.ex = "source" /\ o.n \in Nat
      BY <1>1, Kinds DEF Occupied
    <2>2. TradesOf(o)' = TradesOf(o)
      BY <1>1, <2>1
    <2>3. pc["loop"] = "hedge" => TradesOf(o) = {} /\ o.n <= Len(executed) + 1
      BY <1>1 DEF Occupied
    <2>4. pc["loop"] \in {"cover", "write", "store"} => o.n <= Len(executed) /\ Sum(TradesOf(o)) = o.qty
      BY <1>1 DEF Occupied
    <2> HIDE DEF TradesOf
    <2> QED
      BY <2>1, <2>2, <2>3, <2>4
  <1> QED
    BY <1>1 DEF Occupied

LEMMA AddTradeOccupies ==
    ASSUME TypeOK, Numbered, Occupied, NEW th \in Threads, pc[th] \notin Busy,
           NEW t \in Trades, t \notin applied, NEW next, next \notin Busy, th \in Streams => next = "idle",
           AddTrade(th, t, next), UNCHANGED <<executed, orderStore>>
    PROVE  Occupied'
  <1>1. /\ pc \in [Threads -> Label]
        /\ cur \in [Threads -> SUBSET (Trades \cup Order)]
    BY DEF TypeOK, Label
  <1>2. t \in Trade /\ t \notin Order
    BY Kinds, Things
  <1>3. cur[th] = {}
    BY DEF Occupied, Busy
  <1>4. applied' = applied \cup {t}
    BY DEF AddTrade
  <1>5. \A a \in Threads \ {th} : pc'[a] = pc[a] /\ cur'[a] = cur[a]
    BY <1>1 DEF AddTrade, Goto
  <1>6. ASSUME NEW a \in Threads \ {th}
        PROVE  t \notin cur[a]
    BY <1>2 DEF Occupied
  <1>7. \A o : TradesOf(o)' = TradesOf(o)
    BY DEF TradesOf, Trades
  <1>8. CASE t.order.ex = "source"
    <2>1. cur'[th] = {t} /\ pc'[th] = "cover"
      BY <1>1, <1>8 DEF AddTrade, Goto
    <2>2. \A a \in Threads : Single(cur'[a])
      BY <1>5, <2>1 DEF Occupied, Single
    <2>3. \A a, b \in Threads : a # b => cur'[a] \cap cur'[b] = {}
      BY <1>5, <1>6, <2>1 DEF Occupied
    <2>4. \A a \in Threads : \A s \in cur'[a] :
             s \in Trade => s \in applied' /\ s.order.ex = "source" /\ pc'[a] \in {"cover", "write"}
      BY <1>4, <1>5, <1>8, <2>1 DEF Occupied
    <2>5. \A x \in Streams : pc'[x] \in {"idle", "cover", "write"} /\ cur'[x] \subseteq Trade
      BY <1>2, <1>5, <2>1, ThreadsAre DEF Occupied
    <2>6. \A a \in Threads : pc'[a] \notin Busy => cur'[a] = {}
      BY <1>5, <2>1 DEF Occupied, Busy
    <2>7. \A o \in cur'["loop"] : o \in Order => th # "loop" /\ cur'["loop"] = cur["loop"] /\ pc'["loop"] = pc["loop"]
      BY <1>2, <1>5, <2>1, ThreadsAre
    <2> HIDE DEF TradesOf
    <2> QED
      BY <1>7, <2>2, <2>3, <2>4, <2>5, <2>6, <2>7 DEF Occupied, Busy
  <1>9. CASE t.order.ex # "source"
    <2>1. cur' = cur /\ pc'[th] = next
      BY <1>1, <1>9 DEF AddTrade, Goto
    <2>2. \A a \in Threads : \A s \in cur'[a] :
             s \in Trade => s \in applied' /\ s.order.ex = "source" /\ pc'[a] \in {"cover", "write"}
      BY <1>3, <1>4, <1>5, <2>1 DEF Occupied
    <2>3. \A x \in Streams : pc'[x] \in {"idle", "cover", "write"} /\ cur'[x] \subseteq Trade
      BY <1>5, <2>1, ThreadsAre DEF Occupied
    <2>4. \A a \in Threads : pc'[a] \notin Busy => cur'[a] = {}
      BY <1>3, <1>5, <2>1 DEF Occupied, Busy
    <2>5. \A o \in cur'["loop"] : o \in Order => cur'["loop"] = cur["loop"] /\ pc'["loop"] = pc["loop"]
      BY <1>3, <1>5, <2>1, ThreadsAre
    <2> HIDE DEF TradesOf
    <2> QED
      BY <1>7, <2>1, <2>2, <2>3, <2>4, <2>5 DEF Occupied, Busy
  <1> QED
    BY <1>8, <1>9

LEMMA OccupiedNext == TypeOK /\ Numbered /\ Delivered /\ Occupied /\ [Next]_vars => Occupied'
<1> SUFFICES ASSUME TypeOK, Numbered, Delivered, Occupied, [Next]_vars  PROVE Occupied'
  OBVIOUS
<1>a. /\ pc \in [Threads -> Label]
      /\ cur \in [Threads -> SUBSET (Trades \cup Order)]
      /\ Len(executed) \in Nat
  BY DEF TypeOK, Label, Numbered
<1>b. ASSUME UNCHANGED executed, NEW o
      PROVE  TradesOf(o)' = TradesOf(o)
  BY <1>b DEF TradesOf, Trades
<1>1. CASE UNCHANGED vars
  <2>1. UNCHANGED <<cur, pc, orderStore, applied, executed>>
    BY <1>1 DEF vars, positionVars, exchangeVars
  <2> QED
    BY <1>a, <1>b, <2>1, OccupiedKept
<1>2. CASE Quoting \/ Process \/ ReadBase
  <2>1. /\ pc["loop"] \notin Busy /\ UNCHANGED <<executed, cur, applied>>
        /\ \/ UNCHANGED pc
           \/ \E label \in {"idle", "quote", "submit", "add", "process", "uncovered"} : Goto("loop", label)
    BY <1>2 DEF Quoting, CancelQuotes, Generate, SubmitQuotes, AddQuotes, Process, ReadBase,
                positionVars, exchangeVars, Busy
  <2> QED
    BY <2>1, LoopMoves DEF Goto, Busy
<1>3. CASE Fill
  <2>1. PICK o \in open, t \in Trade :
              /\ NewTrades(<<t>>) /\ t.order = o
              /\ executed' = executed \o <<t>>
    BY <1>3, FillExecutes
  <2>2. Trades' = Trades \cup {t} /\ Len(executed') = Len(executed) + Len(<<t>>)
    BY <2>1, TradesAfter, ToSetOfOne
  <2>3. t.order.ex = "maker"
    BY <2>1 DEF Numbered
  <2>4. \A s \in Order : s.ex = "source" => TradesOf(s)' = TradesOf(s)
    BY <2>2, <2>3 DEF TradesOf
  <2>5. UNCHANGED <<cur, pc, orderStore, applied>>
    BY <1>3 DEF Fill, positionVars
  <2> QED
    BY <1>a, <2>2, <2>4, <2>5, OccupiedKept
<1>4. CASE ProcessTrade
  <2>1. PICK t \in batch : AddTrade("loop", t, "process")
    BY <1>4 DEF ProcessTrade
  <2>2. pc["loop"] \notin Busy /\ t \in Trades /\ t \notin applied /\ UNCHANGED <<executed, orderStore>>
    BY <1>4 DEF ProcessTrade, Busy, Delivered, TypeOK, exchangeVars
  <2>3. "process" \notin Busy
    BY DEF Busy
  <2> QED
    BY <2>1, <2>2, <2>3, ThreadsAre, AddTradeOccupies
<1>5. CASE ReadCovered
  <2>1. /\ pc["loop"] = "uncovered"
        /\ \/ DoHedge(Hedged(sawBase - covered))
           \/ Goto("loop", "process") /\ UNCHANGED cur
        /\ UNCHANGED <<executed, applied, orderStore>>
    BY <1>5 DEF ReadCovered, exchangeVars
  <2>2. pc["loop"] \notin Busy
    BY <2>1 DEF Busy
  <2>3. CASE UNCHANGED cur /\ (Goto("loop", "process") \/ Goto("loop", "idle"))
    BY <2>1, <2>2, <2>3, LoopMoves DEF Goto, Busy
  <2>4. CASE ~(UNCHANGED cur /\ (Goto("loop", "process") \/ Goto("loop", "idle")))
    <3>1. PICK qty : qty = Hedged(sawBase - covered)
      OBVIOUS
    <3>2. qty \in Int
      <4>1. sawBase - covered \in Int
        BY DEF TypeOK
      <4> QED
        BY <3>1, <4>1, HedgedType
    <3>3. PICK o : o = [ex |-> "source", n |-> Len(executed) + 1, qty |-> qty]
      OBVIOUS
    <3>4. cur' = [cur EXCEPT !["loop"] = {o}] /\ pc' = [pc EXCEPT !["loop"] = "hedge"]
      BY <2>1, <2>4, <3>1, <3>3 DEF DoHedge, Goto
    <3>5. o \in Order /\ o.ex = "source" /\ o.n = Len(executed) + 1
      BY <1>a, <3>2, <3>3 DEF Order, Streams
    <3>6. o \notin Trade
      BY <3>5, Kinds
    <3>7. o \notin orderStore
      BY <1>a, <3>5 DEF Numbered
    <3>8. TradesOf(o)' = {}
      <4>1. TradesOf(o) = {}
        BY <1>a, <3>5 DEF Numbered, TradesOf
      <4> QED
        BY <1>b, <2>1, <4>1
    <3>9. /\ cur'["loop"] = {o} /\ pc'["loop"] = "hedge"
          /\ \A x \in Streams : cur'[x] = cur[x] /\ pc'[x] = pc[x]
      BY <1>a, <3>4, ThreadsAre
    <3>10. \A x \in Streams : o \notin cur[x]
      BY <3>6 DEF Occupied
    <3>11. \A th \in Threads : Single(cur'[th]) /\ (pc'[th] \notin Busy => cur'[th] = {})
      <4>1. Single(cur'["loop"])
        BY <3>9, SingleIs, Zenon
      <4> QED
        BY <3>9, <4>1, ThreadsAre DEF Occupied, Busy
    <3>12. \A th \in Threads : \A t \in cur'[th] :
               t \in Trade => t \in applied' /\ t.order.ex = "source" /\ pc'[th] \in {"cover", "write"}
      BY <2>1, <3>6, <3>9, ThreadsAre DEF Occupied
    <3>13. \A a, b \in Threads : a # b => cur'[a] \cap cur'[b] = {}
      BY <3>9, <3>10, ThreadsAre DEF Occupied
    <3>14. \A x \in Streams : pc'[x] \in {"idle", "cover", "write"} /\ cur'[x] \subseteq Trade
      BY <3>9 DEF Occupied
    <3>15. o.n <= Len(executed') + 1
      BY <1>a, <2>1, <3>5
    <3> HIDE DEF TradesOf
    <3> QED
      BY <2>1, <3>5, <3>7, <3>8, <3>9, <3>11, <3>12, <3>13, <3>14, <3>15 DEF Occupied, Busy
  <2> QED
    BY <2>3, <2>4
<1>6. CASE SubmitHedge
  <2>1. PICK o \in cur["loop"] :
              /\ cur["loop"] = {o} /\ o \in Order /\ o.ex = "source" /\ o \notin orderStore
              /\ TradesOf(o) = {} /\ o.n <= Len(executed) + 1
              /\ \/ cur' = [cur EXCEPT !["loop"] = {}] /\ Goto("loop", "idle")
                 \/ \E new \in Executions(o) :
                       executed' = executed \o new /\ cur' = cur /\ Goto("loop", "cover")
    BY <1>6, HedgeExecutes
  <2>2. UNCHANGED <<orderStore, applied>>
    BY <1>6 DEF SubmitHedge
  <2>3. o \notin Trade
    BY <2>1, Kinds
  <2>4. CASE cur' = [cur EXCEPT !["loop"] = {}] /\ Goto("loop", "idle")
    <3>1. /\ cur'["loop"] = {} /\ pc'["loop"] = "idle"
          /\ \A x \in Streams : cur'[x] = cur[x] /\ pc'[x] = pc[x]
      BY <1>a, <2>4, ThreadsAre DEF Goto
    <3>2. \A th \in Threads : cur'[th] = {} \/ (cur'[th] = cur[th] /\ pc'[th] = pc[th])
      BY <3>1, ThreadsAre
    <3>3. \A th \in Threads : Single(cur'[th])
      BY <3>2, SingleIs, Zenon DEF Occupied
    <3> QED
      BY <2>2, <3>1, <3>2, <3>3 DEF Occupied
  <2>5. CASE \E new \in Executions(o) :
                 executed' = executed \o new /\ cur' = cur /\ Goto("loop", "cover")
    <3>1. PICK new \in Executions(o) : executed' = executed \o new /\ cur' = cur /\ Goto("loop", "cover")
      BY <2>5
    <3>2. NewTrades(new) /\ new # <<>> /\ Sum(ToSet(new)) = o.qty /\ \A t \in ToSet(new) : t.order = o
      BY <2>1, ExecutionsAreWhole
    <3>3. Trades' = Trades \cup ToSet(new) /\ Len(executed') = Len(executed) + Len(new)
      BY <3>1, <3>2, TradesAfter
    <3>4. TradesOf(o)' = ToSet(new)
      BY <2>1, <3>2, <3>3 DEF TradesOf
    <3>5. Sum(TradesOf(o)') = o.qty
      BY <3>2, <3>4, Zenon
    <3>6. o.n <= Len(executed')
      <4>1. Len(new) \in Nat /\ Len(new) >= 1 /\ o.n \in Nat
        BY <2>1, <3>2, Kinds DEF NewTrades
      <4> QED
        BY <1>a, <2>1, <3>3, <4>1
    <3>7. pc'["loop"] = "cover" /\ \A x \in Streams : pc'[x] = pc[x]
      BY <1>a, <3>1, ThreadsAre DEF Goto
    <3>8. \A th \in Threads : pc'[th] \notin Busy => cur'[th] = {}
      BY <3>1, <3>7, ThreadsAre DEF Occupied, Busy
    <3>9. \A th \in Threads : \A t \in cur'[th] :
               t \in Trade => t \in applied' /\ t.order.ex = "source" /\ pc'[th] \in {"cover", "write"}
      BY <2>1, <2>2, <2>3, <3>1, <3>7, ThreadsAre DEF Occupied
    <3>10. \A x \in Streams : pc'[x] \in {"idle", "cover", "write"} /\ cur'[x] \subseteq Trade
      BY <3>1, <3>7 DEF Occupied
    <3> HIDE DEF TradesOf
    <3> QED
      BY <2>1, <2>2, <3>1, <3>5, <3>6, <3>7, <3>8, <3>9, <3>10 DEF Occupied, Busy
  <2> QED
    BY <2>1, <2>4, <2>5
<1>7. CASE StoreHedge
  <2>1. /\ pc["loop"] = "store"
        /\ cur' = [cur EXCEPT !["loop"] = {}] /\ Goto("loop", "idle")
        /\ UNCHANGED applied
    BY <1>7 DEF StoreHedge
  <2>2. /\ cur'["loop"] = {} /\ pc'["loop"] = "idle"
        /\ \A x \in Streams : cur'[x] = cur[x] /\ pc'[x] = pc[x]
    BY <1>a, <2>1, ThreadsAre DEF Goto
  <2>3. \A th \in Threads : cur'[th] = {} \/ (cur'[th] = cur[th] /\ pc'[th] = pc[th])
    BY <2>2, ThreadsAre
  <2>4. \A th \in Threads : Single(cur'[th])
    BY <2>3, SingleIs, Zenon DEF Occupied
  <2> QED
    BY <2>1, <2>2, <2>3, <2>4 DEF Occupied
<1>8. ASSUME NEW x \in Streams, Receive(x)  PROVE Occupied'
  <2>1. pc[x] = "idle" /\ feed[x] # <<>> /\ UNCHANGED <<executed, orderStore>>
    BY <1>8 DEF Receive
  <2>2. feed' = [feed EXCEPT ![x] = Tail(@)]
    BY <1>8 DEF Receive
  <2>3. CASE AddTrade(x, Head(feed[x]), "idle")
    <3>1. Head(feed[x]) \in Trades /\ Head(feed[x]) \notin applied
      BY <2>1, <2>2, TailOfFeed
    <3>2. pc[x] \notin Busy /\ "idle" \notin Busy
      BY <2>1 DEF Busy
    <3> QED
      BY <2>1, <2>3, <3>1, <3>2, ThreadsAre, AddTradeOccupies
  <2>4. CASE UNCHANGED <<positionVars, pc>>
    <3>1. UNCHANGED <<cur, pc, applied>>
      BY <2>4 DEF positionVars
    <3> QED
      BY <1>a, <1>b, <2>1, <3>1, OccupiedKept
  <2> QED
    BY <1>8, <2>3, <2>4 DEF Receive
<1>9. ASSUME NEW th \in Threads, ReadForCover(th)  PROVE Occupied'
  <2>1. pc[th] = "cover" /\ pc' = [pc EXCEPT ![th] = "write"] /\ UNCHANGED <<cur, orderStore, applied, executed>>
    BY <1>9 DEF ReadForCover, Goto, exchangeVars
  <2>2. pc'[th] = "write" /\ \A a \in Threads \ {th} : pc'[a] = pc[a]
    BY <1>a, <2>1
  <2>3. \A o : TradesOf(o)' = TradesOf(o)
    BY <1>b, <2>1
  <2> HIDE DEF TradesOf
  <2> QED
    BY <2>1, <2>2, <2>3, ThreadsAre DEF Occupied
<1>10. ASSUME NEW th \in Threads, WriteCover(th)  PROVE Occupied'
  <2>1. PICK thing \in cur[th] :
           IF IsOrder(thing) THEN Goto(th, "store") /\ UNCHANGED cur
           ELSE /\ cur' = [cur EXCEPT ![th] = {}]
                /\ Goto(th, IF th = "loop" THEN "process" ELSE "idle")
    BY <1>10 DEF WriteCover
  <2>2. pc[th] = "write" /\ UNCHANGED <<orderStore, applied, executed>>
    BY <1>10 DEF WriteCover, exchangeVars
  <2>3. \A o : TradesOf(o)' = TradesOf(o)
    BY <1>b, <2>2
  <2>4. CASE IsOrder(thing)
    <3>1. thing \in Order /\ thing \notin Trade
      BY <2>4, Kinds, Things
    <3>2. th = "loop"
      BY <3>1, ThreadsAre DEF Occupied
    <3>3. cur[th] = {thing} /\ cur' = cur
      BY <2>1, <2>4 DEF Occupied, Single
    <3>4. pc'["loop"] = "store" /\ \A x \in Streams : pc'[x] = pc[x]
      BY <1>a, <2>1, <2>4, <3>2, ThreadsAre DEF Goto
    <3>5. \A a \in Threads : pc'[a] \notin Busy => cur'[a] = {}
      BY <3>3, <3>4, ThreadsAre DEF Occupied, Busy
    <3>6. \A a \in Threads : \A t \in cur'[a] :
               t \in Trade => t \in applied' /\ t.order.ex = "source" /\ pc'[a] \in {"cover", "write"}
      BY <2>2, <3>1, <3>2, <3>3, <3>4, ThreadsAre DEF Occupied
    <3>7. \A x \in Streams : pc'[x] \in {"idle", "cover", "write"} /\ cur'[x] \subseteq Trade
      BY <3>3, <3>4 DEF Occupied
    <3> HIDE DEF TradesOf
    <3> QED
      BY <2>2, <2>3, <3>2, <3>3, <3>4, <3>5, <3>6, <3>7 DEF Occupied, Busy
  <2>5. CASE ~IsOrder(thing)
    <3>1. /\ cur'[th] = {} /\ pc'[th] = (IF th = "loop" THEN "process" ELSE "idle")
          /\ \A a \in Threads \ {th} : cur'[a] = cur[a] /\ pc'[a] = pc[a]
      BY <1>a, <2>1, <2>5 DEF Goto
    <3>2. \A a \in Threads : cur'[a] = {} \/ (cur'[a] = cur[a] /\ pc'[a] = pc[a])
      BY <3>1
    <3>3. \A x \in Streams : pc'[x] \in {"idle", "cover", "write"} /\ cur'[x] \subseteq Trade
      BY <3>1, <3>2, ThreadsAre DEF Occupied
    <3>4. \A a \in Threads : Single(cur'[a])
      BY <3>2, SingleIs, Zenon DEF Occupied
    <3>5. \A a \in Threads : pc'[a] \notin Busy => cur'[a] = {}
      BY <3>2 DEF Occupied, Busy
    <3>6. \A o \in cur'["loop"] : cur'["loop"] = cur["loop"] /\ pc'["loop"] = pc["loop"]
      BY <3>2, ThreadsAre
    <3>7. \A a \in Threads : \A t \in cur'[a] :
               t \in Trade => t \in applied' /\ t.order.ex = "source" /\ pc'[a] \in {"cover", "write"}
      BY <2>2, <3>2 DEF Occupied
    <3>8. \A a, b \in Threads : a # b => cur'[a] \cap cur'[b] = {}
      BY <3>2 DEF Occupied
    <3> HIDE DEF TradesOf
    <3> QED
      BY <2>2, <2>3, <3>3, <3>4, <3>5, <3>6, <3>7, <3>8 DEF Occupied, Busy
  <2> QED
    BY <2>4, <2>5
<1> QED
  BY <1>1, <1>2, <1>3, <1>4, <1>5, <1>6, <1>7, <1>8, <1>9, <1>10 DEF Next, Hedging

LEMMA SinglesAreSmall ==
    ASSUME Occupied
    PROVE  \A th \in Threads : Cardinality(cur[th]) <= 1
  <1>1. ASSUME NEW th \in Threads
        PROVE  Cardinality(cur[th]) <= 1
    <2>1. CASE cur[th] = {}
      <3>1. Cardinality(cur[th]) = 0
        BY <2>1, FS_EmptySet, Zenon
      <3> QED
        BY <3>1
    <2>2. ASSUME NEW x, cur[th] = {x}
          PROVE  Cardinality(cur[th]) <= 1
      <3>1. Cardinality({x}) = 1
        BY FS_Singleton
      <3>2. Cardinality(cur[th]) = 1
        BY <2>2, <3>1, Zenon
      <3> QED
        BY <3>2
    <2> QED
      BY <2>1, <2>2 DEF Occupied, Single
  <1> QED
    BY <1>1

(* What a type is made of, apart from the trades. *)
Typed ==
    /\ setting \in Settings
    /\ open \subseteq Order
    /\ active \subseteq open \cup failed
    /\ orderStore \subseteq Order
    /\ covered \in Int
    /\ pc \in [Threads -> Label]
    /\ seen \in [Threads -> Int]
    /\ submitting \subseteq Order
    /\ sawBase \in Int /\ matching \in Int
    /\ rounds \in 0 .. setting.maxRounds
    /\ failures \in 0 .. setting.maxFailures
    /\ torn \in 0 .. setting.maxTorn
    /\ failed \subseteq Order
    /\ raced \in BOOLEAN

Placed ==
    /\ Trades \subseteq Trade
    /\ feed \in [Streams -> Seq(Trades)]
    /\ tradeStore \cup batch \cup applied \subseteq Trades
    /\ cur \in [Threads -> SUBSET (Trades \cup Order)]

LEMMA TypeParts ==
    /\ TypeOK => Typed /\ Placed
    /\ Typed /\ Placed /\ Occupied => TypeOK
  BY SinglesAreSmall DEF TypeOK, Typed, Placed, Label

LEMMA PlacedGrows ==
    ASSUME Placed, Numbered, NEW x \in Streams, NEW new, NewTrades(new),
           executed' = executed \o new, feed' = [feed EXCEPT ![x] = @ \o new],
           UNCHANGED <<tradeStore, batch, applied>>,
           cur' = cur \/ cur' = [cur EXCEPT !["loop"] = {}]
    PROVE  Placed'
  <1>1. Trades' = Trades \cup ToSet(new)
    BY TradesAfter
  <1>2. new \in Seq(Trade) /\ \A i \in DOMAIN new : new[i] \in Trade /\ new[i] \in ToSet(new)
    BY DEF NewTrades, ToSet
  <1>3. new \in Seq(Trades') /\ Trades' \subseteq Trade
    <2>1. ToSet(new) \subseteq Trade
      BY <1>2 DEF ToSet
    <2>2. \A i \in DOMAIN new : new[i] \in Trades'
      BY <1>1, <1>2
    <2> HIDE DEF Trades
    <2> QED
      BY <1>1, <1>2, <2>1, <2>2 DEF Placed
  <1>4. feed' \in [Streams -> Seq(Trades')]
    <2>1. ASSUME NEW y \in Streams
          PROVE  feed[y] \in Seq(Trades')
      BY <1>1 DEF Placed
    <2>2. feed[x] \o new \in Seq(Trades')
      BY <1>3, <2>1
    <2> QED
      BY <2>1, <2>2 DEF Placed
  <1>5. tradeStore' \cup batch' \cup applied' \subseteq Trades'
    BY <1>1 DEF Placed
  <1>6. cur' \in [Threads -> SUBSET (Trades' \cup Order)]
    BY <1>1 DEF Placed
  <1> QED
    BY <1>3, <1>4, <1>5, <1>6 DEF Placed

LEMMA PlacedNext == TypeOK /\ Numbered /\ Delivered /\ Occupied /\ [Next]_vars => Placed'
<1> SUFFICES ASSUME TypeOK, Numbered, Delivered, Occupied, [Next]_vars  PROVE Placed'
  OBVIOUS
<1>a. Placed /\ Typed
  BY TypeParts
<1>1. CASE UNCHANGED <<executed, feed, tradeStore, batch, applied, cur>>
  BY <1>a, <1>1 DEF Placed, Trades
<1>2. CASE Fill
  <2>1. PICK o \in open, t \in Trade :
              /\ NewTrades(<<t>>)
              /\ executed' = executed \o <<t>>
              /\ feed' = [feed EXCEPT !["maker"] = @ \o <<t>>]
    BY <1>2, FillExecutes
  <2>2. "maker" \in Streams /\ UNCHANGED <<tradeStore, batch, applied, cur>>
    BY <1>2 DEF Fill, Streams, positionVars, loopVars
  <2> QED
    BY <1>a, <2>1, <2>2, PlacedGrows
<1>3. CASE SubmitHedge
  <2>1. PICK o \in cur["loop"] :
              /\ o \in Order
              /\ cur' = cur \/ cur' = [cur EXCEPT !["loop"] = {}]
              /\ \/ UNCHANGED <<executed, feed>>
                 \/ \E new \in Executions(o) :
                       /\ executed' = executed \o new
                       /\ feed' = [feed EXCEPT !["source"] = @ \o new]
    BY <1>3, HedgeExecutes
  <2>2. "source" \in Streams /\ UNCHANGED <<tradeStore, batch, applied>>
    BY <1>3 DEF SubmitHedge, Streams, loopVars
  <2>3. CASE UNCHANGED <<executed, feed>>
    BY <1>a, <2>1, <2>2, <2>3 DEF Placed, Trades
  <2>4. CASE ~UNCHANGED <<executed, feed>>
    <3>1. PICK new \in Executions(o) :
             executed' = executed \o new /\ feed' = [feed EXCEPT !["source"] = @ \o new]
      BY <2>1, <2>4
    <3>2. NewTrades(new)
      BY <2>1, ExecutionsAreWhole
    <3> QED
      BY <1>a, <2>1, <2>2, <3>1, <3>2, PlacedGrows
  <2> QED
    BY <2>3, <2>4
<1>4. ASSUME NEW th, NEW t \in Trades, NEW next, AddTrade(th, t, next)
      PROVE  applied' \subseteq Trades /\ cur' \in [Threads -> SUBSET (Trades \cup Order)]
  BY <1>a, <1>4 DEF AddTrade, Placed
<1>5. ASSUME NEW x \in Streams, Receive(x)  PROVE Placed'
  <2>1. feed[x] # <<>> /\ feed' = [feed EXCEPT ![x] = Tail(@)] /\ UNCHANGED <<executed, batch>>
    BY <1>5 DEF Receive, loopVars
  <2>2. Head(feed[x]) \in Trades /\ feed' \in [Streams -> Seq(Trades)]
    BY <2>1, TailOfFeed
  <2>3. CASE AddTrade(x, Head(feed[x]), "idle") /\ UNCHANGED tradeStore
    BY <1>4, <1>a, <2>1, <2>2, <2>3 DEF Placed, Trades
  <2>4. CASE tradeStore' = tradeStore \cup {Head(feed[x])} /\ UNCHANGED <<positionVars, pc>>
    BY <1>a, <2>1, <2>2, <2>4 DEF Placed, Trades, positionVars
  <2> QED
    BY <1>5, <2>3, <2>4 DEF Receive
<1>6. CASE ProcessTrade
  <2>1. PICK t \in batch : batch' = batch \ {t} /\ AddTrade("loop", t, "process")
    BY <1>6 DEF ProcessTrade
  <2>2. t \in Trades /\ UNCHANGED <<executed, feed, tradeStore>>
    BY <1>a, <1>6 DEF ProcessTrade, exchangeVars, Placed
  <2>3. applied' \subseteq Trades /\ cur' \in [Threads -> SUBSET (Trades \cup Order)]
    BY <1>4, <2>1, <2>2
  <2> QED
    BY <1>a, <2>1, <2>2, <2>3 DEF Placed, Trades
<1>7. CASE Process
  BY <1>a, <1>7 DEF Process, exchangeVars, positionVars, Placed, Trades
<1>8. CASE ReadCovered
  <2>1. UNCHANGED <<executed, feed, tradeStore, batch, applied>> /\ sawBase - covered \in Int
    BY <1>8, <1>a DEF ReadCovered, exchangeVars, Typed
  <2>2. Hedged(sawBase - covered) \in Int
    BY <2>1, HedgedType
  <2>3. cur' = cur \/ \E o \in Order : cur' = [cur EXCEPT !["loop"] = {o}]
    <3>1. ASSUME NEW qty \in Int
          PROVE  [ex |-> "source", n |-> Len(executed) + 1, qty |-> qty] \in Order
      BY DEF Order, Streams, Numbered
    <3>2. UNCHANGED cur \/ DoHedge(Hedged(sawBase - covered))
      BY <1>8 DEF ReadCovered
    <3> QED
      BY <2>2, <3>1, <3>2 DEF DoHedge
  <2> QED
    BY <1>a, <2>1, <2>3 DEF Placed, Trades
<1>9. CASE StoreHedge
  BY <1>a, <1>9 DEF StoreHedge, exchangeVars, loopVars, Placed, Trades
<1>10. ASSUME NEW th \in Threads, WriteCover(th)  PROVE Placed'
  <2>1. /\ UNCHANGED <<executed, feed, tradeStore, batch, applied>>
        /\ cur' = cur \/ cur' = [cur EXCEPT ![th] = {}]
    BY <1>10 DEF WriteCover, exchangeVars, loopVars
  <2> QED
    BY <1>a, <2>1 DEF Placed, Trades
<1> QED
  BY <1>1, <1>2, <1>3, <1>5, <1>6, <1>7, <1>8, <1>9, <1>10
     DEF Next, Quoting, Hedging, vars, exchangeVars, loopVars, positionVars, boundVars,
         CancelQuotes, Generate, SubmitQuotes, AddQuotes, ReadBase, ReadForCover

LEMMA Typed1 ==
    ASSUME TypeOK, Numbered, Quoting
    PROVE  Typed'
<1>a. Typed /\ setting \in Setting
  BY TypeParts, XMakerAssumption DEF Typed
<1>b. setting.maxRounds \in Nat /\ setting.maxFailures \in Nat /\ "loop" \in Threads
  BY <1>a DEF Setting, Threads
<1>1. CASE CancelQuotes
  BY <1>a, <1>b, <1>1 DEF CancelQuotes, Goto, Label, Typed, positionVars, loopVars
<1>2. CASE Generate
  <2>1. submitting' \subseteq Order
    BY <1>2, LayersType DEF Generate
  <2>2. UNCHANGED <<setting, open, active, orderStore, covered, seen, raced, sawBase, matching, boundVars>>
    BY <1>2 DEF Generate, exchangeVars, positionVars
  <2>3. pc' \in [Threads -> Label]
    BY <1>a, <1>2 DEF Generate, Goto, Label, Typed
  <2> QED
    BY <1>a, <2>1, <2>2, <2>3 DEF Typed, boundVars
<1>3. CASE SubmitQuotes
  BY <1>a, <1>b, <1>3 DEF SubmitQuotes, Goto, Label, Typed, positionVars
<1>4. CASE AddQuotes
  BY <1>a, <1>b, <1>4 DEF AddQuotes, Goto, Label, Typed, exchangeVars, positionVars, boundVars
<1> QED
  BY <1>1, <1>2, <1>3, <1>4 DEF Quoting

LEMMA TypedNext == TypeOK /\ Numbered /\ Delivered /\ Occupied /\ [Next]_vars => Typed'
<1> SUFFICES ASSUME TypeOK, Numbered, Delivered, Occupied, [Next]_vars  PROVE Typed'
  OBVIOUS
<1>a. Typed /\ setting \in Setting
  BY TypeParts, XMakerAssumption DEF Typed
<1>b. setting.maxFailures \in Nat /\ setting.maxTorn \in Nat /\ "loop" \in Threads
  BY <1>a DEF Setting, Threads
<1>1. CASE UNCHANGED vars
  BY <1>a, <1>1 DEF Typed, vars, exchangeVars, positionVars, loopVars, boundVars
<1>2. CASE Quoting
  BY <1>2, Typed1
<1>3. CASE Fill
  <2>1. /\ open' \subseteq open /\ UNCHANGED <<setting, orderStore, positionVars, pc, loopVars, boundVars>>
        /\ active' \subseteq open' \cup failed
    BY <1>a, <1>3 DEF Fill, Typed
  <2> QED
    BY <1>a, <2>1 DEF Typed, positionVars, loopVars, boundVars
<1>4. CASE Process
  BY <1>a, <1>b, <1>4 DEF Process, Typed, Goto, Label, exchangeVars, positionVars, boundVars
<1>5. ASSUME NEW th \in Threads, NEW t, NEW next \in Label, AddTrade(th, t, next)
      PROVE  pc' \in [Threads -> Label] /\ UNCHANGED <<covered, seen, raced>>
  BY <1>a, <1>5 DEF AddTrade, Goto, Label, Typed
<1>6. CASE ProcessTrade
  <2>1. PICK t \in batch : AddTrade("loop", t, "process")
    BY <1>6 DEF ProcessTrade
  <2>2. pc' \in [Threads -> Label] /\ UNCHANGED <<covered, seen, raced>>
    BY <1>5, <1>b, <2>1 DEF Label
  <2> QED
    BY <1>a, <1>6, <2>2 DEF ProcessTrade, Typed, exchangeVars, boundVars
<1>7. CASE ReadBase
  <2>1. Base \in Int
    BY BaseType
  <2>2. Halfway \in Int
    <3> DEFINE H == UNION {cur[th] : th \in Streams}
    <3>1. H \subseteq Trades
      BY ThreadsAre, TypeParts, Kinds DEF Occupied, Placed
    <3>2. Sum(H) \in Int
      <4> HIDE DEF H
      <4> QED
        BY <3>1, TradesAreAmounts, SumIsInt
    <3> QED
      BY <3>2 DEF Halfway
  <2>3. sawBase' \in Int /\ matching' \in Int
    BY <1>a, <1>7, <2>1, <2>2 DEF ReadBase, Typed
  <2>4. UNCHANGED <<setting, open, active, orderStore, covered, seen, raced, submitting, boundVars>>
    BY <1>7 DEF ReadBase, exchangeVars, positionVars
  <2>5. pc' \in [Threads -> Label]
    BY <1>a, <1>7 DEF ReadBase, Goto, Label, Typed
  <2> QED
    BY <1>a, <2>3, <2>4, <2>5 DEF Typed, boundVars
<1>8. CASE ReadCovered
  <2>1. torn' \in 0 .. setting.maxTorn
    BY <1>a, <1>b, <1>8 DEF ReadCovered, Typed
  <2>2. sawBase' = 0 /\ matching' = 0 /\ UNCHANGED <<setting, exchangeVars, active, orderStore, covered,
                                                     seen, raced, submitting, rounds, failures, failed>>
    BY <1>8 DEF ReadCovered
  <2>3. pc' \in [Threads -> Label]
    <3>1. Goto("loop", "idle") \/ Goto("loop", "hedge") \/ Goto("loop", "process")
      BY <1>8 DEF ReadCovered, DoHedge
    <3> QED
      BY <1>a, <3>1 DEF Goto, Label, Typed
  <2> QED
    BY <1>a, <2>1, <2>2, <2>3 DEF Typed, exchangeVars
<1>9. CASE SubmitHedge
  <2>1. PICK o \in cur["loop"] : o \in Order /\ cur["loop"] = {o}
    BY <1>9, HedgeExecutes
  <2>2. failed' \subseteq Order /\ failed \subseteq failed'
    BY <1>a, <1>9, <2>1 DEF SubmitHedge, Typed
  <2>3. failures' \in 0 .. setting.maxFailures
    BY <1>a, <1>b, <1>9 DEF SubmitHedge, Typed
  <2>4. pc' \in [Threads -> Label]
    BY <1>a, <1>9 DEF SubmitHedge, Goto, Label, Typed
  <2> QED
    BY <1>a, <1>9, <2>2, <2>3, <2>4 DEF SubmitHedge, Typed, loopVars
<1>10. CASE StoreHedge
  <2>1. cur["loop"] \subseteq Order
    <3>1. pc["loop"] = "store"
      BY <1>10 DEF StoreHedge
    <3> QED
      BY <3>1, <1>b, Things DEF Occupied
  <2> QED
    BY <1>a, <1>b, <1>10, <2>1 DEF StoreHedge, Goto, Label, Typed, exchangeVars, loopVars, boundVars
<1>11. ASSUME NEW x \in Streams, Receive(x)  PROVE Typed'
  <2>1. pc' \in [Threads -> Label] /\ UNCHANGED <<covered, seen, raced>>
    BY <1>a, <1>5, <1>11, ThreadsAre DEF Receive, Label, positionVars, Typed
  <2> QED
    BY <1>a, <1>11, <2>1 DEF Receive, Typed, loopVars, boundVars
<1>12. ASSUME NEW th \in Threads, ReadForCover(th)  PROVE Typed'
  BY <1>a, <1>12 DEF ReadForCover, Goto, Label, Typed, exchangeVars, loopVars, boundVars
<1>13. ASSUME NEW th \in Threads, WriteCover(th)  PROVE Typed'
  <2>1. PICK thing \in cur[th] :
          /\ covered' = seen[th] + IF IsOrder(thing) THEN -thing.qty ELSE thing.qty
          /\ raced' = (raced \/ covered # seen[th])
          /\ seen' = [seen EXCEPT ![th] = 0]
          /\ Goto(th, "store") \/ Goto(th, "process") \/ Goto(th, "idle")
    BY <1>13 DEF WriteCover
  <2>2. thing.qty \in Int /\ seen[th] \in Int
    BY <1>a, Things, Kinds DEF Typed
  <2>3. covered' \in Int
    BY <2>1, <2>2
  <2>4. raced' \in BOOLEAN
    BY <1>a, <2>1, Zenon DEF Typed
  <2>5. pc' \in [Threads -> Label]
    BY <1>a, <2>1 DEF Goto, Label, Typed
  <2>6. seen' \in [Threads -> Int]
    BY <1>a, <2>1 DEF Typed
  <2>7. UNCHANGED <<setting, open, active, orderStore, submitting, sawBase, matching, boundVars>>
    BY <1>13 DEF WriteCover, exchangeVars, loopVars
  <2> QED
    BY <1>a, <2>3, <2>4, <2>5, <2>6, <2>7 DEF Typed, boundVars
<1> QED
  BY <1>1, <1>2, <1>3, <1>4, <1>6, <1>7, <1>8, <1>9, <1>10, <1>11, <1>12, <1>13 DEF Next, Hedging

-----------------------------------------------------------------------------
(***************************************************************************)
(* CoveredPosition                                                         *)
(***************************************************************************)
InHand == UNION {cur[th] : th \in Threads}

LEMMA OutstandingIs ==
    /\ Outstanding \subseteq Trades
    /\ \A t : t \in Outstanding <=> /\ t \in Trades /\ t.order.ex = "source" /\ t.order \in Acknowledged
                                    /\ t \notin applied \/ t \in InHand
  BY DEF Outstanding, TradesAt, InHand

LEMMA CoverKept ==
    ASSUME CoverIsOutstanding, UNCHANGED <<covered, raced>>, Outstanding' = Outstanding
    PROVE  CoverIsOutstanding'
  <1> HIDE DEF Outstanding
  <1>1. Sum(Outstanding)' = Sum(Outstanding)
    <2>1. Sum(Outstanding') = Sum(Outstanding)
      BY Zenon
    <2> QED
      BY <2>1
  <1> QED
    BY <1>1 DEF CoverIsOutstanding

LEMMA AcknowledgedIs ==
    /\ pc["loop"] # "store" => Acknowledged = orderStore
    /\ pc["loop"] = "store" => Acknowledged = orderStore \cup cur["loop"]
  BY DEF Acknowledged

(* The step changes neither what is acknowledged nor whose turn it is to be
   added, as far as the trades at the source exchange go. *)
LEMMA OutstandingKept ==
    ASSUME TypeOK, Numbered, UNCHANGED <<executed, applied>>,
           \A o \in Order : o.ex = "source" => (o \in Acknowledged' <=> o \in Acknowledged),
           \A t \in Trade : t \in InHand' <=> t \in InHand
    PROVE  Outstanding' = Outstanding
  <1>1. Trades' = Trades /\ Trades \subseteq Trade
    BY Things DEF Trades
  <1>2. \A t \in Trades : t.order \in Order
    BY <1>1, Kinds
  <1>3. \A t : t \in Outstanding' <=>
               /\ t \in Trades' /\ t.order.ex = "source" /\ t.order \in Acknowledged'
               /\ t \notin applied' \/ t \in InHand'
    BY DEF Outstanding, TradesAt, InHand
  <1>4. \A t : t \in Outstanding' <=> t \in Outstanding
    <2> HIDE DEF Outstanding, Acknowledged, InHand, Trades
    <2> QED
      BY <1>1, <1>2, <1>3, OutstandingIs
  <1> QED
    BY <1>4 DEF Outstanding

(* A trade that is added to the position is then in a hand, if it counts. *)
LEMMA AddTradeCovers ==
    ASSUME TypeOK, Numbered, Delivered, Occupied, CoverIsOutstanding,
           NEW th \in Threads, pc[th] \notin Busy,
           NEW t \in Trades, t \notin applied, NEW next, next # "store",
           AddTrade(th, t, next), UNCHANGED <<executed, orderStore>>
    PROVE  CoverIsOutstanding'
  <1>1. pc \in [Threads -> Label] /\ cur \in [Threads -> SUBSET (Trades \cup Order)]
    BY DEF TypeOK, Label
  <1>2. t \in Trade /\ Trades' = Trades /\ applied' = applied \cup {t} /\ UNCHANGED <<covered, raced>>
    BY Things DEF AddTrade, Trades
  <1>3. t \notin InHand
    BY <1>2 DEF Occupied, InHand
  <1>4. cur[th] = {}
    BY DEF Occupied, Busy
  <1>5. pc["loop"] = "store" => th # "loop"
    BY DEF Busy
  <1>6. pc'["loop"] = "store" <=> pc["loop"] = "store"
    BY <1>1, <1>5, ThreadsAre DEF AddTrade, Goto, Busy
  <1>7. pc["loop"] = "store" => cur'["loop"] = cur["loop"]
    BY <1>1, <1>5, ThreadsAre DEF AddTrade
  <1>8. Acknowledged' = Acknowledged
    BY <1>6, <1>7 DEF Acknowledged
  <1>9. InHand' = IF t.order.ex = "source" THEN InHand \cup {t} ELSE InHand
    <2>1. CASE t.order.ex = "source"
      <3>1. cur'[th] = {t} /\ \A a \in Threads \ {th} : cur'[a] = cur[a]
        BY <1>1, <2>1 DEF AddTrade
      <3> QED
        BY <1>4, <2>1, <3>1 DEF InHand
    <2>2. CASE t.order.ex # "source"
      BY <2>2 DEF AddTrade, InHand
    <2> QED
      BY <2>1, <2>2
  <1>10. \A s : s \in Outstanding' <=>
               /\ s \in Trades' /\ s.order.ex = "source" /\ s.order \in Acknowledged'
               /\ s \notin applied' \/ s \in InHand'
    BY DEF Outstanding, TradesAt, InHand
  <1>11. \A s : s \in Outstanding' <=> s \in Outstanding
    <2> HIDE DEF Outstanding, Acknowledged, InHand, Trades
    <2> QED
      BY <1>2, <1>3, <1>8, <1>9, <1>10, OutstandingIs
  <1>12. Outstanding' = Outstanding
    BY <1>11 DEF Outstanding
  <1> QED
    BY <1>2, <1>12, CoverKept

(* A trade at another exchange, or of an order that is not acknowledged, does
   not count. *)
LEMMA NewTradesDoNotCount ==
    ASSUME TypeOK, Numbered, CoverIsOutstanding, NEW new, NewTrades(new), executed' = executed \o new,
           UNCHANGED <<applied, covered, raced>>,
           \A t \in ToSet(new) : t.order.ex = "source" => t.order \notin Acknowledged',
           Acknowledged' = Acknowledged, \A t \in Trade : t \in InHand' <=> t \in InHand
    PROVE  CoverIsOutstanding'
  <1>1. Trades' = Trades \cup ToSet(new) /\ Trades \subseteq Trade
    BY Things, TradesAfter
  <1>2. \A s : s \in Outstanding' <=>
               /\ s \in Trades' /\ s.order.ex = "source" /\ s.order \in Acknowledged'
               /\ s \notin applied' \/ s \in InHand'
    BY DEF Outstanding, TradesAt, InHand
  <1>3. \A s : s \in Outstanding' <=> s \in Outstanding
    <2> HIDE DEF Outstanding, Acknowledged, InHand, Trades
    <2> QED
      BY <1>1, <1>2, OutstandingIs
  <1>4. Outstanding' = Outstanding
    BY <1>3 DEF Outstanding
  <1> QED
    BY <1>4, CoverKept

(* A trade that is written to CoveredPosition is no more outstanding. *)
LEMMA WriteTradeCovers ==
    ASSUME TypeOK, Numbered, Delivered, Occupied, CoverIsOutstanding, ~raced, ~raced',
           NEW th \in Threads, NEW t \in cur[th], ~IsOrder(t), WriteCover(th)
    PROVE  CoverIsOutstanding'
  <1>1. pc \in [Threads -> Label] /\ cur \in [Threads -> SUBSET (Trades \cup Order)]
        /\ covered \in Int /\ seen[th] \in Int
    BY DEF TypeOK, Label
  <1>2. t \in Trade /\ t.qty \in Int
    BY Things, Kinds
  <1>3. cur[th] = {t}
    BY DEF Occupied, Single
  <1>4. /\ covered' = seen[th] + t.qty
        /\ raced' = (raced \/ covered # seen[th])
        /\ cur' = [cur EXCEPT ![th] = {}]
        /\ Goto(th, IF th = "loop" THEN "process" ELSE "idle")
        /\ pc[th] = "write" /\ UNCHANGED <<executed, applied, orderStore>>
    BY <1>3 DEF WriteCover, exchangeVars
  <1>5. covered' = covered + t.qty
    BY <1>4
  <1>6. t \in Outstanding
    <2>1. t \in Trades /\ t.order.ex = "source" /\ t \in applied /\ t \in InHand
      BY <1>2 DEF Occupied, TypeOK, InHand
    <2>2. t.order \in Acknowledged
      BY <2>1 DEF Delivered, Acknowledged
    <2> QED
      BY <2>1, <2>2, OutstandingIs
  <1>7. Acknowledged' = Acknowledged
    BY <1>1, <1>4, ThreadsAre DEF Acknowledged, Goto
  <1>8. InHand' = InHand \ {t}
    <2>1. cur'[th] = {} /\ \A a \in Threads \ {th} : cur'[a] = cur[a] /\ t \notin cur[a]
      BY <1>1, <1>3, <1>4 DEF Occupied
    <2> QED
      BY <1>3, <2>1 DEF InHand
  <1>9. Trades' = Trades /\ t \in applied
    BY <1>2, <1>4 DEF Trades, Occupied
  <1>10. \A s : s \in Outstanding' <=>
               /\ s \in Trades' /\ s.order.ex = "source" /\ s.order \in Acknowledged'
               /\ s \notin applied' \/ s \in InHand'
    BY DEF Outstanding, TradesAt, InHand
  <1>11. \A s : s \in Outstanding' <=> s \in Outstanding \ {t}
    <2> HIDE DEF Outstanding, Acknowledged, InHand, Trades
    <2> QED
      BY <1>4, <1>7, <1>8, <1>9, <1>10, OutstandingIs
  <1>12. Outstanding' = Outstanding \ {t}
    BY <1>11 DEF Outstanding
  <1>13. Amounts(Outstanding)
    BY OutstandingIs, TradesAreAmounts
  <1>14. Sum(Outstanding \ {t}) = Sum(Outstanding) - t.qty /\ Sum(Outstanding) \in Int
    <2> HIDE DEF Outstanding
    <2> QED
      BY <1>6, <1>13, SumWithout, SumIsInt
  <1>15. Sum(Outstanding') = Sum(Outstanding) - t.qty
    <2> HIDE DEF Outstanding
    <2> QED
      BY <1>12, <1>14, Zenon
  <1>16. covered = -Sum(Outstanding)
    BY DEF CoverIsOutstanding
  <1>17. covered' = -Sum(Outstanding')
    <2> HIDE DEF Outstanding
    <2> QED
      BY <1>1, <1>2, <1>5, <1>14, <1>15, <1>16
  <1> QED
    BY <1>17 DEF CoverIsOutstanding

(* When a hedge order is written to CoveredPosition all of its trades become
   outstanding, and none of them is in the position. *)
LEMMA WriteOrderCovers ==
    ASSUME TypeOK, Numbered, Delivered, Occupied, CoverIsOutstanding, ~raced, ~raced',
           NEW th \in Threads, NEW o \in cur[th], IsOrder(o), WriteCover(th)
    PROVE  CoverIsOutstanding'
  <1>1. pc \in [Threads -> Label] /\ covered \in Int
    BY DEF TypeOK, Label
  <1>2. o \in Order /\ o \notin Trade /\ o.qty \in Int
    BY Things, Kinds
  <1>3. th = "loop"
    BY <1>2, ThreadsAre DEF Occupied
  <1>4. cur[th] = {o}
    BY DEF Occupied, Single
  <1>5. /\ covered' = seen[th] + -o.qty
        /\ raced' = (raced \/ covered # seen[th])
        /\ UNCHANGED cur /\ Goto(th, "store")
        /\ pc[th] = "write" /\ UNCHANGED <<executed, applied, orderStore>>
    BY <1>4 DEF WriteCover, exchangeVars
  <1>6. covered' = covered - o.qty
    BY <1>1, <1>2, <1>5
  <1>7. o.ex = "source" /\ o \notin orderStore /\ Sum(TradesOf(o)) = o.qty
    BY <1>2, <1>3, <1>5 DEF Occupied
  <1>8. Acknowledged = orderStore /\ Acknowledged' = orderStore \cup {o}
    BY <1>1, <1>3, <1>4, <1>5 DEF Acknowledged, Goto
  <1>9. Trades' = Trades /\ InHand' = InHand
    BY <1>5 DEF Trades, InHand
  <1>10. \A t : t \in TradesOf(o) <=> t \in Trades /\ t.order = o
    BY DEF TradesOf
  <1>11. \A t \in TradesOf(o) : t \notin applied
    BY <1>7, <1>10 DEF Delivered
  <1>12. \A t : t \in Outstanding' <=>
               /\ t \in Trades' /\ t.order.ex = "source" /\ t.order \in Acknowledged'
               /\ t \notin applied' \/ t \in InHand'
    BY DEF Outstanding, TradesAt, InHand
  <1>13. /\ \A t : t \in Outstanding' <=> t \in Outstanding \cup TradesOf(o)
         /\ \A t \in TradesOf(o) : t \notin Outstanding
    <2> HIDE DEF Outstanding, Acknowledged, InHand, Trades, TradesOf
    <2> QED
      BY <1>5, <1>7, <1>8, <1>9, <1>10, <1>11, <1>12, OutstandingIs
  <1>14. Outstanding' = Outstanding \cup TradesOf(o) /\ Outstanding \cap TradesOf(o) = {}
    BY <1>13 DEF Outstanding
  <1>15. Amounts(Outstanding) /\ Amounts(TradesOf(o))
    BY <1>10, OutstandingIs, TradesAreAmounts
  <1> HIDE DEF Outstanding, TradesOf
  <1>16. Sum(Outstanding \cup TradesOf(o)) = Sum(Outstanding) + Sum(TradesOf(o)) /\ Sum(Outstanding) \in Int
    BY <1>14, <1>15, SumOfBoth, SumIsInt
  <1>17. Sum(Outstanding') = Sum(Outstanding) + Sum(TradesOf(o))
    BY <1>14, <1>16, Zenon
  <1>18. covered = -Sum(Outstanding)
    BY DEF CoverIsOutstanding
  <1>19. covered' = -Sum(Outstanding')
    BY <1>1, <1>2, <1>6, <1>7, <1>16, <1>17, <1>18
  <1> QED
    BY <1>19 DEF CoverIsOutstanding

LEMMA CoverNext ==
    ASSUME TypeOK, Numbered, Delivered, Occupied, CoverIsOutstanding, [Next]_vars
    PROVE  CoverIsOutstanding'
<1>a. /\ pc \in [Threads -> Label]
      /\ cur \in [Threads -> SUBSET (Trades \cup Order)]
  BY DEF TypeOK, Label
<1>b. ASSUME UNCHANGED cur  PROVE InHand' = InHand
  BY <1>b DEF InHand
<1>c. ASSUME UNCHANGED <<covered, raced, executed, applied>>,
             \A o \in Order : o.ex = "source" => (o \in Acknowledged' <=> o \in Acknowledged),
             \A t \in Trade : t \in InHand' <=> t \in InHand
      PROVE  CoverIsOutstanding'
  BY <1>c, OutstandingKept, CoverKept
<1>1. CASE UNCHANGED vars
  <2>1. UNCHANGED <<covered, raced, executed, applied, cur, pc, orderStore>>
    BY <1>1 DEF vars, positionVars, exchangeVars
  <2> QED
    BY <1>b, <1>c, <2>1 DEF Acknowledged
<1>2. CASE Quoting \/ Process \/ ReadBase
  <2>1. /\ pc["loop"] # "store" /\ UNCHANGED <<executed, cur, applied, covered, raced>>
        /\ \/ UNCHANGED pc
           \/ \E label \in {"idle", "quote", "submit", "add", "process", "uncovered"} : Goto("loop", label)
        /\ orderStore' = orderStore \/ orderStore' = orderStore \cup submitting
    BY <1>2 DEF Quoting, CancelQuotes, Generate, SubmitQuotes, AddQuotes, Process, ReadBase,
                positionVars, exchangeVars
  <2>2. pc'["loop"] # "store"
    BY <1>a, <2>1, ThreadsAre DEF Goto
  <2>3. Acknowledged = orderStore /\ Acknowledged' = orderStore'
    BY <2>1, <2>2 DEF Acknowledged
  <2>4. \A o \in submitting : o.ex # "source"
    BY DEF Numbered
  <2> HIDE DEF Acknowledged
  <2> QED
    BY <1>b, <1>c, <2>1, <2>3, <2>4
<1>3. CASE Fill
  <2>1. PICK o \in open, t \in Trade :
              NewTrades(<<t>>) /\ t.order = o /\ executed' = executed \o <<t>>
    BY <1>3, FillExecutes
  <2>2. UNCHANGED <<cur, pc, orderStore, applied, covered, raced>>
    BY <1>3 DEF Fill, positionVars
  <2>3. Acknowledged' = Acknowledged
    BY <2>2 DEF Acknowledged
  <2>4. \A s \in ToSet(<<t>>) : s.order.ex # "source"
    BY <2>1, ToSetOfOne DEF Numbered
  <2> QED
    BY <1>b, <2>1, <2>2, <2>3, <2>4, NewTradesDoNotCount
<1>4. CASE ProcessTrade
  <2>1. PICK t \in batch : AddTrade("loop", t, "process")
    BY <1>4 DEF ProcessTrade
  <2>2. pc["loop"] \notin Busy /\ t \in Trades /\ t \notin applied /\ UNCHANGED <<executed, orderStore>>
    BY <1>4 DEF ProcessTrade, Busy, Delivered, TypeOK, exchangeVars
  <2> QED
    BY <2>1, <2>2, ThreadsAre, AddTradeCovers
<1>5. CASE ReadCovered
  <2>1. UNCHANGED <<executed, applied, orderStore, covered, raced>> /\ pc["loop"] = "uncovered"
    BY <1>5 DEF ReadCovered, exchangeVars
  <2>2. pc'["loop"] # "store"
    <3>1. Goto("loop", "idle") \/ Goto("loop", "hedge") \/ Goto("loop", "process")
      BY <1>5 DEF ReadCovered, DoHedge
    <3> QED
      BY <1>a, <3>1, ThreadsAre DEF Goto
  <2>3. Acknowledged' = Acknowledged
    BY <2>1, <2>2 DEF Acknowledged
  <2>4. cur' = cur \/ \E o : "ex" \in DOMAIN o /\ cur' = [cur EXCEPT !["loop"] = {o}]
    <3>1. ASSUME NEW qty
          PROVE  "ex" \in DOMAIN [ex |-> "source", n |-> Len(executed) + 1, qty |-> qty]
      OBVIOUS
    <3>2. UNCHANGED cur \/ DoHedge(Hedged(sawBase - covered))
      BY <1>5 DEF ReadCovered
    <3> QED
      BY <3>1, <3>2 DEF DoHedge
  <2>5. \A t \in Trade : t \in InHand' <=> t \in InHand
    <3>1. CASE cur' = cur
      BY <1>b, <3>1
    <3>2. ASSUME NEW o, "ex" \in DOMAIN o, cur' = [cur EXCEPT !["loop"] = {o}]
          PROVE  \A t \in Trade : t \in InHand' <=> t \in InHand
      <4>1. o \notin Trade
        BY <3>2, Kinds DEF IsOrder
      <4>2. cur["loop"] = {} /\ cur'["loop"] = {o} /\ \A x \in Threads \ {"loop"} : cur'[x] = cur[x]
        BY <1>a, <2>1, <3>2, ThreadsAre DEF Occupied
      <4> QED
        BY <4>1, <4>2, ThreadsAre DEF InHand
    <3> QED
      BY <2>4, <3>1, <3>2
  <2> QED
    BY <1>c, <2>1, <2>3, <2>5
<1>6. CASE SubmitHedge
  <2>1. PICK o \in cur["loop"] :
              /\ cur["loop"] = {o} /\ o \in Order /\ o \notin orderStore
              /\ \/ /\ UNCHANGED executed
                    /\ cur' = [cur EXCEPT !["loop"] = {}] /\ Goto("loop", "idle")
                 \/ \E new \in Executions(o) :
                       /\ executed' = executed \o new
                       /\ \/ cur' = [cur EXCEPT !["loop"] = {}] /\ Goto("loop", "idle")
                          \/ cur' = cur /\ Goto("loop", "cover")
    BY <1>6, HedgeExecutes
  <2>2. UNCHANGED <<orderStore, applied, covered, raced>> /\ pc["loop"] = "hedge"
    BY <1>6 DEF SubmitHedge
  <2>3. pc'["loop"] # "store"
    BY <1>a, <2>1, ThreadsAre DEF Goto
  <2>4. Acknowledged' = Acknowledged /\ o \notin Acknowledged'
    BY <2>1, <2>2, <2>3 DEF Acknowledged
  <2>5. \A t \in Trade : t \in InHand' <=> t \in InHand
    <3>1. o \notin Trade
      BY <2>1, Kinds
    <3>2. CASE cur' = cur
      BY <1>b, <3>2
    <3>3. CASE cur' = [cur EXCEPT !["loop"] = {}]
      <4>1. cur'["loop"] = {} /\ \A x \in Threads \ {"loop"} : cur'[x] = cur[x]
        BY <1>a, <3>3, ThreadsAre
      <4> QED
        BY <2>1, <3>1, <4>1, ThreadsAre DEF InHand
    <3> QED
      BY <2>1, <3>2, <3>3
  <2>6. CASE UNCHANGED executed
    BY <1>c, <2>2, <2>4, <2>5, <2>6
  <2>7. ASSUME NEW new \in Executions(o), executed' = executed \o new
        PROVE  CoverIsOutstanding'
    <3>1. NewTrades(new) /\ \A t \in ToSet(new) : t.order = o
      BY <2>1, ExecutionsAreWhole
    <3>2. \A t \in ToSet(new) : t.order.ex = "source" => t.order \notin Acknowledged'
      BY <2>4, <3>1
    <3> QED
      BY <2>2, <2>4, <2>5, <2>7, <3>1, <3>2, NewTradesDoNotCount
  <2> QED
    BY <2>1, <2>6, <2>7
<1>7. CASE StoreHedge
  <2>1. /\ pc["loop"] = "store" /\ orderStore' = orderStore \cup cur["loop"]
        /\ cur' = [cur EXCEPT !["loop"] = {}] /\ Goto("loop", "idle")
        /\ UNCHANGED <<executed, applied, covered, raced>>
    BY <1>7 DEF StoreHedge, exchangeVars
  <2>2. Acknowledged' = Acknowledged
    BY <1>a, <2>1, ThreadsAre DEF Acknowledged, Goto
  <2>3. \A t \in Trade : t \in InHand' <=> t \in InHand
    <3>1. \A t \in cur["loop"] : t \notin Trade
      BY <2>1, ThreadsAre DEF Occupied
    <3>2. cur'["loop"] = {} /\ \A x \in Threads \ {"loop"} : cur'[x] = cur[x]
      BY <1>a, <2>1, ThreadsAre
    <3> QED
      BY <3>1, <3>2, ThreadsAre DEF InHand
  <2> QED
    BY <1>c, <2>1, <2>2, <2>3
<1>8. ASSUME NEW x \in Streams, Receive(x)  PROVE CoverIsOutstanding'
  <2>1. /\ pc[x] = "idle" /\ feed[x] # <<>> /\ UNCHANGED <<executed, orderStore>>
        /\ feed' = [feed EXCEPT ![x] = Tail(@)]
    BY <1>8 DEF Receive
  <2>2. CASE AddTrade(x, Head(feed[x]), "idle")
    <3>1. Head(feed[x]) \in Trades /\ Head(feed[x]) \notin applied
      BY <2>1, TailOfFeed
    <3>2. pc[x] \notin Busy
      BY <2>1 DEF Busy
    <3> QED
      BY <2>1, <2>2, <3>1, <3>2, ThreadsAre, AddTradeCovers
  <2>3. CASE UNCHANGED <<positionVars, pc>>
    <3>1. UNCHANGED <<cur, pc, applied, covered, raced>>
      BY <2>3 DEF positionVars
    <3> QED
      BY <1>b, <1>c, <2>1, <3>1 DEF Acknowledged
  <2> QED
    BY <1>8, <2>2, <2>3 DEF Receive
<1>9. ASSUME NEW th \in Threads, ReadForCover(th)  PROVE CoverIsOutstanding'
  <2>1. /\ pc[th] = "cover" /\ pc' = [pc EXCEPT ![th] = "write"]
        /\ UNCHANGED <<cur, orderStore, applied, executed, covered, raced>>
    BY <1>9 DEF ReadForCover, Goto, exchangeVars
  <2>2. pc'["loop"] = "store" <=> pc["loop"] = "store"
    BY <1>a, <2>1, ThreadsAre
  <2>3. Acknowledged' = Acknowledged
    BY <2>1, <2>2 DEF Acknowledged
  <2> QED
    BY <1>b, <1>c, <2>1, <2>3
<1>10. ASSUME NEW th \in Threads, WriteCover(th), ~raced  PROVE CoverIsOutstanding'
  <2>1. CASE raced'
    BY <2>1 DEF CoverIsOutstanding
  <2>2. CASE ~raced'
    <3>1. PICK thing \in cur[th] : TRUE
      BY <1>10 DEF WriteCover
    <3> QED
      BY <1>10, <2>2, <3>1, WriteTradeCovers, WriteOrderCovers
  <2> QED
    BY <2>1, <2>2
<1> QED
  BY <1>1, <1>2, <1>3, <1>4, <1>5, <1>6, <1>7, <1>8, <1>9, <1>10 DEF Next, Hedging

-----------------------------------------------------------------------------
CoverInv == TypeOK /\ Numbered /\ Delivered /\ Occupied /\ CoverIsOutstanding

LEMMA CoverInit == Init => CoverInv
<1> SUFFICES ASSUME Init  PROVE CoverInv
  OBVIOUS
<1>1. setting \in Setting
  BY XMakerAssumption DEF Init
<1>2. setting.maxRounds \in Nat /\ setting.maxFailures \in Nat /\ setting.maxTorn \in Nat
  BY <1>1 DEF Setting
<1>3. Trades = {} /\ executed = <<>>
  BY DEF Init, Trades, ToSet
<1>4. Numbered
  <2>1. <<>> \in Seq(Trade)
    OBVIOUS
  <2>2. IsFiniteSet(Trades)
    BY <1>3, FS_EmptySet, Zenon
  <2> QED
    BY <1>3, <2>1, <2>2 DEF Init, Numbered
<1>5. Delivered
  BY DEF Init, Delivered, Streams
<1>6. Occupied
  <2>1. \A th \in Threads : cur[th] = {} /\ pc[th] = "idle"
    BY DEF Init
  <2>2. \A th \in Threads : Single(cur[th])
    BY <2>1, SingleIs, Zenon
  <2> QED
    BY <2>1, <2>2, ThreadsAre DEF Occupied
<1>7. Placed
  <2>1. \A x \in Streams : feed[x] \in Seq(Trades)
    BY DEF Init
  <2> QED
    BY <1>3, <2>1 DEF Init, Placed
<1>8. Typed
  <2>1. raced \in BOOLEAN
    BY DEF Init
  <2> QED
    BY <1>2, <2>1 DEF Init, Typed, Label
<1>9. TypeOK
  BY <1>6, <1>7, <1>8, TypeParts
<1>10. CoverIsOutstanding
  <2>1. Outstanding = {}
    BY <1>3, OutstandingIs
  <2>2. Sum(Outstanding) = 0
    <3> HIDE DEF Outstanding
    <3> QED
      BY <2>1, SumOfNone, Zenon
  <2>3. covered = 0
    BY DEF Init
  <2>4. covered = -Sum(Outstanding)
    <3>1. \A a, b \in Int : a = b /\ b + b = b => a = -b
      OBVIOUS
    <3>2. 0 + 0 = 0 /\ 0 \in Int
      OBVIOUS
    <3> HIDE DEF Outstanding, Sum
    <3> QED
      BY <2>2, <2>3, <3>1, <3>2, Zenon
  <2> QED
    BY <2>4 DEF CoverIsOutstanding
<1> QED
  BY <1>4, <1>5, <1>6, <1>9, <1>10 DEF CoverInv

LEMMA CoverInvNext == CoverInv /\ [Next]_vars => CoverInv'
<1> SUFFICES ASSUME CoverInv, [Next]_vars  PROVE CoverInv'
  OBVIOUS
<1>1. TypeOK /\ Numbered /\ Delivered /\ Occupied /\ CoverIsOutstanding
  BY DEF CoverInv
<1>2. Numbered' /\ Delivered' /\ Occupied'
  BY <1>1, NumberedNext, DeliveredNext, OccupiedNext
<1>3. Placed' /\ Typed'
  BY <1>1, PlacedNext, TypedNext
<1>4. TypeOK'
  BY <1>2, <1>3, TypeParts, PTL
<1>5. CoverIsOutstanding'
  BY <1>1, CoverNext
<1> QED
  BY <1>2, <1>4, <1>5 DEF CoverInv

(* Every variable keeps its type. *)
THEOREM TypeCorrect == Spec => []TypeOK
<1>1. CoverInv => TypeOK
  BY DEF CoverInv
<1> QED
  BY <1>1, CoverInit, CoverInvNext, PTL DEF Spec

(* CoveredPosition is what the acknowledged hedge orders will still change in the
   position, until one of its unlocked additions overwrites another. *)
THEOREM CoverIsOutstandingInvariant == Spec => []CoverIsOutstanding
<1>1. CoverInv => CoverIsOutstanding
  BY DEF CoverInv
<1> QED
  BY <1>1, CoverInit, CoverInvNext, PTL DEF Spec

=============================================================================
