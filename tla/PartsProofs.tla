---------------------------- MODULE PartsProofs -----------------------------
(***************************************************************************)
(* Theorems about the parts of MCParts.                                    *)
(*                                                                         *)
(* The back-testing exchange, for any prices, K-lines, settings and funds  *)
(* and any number of orders: type correctness, that the account and the    *)
(* position agree on what was gained in base currency and differ by two    *)
(* known amounts in quote currency, that no limit order is left open       *)
(* behind the last price or in the range of a K-line that closes away from *)
(* its open, and that the locked balances are what the orders reserved.    *)
(*                                                                         *)
(* The TWAP executor: an execution keeps its target, for any executions    *)
(* and any number of orders.  The reason is that a new order is made only  *)
(* when no order the execution knows of is open: then all that was         *)
(* committed was traded, and the rest is what is left of the target.  And  *)
(* it counts no trade twice: what it has counted and what the stream still *)
(* has to tell is no more than what was traded.                            *)
(*                                                                         *)
(* One side of a book, for any prices and volumes: it is a red-black tree  *)
(* in which every level is found, and implements a map of prices to        *)
(* volumes.  Lemmas proves what Upsert, Delete and the copies do to any    *)
(* tree.                                                                   *)
(*                                                                         *)
(* dca2, from Dca2Proofs.                                                  *)
(***************************************************************************)
EXTENDS MCParts, SequenceTheorems, Lemmas

-----------------------------------------------------------------------------
(***************************************************************************)
(* Filtered sequences                                                      *)
(***************************************************************************)
(* The elements of a sequence. *)
LEMMA Elements ==
    ASSUME NEW S, NEW s \in Seq(S)
    PROVE  /\ Len(s) \in Nat /\ DOMAIN s = 1 .. Len(s)
           /\ \A k \in DOMAIN s : s[k] \in S
           /\ \A k \in DOMAIN s : s[k] \in ToSet(s)
           /\ ToSet(s) \subseteq S
           /\ s \in Seq(ToSet(s))
  <1>1. Len(s) \in Nat /\ DOMAIN s = 1 .. Len(s) /\ \A k \in DOMAIN s : s[k] \in S
    OBVIOUS
  <1>2. ToSet(s) = {s[k] : k \in DOMAIN s}
    BY DEF ToSet
  <1>3. s \in [1 .. Len(s) -> ToSet(s)]
    BY <1>1, <1>2
  <1> QED
    BY <1>1, <1>2, <1>3

(* A larger set of elements. *)
LEMMA SeqWider ==
    ASSUME NEW S, NEW T, S \subseteq T, NEW s \in Seq(S)
    PROVE  s \in Seq(T)
  OBVIOUS

(* Two sequences one after the other. *)
LEMMA ConcatElements ==
    ASSUME NEW V, NEW s \in Seq(V), NEW t \in Seq(V)
    PROVE  /\ s \o t \in Seq(V)
           /\ ToSet(s \o t) = ToSet(s) \cup ToSet(t)
  <1> DEFINE m == Len(s)
             n == Len(t)
             u == s \o t
  <1>1. /\ u \in Seq(V) /\ m \in Nat /\ n \in Nat
        /\ DOMAIN s = 1 .. m /\ DOMAIN t = 1 .. n /\ DOMAIN u = 1 .. m + n
        /\ \A i \in 1 .. m + n : u[i] = IF i <= m THEN s[i] ELSE t[i - m]
    OBVIOUS
  <1> HIDE DEF m, n, u
  <1>2. {u[i] : i \in DOMAIN u} = {s[i] : i \in DOMAIN s} \cup {t[i] : i \in DOMAIN t}
    <2>1. ASSUME NEW i \in DOMAIN u
          PROVE  u[i] \in {s[j] : j \in DOMAIN s} \cup {t[j] : j \in DOMAIN t}
      <3>1. CASE i <= m
        <4>1. i \in DOMAIN s /\ u[i] = s[i]
          BY <1>1, <3>1
        <4> QED
          BY <4>1
      <3>2. CASE ~(i <= m)
        <4>1. i - m \in DOMAIN t /\ u[i] = t[i - m]
          BY <1>1, <3>2
        <4> QED
          BY <4>1
      <3> QED
        BY <3>1, <3>2
    <2>2. ASSUME NEW i \in DOMAIN s  PROVE s[i] \in {u[j] : j \in DOMAIN u}
      <3>1. i \in DOMAIN u /\ u[i] = s[i]
        BY <1>1
      <3> QED
        BY <3>1
    <2>3. ASSUME NEW i \in DOMAIN t  PROVE t[i] \in {u[j] : j \in DOMAIN u}
      <3>1. i + m \in DOMAIN u /\ u[i + m] = t[i]
        BY <1>1
      <3> QED
        BY <3>1
    <2> QED
      BY <2>1, <2>2, <2>3
  <1> QED
    BY <1>1, <1>2 DEF ToSet, u

(* The first element and the others. *)
LEMMA HeadTail ==
    ASSUME NEW V, NEW s \in Seq(V), s # <<>>
    PROVE  /\ Head(s) \in V /\ Head(s) = s[1] /\ Tail(s) \in Seq(V)
           /\ Head(s) \in ToSet(s)
           /\ Len(s) \in Nat \ {0} /\ DOMAIN s = 1 .. Len(s) /\ DOMAIN Tail(s) = 1 .. Len(s) - 1
           /\ \A i \in 1 .. Len(s) - 1 : Tail(s)[i] = s[i + 1]
           /\ ToSet(s) = ToSet(Tail(s)) \cup {Head(s)}
  <1>1. /\ Head(s) \in V /\ Head(s) = s[1] /\ Tail(s) \in Seq(V)
        /\ Len(s) \in Nat \ {0} /\ DOMAIN s = 1 .. Len(s) /\ DOMAIN Tail(s) = 1 .. Len(s) - 1
        /\ \A i \in 1 .. Len(s) - 1 : Tail(s)[i] = s[i + 1]
    OBVIOUS
  <1> DEFINE t == Tail(s)
             n == Len(s)
  <1> HIDE DEF t, n
  <1>2. {s[i] : i \in DOMAIN s} = {t[i] : i \in DOMAIN t} \cup {s[1]}
    <2>1. ASSUME NEW i \in DOMAIN s
          PROVE  s[i] \in {t[j] : j \in DOMAIN t} \cup {s[1]}
      <3>1. CASE i = 1
        BY <3>1
      <3>2. CASE i # 1
        <4>1. i - 1 \in DOMAIN t /\ t[i - 1] = s[i]
          BY <1>1, <3>2 DEF t, n
        <4> QED
          BY <4>1
      <3> QED
        BY <3>1, <3>2
    <2>2. ASSUME NEW i \in DOMAIN t  PROVE t[i] \in {s[j] : j \in DOMAIN s}
      <3>1. i + 1 \in DOMAIN s /\ s[i + 1] = t[i]
        BY <1>1 DEF t, n
      <3> QED
        BY <3>1
    <2>3. 1 \in DOMAIN s
      BY <1>1
    <2> QED
      BY <2>1, <2>2, <2>3
  <1> QED
    BY <1>1, <1>2 DEF ToSet, t

(* What Filter keeps of the first elements. *)
Kept(s, S) ==
    CHOOSE kept : kept = [i \in 0 .. Len(s) |->
        IF i = 0 THEN <<>> ELSE IF s[i] \in S THEN Append(kept[i - 1], s[i]) ELSE kept[i - 1]]

LEMMA KeptIs ==
    ASSUME NEW V, NEW s \in Seq(V), NEW S
    PROVE  /\ Kept(s, S) \in [0 .. Len(s) -> Seq(V)]
           /\ Kept(s, S)[0] = <<>>
           /\ \A i \in 1 .. Len(s) :
                  Kept(s, S)[i] = IF s[i] \in S THEN Append(Kept(s, S)[i - 1], s[i]) ELSE Kept(s, S)[i - 1]
           /\ Filter(s, S) = Kept(s, S)[Len(s)]
  <1> DEFINE N == Len(s)
             W == Seq(V)
             Step(i, t) == IF s[i] \in S THEN Append(t, s[i]) ELSE t
             D == [i \in 1 .. N |-> [t \in W |-> Step(i, t)]]
             Def(g) == [i \in 0 .. N |-> IF i = 0 THEN <<>> ELSE Step(i, g[i - 1])]
             P == Kept(s, S)
  <1>1. N \in Nat /\ <<>> \in W
    OBVIOUS
  <1>2. \A i \in 1 .. N : s[i] \in V
    OBVIOUS
  <1>3. \A i \in 1 .. N, t \in W : Step(i, t) \in W
    <2> HIDE DEF N
    <2> QED
      BY <1>2
  <1>4. P = CHOOSE h : h = Def(h)
    BY DEF Kept
  <1>5. Filter(s, S) = P[N]
    BY DEF Kept, Filter
  <1> HIDE DEF N, W, Step, P
  <1>6. D \in [1 .. N -> [W -> W]]
    BY <1>3
  <1>7. PICK g : Recursion(g, N, W, <<>>, D)
    <2> HIDE DEF D
    <2> QED
      BY <1>1, <1>6, RecursionExists
  <1>8. \A i \in 1 .. N : g[i] = Step(i, g[i - 1])
    <2> SUFFICES ASSUME NEW i \in 1 .. N
                 PROVE  g[i] = Step(i, g[i - 1])
      OBVIOUS
    <2>1. g[i] = D[i][g[i - 1]] /\ g[i - 1] \in W
      BY <1>1, <1>7 DEF Recursion
    <2> QED
      BY <2>1
  <1>9. g = Def(g)
    BY <1>1, <1>7, <1>8 DEF Recursion
  <1>10. P = Def(P)
    <2> HIDE DEF Def
    <2> QED
      BY <1>4, <1>9
  <1>11. P[0] = <<>> /\ \A i \in 1 .. N : P[i] = Step(i, P[i - 1])
    <2>1. P = [i \in 0 .. N |-> IF i = 0 THEN <<>> ELSE Step(i, P[i - 1])]
      BY <1>10
    <2>2. 0 \in 0 .. N /\ \A i \in 1 .. N : i \in 0 .. N /\ i # 0
      BY <1>1
    <2> QED
      BY <2>1, <2>2
  <1>12. \A i \in 0 .. N : P[i] \in W
    <2>1. \A i \in 1 .. N : P[i - 1] \in W => P[i] \in W
      BY <1>3, <1>11
    <2>2. P[0] \in W
      BY <1>1, <1>11
    <2> HIDE DEF Def, D
    <2> QED
      BY <1>1, <2>1, <2>2, ValuesInduction
  <1>13. P \in [0 .. N -> W]
    <2>1. P = [i \in 0 .. N |-> IF i = 0 THEN <<>> ELSE Step(i, P[i - 1])]
      BY <1>10
    <2>2. P = [i \in 0 .. N |-> P[i]]
      BY <2>1
    <2> HIDE DEF Def, D
    <2> QED
      BY <1>12, <2>2
  <1> QED
    BY <1>5, <1>11, <1>13 DEF N, W, Step, P

(* Appending an element. *)
LEMMA AppendElements ==
    ASSUME NEW V, NEW t \in Seq(V), NEW v \in V
    PROVE  /\ Append(t, v) \in Seq(V) /\ DOMAIN Append(t, v) = 1 .. Len(t) + 1 /\ Len(t) \in Nat
           /\ \A i \in 1 .. Len(t) : Append(t, v)[i] = t[i]
           /\ Append(t, v)[Len(t) + 1] = v
           /\ ToSet(Append(t, v)) = ToSet(t) \cup {v}
  <1>1. /\ Append(t, v) \in Seq(V) /\ DOMAIN Append(t, v) = 1 .. Len(t) + 1 /\ Len(t) \in Nat
        /\ \A i \in 1 .. Len(t) : Append(t, v)[i] = t[i]
        /\ Append(t, v)[Len(t) + 1] = v
    OBVIOUS
  <1>2. DOMAIN t = 1 .. Len(t)
    OBVIOUS
  <1> DEFINE u == Append(t, v)
  <1> HIDE DEF u
  <1>3. {u[i] : i \in DOMAIN u} = {t[i] : i \in DOMAIN t} \cup {v}
    <2>1. ASSUME NEW i \in DOMAIN u  PROVE u[i] \in {t[j] : j \in DOMAIN t} \cup {v}
      BY <1>1, <1>2 DEF u
    <2>2. ASSUME NEW i \in DOMAIN t  PROVE u[i] = t[i] /\ i \in DOMAIN u
      BY <1>1, <1>2 DEF u
    <2>3. u[Len(t) + 1] = v /\ Len(t) + 1 \in DOMAIN u
      BY <1>1 DEF u
    <2> QED
      BY <2>1, <2>2, <2>3
  <1> QED
    BY <1>1, <1>3 DEF ToSet, u

(* Filter keeps the elements that are in S, and no others. *)
LEMMA FilterElements ==
    ASSUME NEW V, NEW s \in Seq(V), NEW S
    PROVE  /\ ToSet(Filter(s, S)) = ToSet(s) \cap S
           /\ Filter(s, S) \in Seq(ToSet(s) \cap S)
  <1> DEFINE N == Len(s)
             K == Kept(s, S)
             Among(i) == {s[j] : j \in 1 .. i}
             Q == {i \in 0 .. N : ToSet(K[i]) = Among(i) \cap S}
  <1>1. N \in Nat /\ DOMAIN s = 1 .. N /\ \A i \in 1 .. N : s[i] \in V
    OBVIOUS
  <1>2. /\ K \in [0 .. N -> Seq(V)] /\ K[0] = <<>> /\ Filter(s, S) = K[N]
        /\ \A i \in 1 .. N : K[i] = IF s[i] \in S THEN Append(K[i - 1], s[i]) ELSE K[i - 1]
    BY KeptIs
  <1> HIDE DEF K, N
  <1>3. 0 \in Q
    BY <1>1, <1>2 DEF ToSet
  <1>4. ASSUME NEW i \in 0 .. N - 1, i \in Q
        PROVE  i + 1 \in Q
    <2>1. i + 1 \in 1 .. N /\ (i + 1) - 1 = i /\ i \in 0 .. N
      BY <1>1
    <2>2. K[i + 1] = IF s[i + 1] \in S THEN Append(K[i], s[i + 1]) ELSE K[i]
      BY <1>2, <2>1
    <2>3. K[i] \in Seq(V) /\ s[i + 1] \in V
      BY <1>1, <1>2, <2>1
    <2>4. ToSet(Append(K[i], s[i + 1])) = ToSet(K[i]) \cup {s[i + 1]}
      BY <2>3, AppendElements
    <2>5. Among(i + 1) = Among(i) \cup {s[i + 1]}
      <3>1. 1 .. i + 1 = (1 .. i) \cup {i + 1}
        BY <2>1
      <3> QED
        BY <3>1
    <2>6. ToSet(K[i]) = Among(i) \cap S
      BY <1>4
    <2> HIDE DEF Among
    <2>7. ToSet(K[i + 1]) = Among(i + 1) \cap S
      <3>1. CASE s[i + 1] \in S
        BY <2>2, <2>4, <2>5, <2>6, <3>1
      <3>2. CASE s[i + 1] \notin S
        BY <2>2, <2>5, <2>6, <3>2
      <3> QED
        BY <3>1, <3>2
    <2> QED
      BY <2>1, <2>7
  <1>5. 0 .. N \subseteq Q
    <2> HIDE DEF Q
    <2> QED
      BY <1>1, <1>3, <1>4, IntervalInduction
  <1>6. ToSet(K[N]) = Among(N) \cap S
    BY <1>1, <1>5
  <1>7. Among(N) = ToSet(s)
    BY <1>1 DEF ToSet
  <1>8. K[N] \in Seq(V)
    BY <1>1, <1>2
  <1>9. K[N] \in Seq(ToSet(K[N]))
    BY <1>8, Elements
  <1> HIDE DEF Among, Q
  <1>10. ToSet(K[N]) = ToSet(s) \cap S
    BY <1>6, <1>7
  <1> QED
    BY <1>2, <1>9, <1>10

(* No two elements are of one order. *)
DistinctIDs(s) == \A i, j \in DOMAIN s : s[i].id = s[j].id => i = j

LEMMA FilterDistinct ==
    ASSUME NEW V, NEW s \in Seq(V), NEW S, DistinctIDs(s)
    PROVE  DistinctIDs(Filter(s, S))
  <1> DEFINE N == Len(s)
             K == Kept(s, S)
             From(i) == \A k \in DOMAIN K[i] : \E j \in 1 .. i : K[i][k] = s[j]
             Q == {i \in 0 .. N : DistinctIDs(K[i]) /\ From(i)}
  <1>1. N \in Nat /\ DOMAIN s = 1 .. N /\ \A i \in 1 .. N : s[i] \in V
    OBVIOUS
  <1>2. /\ K \in [0 .. N -> Seq(V)] /\ K[0] = <<>> /\ Filter(s, S) = K[N]
        /\ \A i \in 1 .. N : K[i] = IF s[i] \in S THEN Append(K[i - 1], s[i]) ELSE K[i - 1]
    BY KeptIs
  <1> HIDE DEF K, N
  <1>3. 0 \in Q
    BY <1>1, <1>2 DEF DistinctIDs
  <1>4. ASSUME NEW i \in 0 .. N - 1, i \in Q
        PROVE  i + 1 \in Q
    <2>1. i + 1 \in 1 .. N /\ (i + 1) - 1 = i /\ i \in 0 .. N
      BY <1>1
    <2>2. K[i + 1] = IF s[i + 1] \in S THEN Append(K[i], s[i + 1]) ELSE K[i]
      BY <1>2, <2>1
    <2>3. K[i] \in Seq(V) /\ s[i + 1] \in V
      BY <1>1, <1>2, <2>1
    <2>4. DistinctIDs(K[i]) /\ From(i)
      BY <1>4
    <2>5. CASE s[i + 1] \notin S
      <3>1. K[i + 1] = K[i]
        BY <2>2, <2>5
      <3>2. 1 .. i \subseteq 1 .. i + 1
        BY <2>1
      <3> QED
        BY <2>1, <2>4, <3>1, <3>2
    <2>6. CASE s[i + 1] \in S
      <3> DEFINE n == Len(K[i]) + 1
      <3>1. /\ DOMAIN K[i + 1] = 1 .. n /\ n \in Nat \ {0} /\ DOMAIN K[i] = 1 .. n - 1
            /\ \A k \in 1 .. n - 1 : K[i + 1][k] = K[i][k]
            /\ K[i + 1][n] = s[i + 1]
        <4>1. K[i + 1] = Append(K[i], s[i + 1])
          BY <2>2, <2>6
        <4>2. DOMAIN K[i] = 1 .. Len(K[i])
          BY <2>3
        <4> QED
          BY <2>3, <4>1, <4>2, AppendElements
      <3> HIDE DEF n
      <3>2. From(i + 1)
        <4>1. ASSUME NEW k \in 1 .. n
              PROVE  \E j \in 1 .. i + 1 : K[i + 1][k] = s[j]
          <5>1. CASE k = n
            BY <2>1, <3>1, <5>1
          <5>2. CASE k # n
            <6>1. k \in DOMAIN K[i] /\ K[i + 1][k] = K[i][k]
              BY <3>1, <5>2
            <6>2. PICK j \in 1 .. i : K[i][k] = s[j]
              BY <2>4, <6>1
            <6>3. j \in 1 .. i + 1
              BY <2>1
            <6> QED
              BY <6>1, <6>2, <6>3
          <5> QED
            BY <5>1, <5>2
        <4> QED
          BY <3>1, <4>1
      <3>3. ASSUME NEW k \in 1 .. n - 1
            PROVE  K[i + 1][k].id # K[i + 1][n].id
        <4>1. PICK j \in 1 .. i : K[i][k] = s[j]
          BY <2>4, <3>1
        <4>2. j \in DOMAIN s /\ i + 1 \in DOMAIN s /\ j # i + 1
          BY <1>1, <2>1
        <4>3. s[j].id # s[i + 1].id
          BY <4>2 DEF DistinctIDs
        <4> QED
          BY <3>1, <4>1, <4>3
      <3>4. DistinctIDs(K[i + 1])
        <4>1. ASSUME NEW k \in 1 .. n, NEW l \in 1 .. n, K[i + 1][k].id = K[i + 1][l].id
              PROVE  k = l
          <5>1. CASE k = n \/ l = n
            BY <3>1, <3>3, <4>1, <5>1
          <5>2. CASE k # n /\ l # n
            <6>1. k \in 1 .. n - 1 /\ l \in 1 .. n - 1
              BY <3>1, <5>2
            <6>2. K[i][k].id = K[i][l].id
              BY <3>1, <4>1, <6>1
            <6> QED
              BY <2>4, <3>1, <6>1, <6>2 DEF DistinctIDs
          <5> QED
            BY <5>1, <5>2
        <4> QED
          BY <3>1, <4>1 DEF DistinctIDs
      <3> HIDE DEF From
      <3> QED
        BY <2>1, <3>2, <3>4
    <2> QED
      BY <2>5, <2>6
  <1>5. 0 .. N \subseteq Q
    <2> HIDE DEF Q
    <2> QED
      BY <1>1, <1>3, <1>4, IntervalInduction
  <1> HIDE DEF From
  <1>6. DistinctIDs(K[N])
    BY <1>1, <1>5
  <1> QED
    BY <1>2, <1>6

-----------------------------------------------------------------------------
(***************************************************************************)
(* Types                                                                   *)
(***************************************************************************)
Moves == [up : BOOLEAN, to : Prices]

(* An order that waits in the book of its side has the prices of its type; *)
Waiting(side) ==
    {o \in Order : /\ o.side = side /\ ~o.filled
                   /\ o.type # "MARKET"
                   /\ o.type # "STOP_MARKET" => o.price \in Prices
                   /\ IsStop(o.type) => o.stop \in Prices}

(* one that is closed is filled and no longer a stop order. *)
Done == {o \in Order : o.filled /\ ~IsStop(o.type) /\ o.price \in Prices}

Types ==
    /\ setting \in Settings
    /\ bidOrders \in Seq(Waiting("BUY"))
    /\ askOrders \in Seq(Waiting("SELL"))
    /\ closed \in Seq(Done)
    /\ lastPrice \in Prices \cup {0}
    /\ kline \in KLines \cup {None} /\ nextKLine \in {kline, None}
    /\ path \in Seq(Moves)
    /\ account \in [{"BASE", "QUOTE"} -> Balance]
    /\ calling \in BOOLEAN /\ busy \in BOOLEAN /\ panicked \in BOOLEAN /\ drift \in Int
    /\ placed \in 0 .. setting.orders /\ count \in 0 .. MaxKLines /\ before \in 0 .. placed

(* Prices and quantities are numbers, and what an order's fields are. *)
LEMMA OrderFields ==
    ASSUME setting \in Settings
    PROVE  /\ Prices \subseteq Nat \ {0}
           /\ setting.quantities \subseteq Nat \ {0} /\ setting.orders \in Nat
           /\ setting.types \subseteq OrderType /\ setting.feeMode \in {"QUOTE", "NATIVE", "TOKEN"}
           /\ \A o \in Order : /\ o.id \in Nat \ {0} /\ o.type \in OrderType /\ o.side \in {"BUY", "SELL"}
                               /\ o.quantity \in Nat \ {0} /\ o.price \in Nat /\ o.stop \in Nat
                               /\ o.avg \in Nat /\ o.avg \in Prices \cup {0}
                               /\ o.filled \in BOOLEAN /\ o.priced \in BOOLEAN
  <1>1. setting \in Setting /\ Prices \subseteq Nat \ {0}
    BY MatchingAssumption
  <1>2. /\ setting.quantities \subseteq Nat \ {0} /\ setting.orders \in Nat
        /\ setting.types \subseteq OrderType /\ setting.feeMode \in {"QUOTE", "NATIVE", "TOKEN"}
    BY <1>1 DEF Setting
  <1>3. \A o \in Order : o.filled \in BOOLEAN /\ o.priced \in BOOLEAN
    BY Zenon DEF Order
  <1>4. \A o \in Order : /\ o.id \in 1 .. setting.orders /\ o.type \in OrderType
                        /\ o.side \in {"BUY", "SELL"} /\ o.quantity \in setting.quantities
                        /\ o.price \in Prices \cup {0} /\ o.stop \in Prices \cup {0}
                        /\ o.avg \in Prices \cup {0}
    BY Zenon DEF Order
  <1>5. \A o \in Order : o.id \in Nat \ {0} /\ o.quantity \in Nat \ {0}
    BY <1>2, <1>4
  <1>6. \A o \in Order : o.price \in Nat /\ o.stop \in Nat /\ o.avg \in Nat
    <2>1. Prices \cup {0} \subseteq Nat
      BY <1>1
    <2> QED
      BY <1>4, <2>1, Zenon
  <1> QED
    BY <1>1, <1>2, <1>3, <1>4, <1>5, <1>6, Zenon

(* Setting fields of an order. *)
LEMMA OrderWith ==
    ASSUME NEW o \in Order
    PROVE  /\ \A t \in OrderType : /\ [o EXCEPT !.type = t] \in Order /\ [o EXCEPT !.type = t].type = t
                                   /\ [o EXCEPT !.type = t].filled = o.filled
                                   /\ [o EXCEPT !.type = t].price = o.price
                                   /\ [o EXCEPT !.type = t].avg = o.avg
                                   /\ [o EXCEPT !.type = t].stop = o.stop
                                   /\ [o EXCEPT !.type = t].priced = o.priced
                                   /\ [o EXCEPT !.type = t].id = o.id
                                   /\ [o EXCEPT !.type = t].side = o.side
                                   /\ [o EXCEPT !.type = t].quantity = o.quantity
           /\ \A p \in Prices : /\ [o EXCEPT !.price = p] \in Order /\ [o EXCEPT !.price = p].price = p
                                /\ [o EXCEPT !.price = p].type = o.type
                                /\ [o EXCEPT !.price = p].filled = o.filled
                                /\ [o EXCEPT !.price = p].avg = o.avg
                                /\ [o EXCEPT !.price = p].id = o.id
                                /\ [o EXCEPT !.price = p].side = o.side
                                /\ [o EXCEPT !.price = p].quantity = o.quantity
           /\ \A p \in Prices : /\ [o EXCEPT !.avg = p] \in Order /\ [o EXCEPT !.avg = p].avg = p
                                /\ [o EXCEPT !.avg = p].type = o.type
                                /\ [o EXCEPT !.avg = p].price = o.price
                                /\ [o EXCEPT !.avg = p].filled = o.filled
                                /\ [o EXCEPT !.avg = p].id = o.id
                                /\ [o EXCEPT !.avg = p].side = o.side
                                /\ [o EXCEPT !.avg = p].quantity = o.quantity
           /\ \A f \in BOOLEAN : /\ [o EXCEPT !.filled = f] \in Order /\ [o EXCEPT !.filled = f].filled = f
                                 /\ [o EXCEPT !.filled = f].type = o.type
                                 /\ [o EXCEPT !.filled = f].price = o.price
                                 /\ [o EXCEPT !.filled = f].avg = o.avg
                                 /\ [o EXCEPT !.filled = f].stop = o.stop
                                 /\ [o EXCEPT !.filled = f].priced = o.priced
                                 /\ [o EXCEPT !.filled = f].id = o.id
                                 /\ [o EXCEPT !.filled = f].side = o.side
                                 /\ [o EXCEPT !.filled = f].quantity = o.quantity
  <1>1. \A t \in OrderType : [o EXCEPT !.type = t] \in Order
    BY DEF Order
  <1>2. \A p \in Prices : [o EXCEPT !.price = p] \in Order /\ [o EXCEPT !.avg = p] \in Order
    BY DEF Order
  <1>3. \A f \in BOOLEAN : [o EXCEPT !.filled = f] \in Order
    BY DEF Order
  <1>4. \A t \in OrderType : /\ [o EXCEPT !.type = t].type = t
                             /\ [o EXCEPT !.type = t].filled = o.filled
                             /\ [o EXCEPT !.type = t].price = o.price
                             /\ [o EXCEPT !.type = t].avg = o.avg
                             /\ [o EXCEPT !.type = t].stop = o.stop
                             /\ [o EXCEPT !.type = t].priced = o.priced
                             /\ [o EXCEPT !.type = t].id = o.id
                             /\ [o EXCEPT !.type = t].side = o.side
                             /\ [o EXCEPT !.type = t].quantity = o.quantity
    BY DEF Order
  <1>5. \A p : /\ [o EXCEPT !.price = p].price = p
              /\ [o EXCEPT !.price = p].type = o.type
              /\ [o EXCEPT !.price = p].filled = o.filled
              /\ [o EXCEPT !.price = p].avg = o.avg
              /\ [o EXCEPT !.price = p].id = o.id
              /\ [o EXCEPT !.price = p].side = o.side
              /\ [o EXCEPT !.price = p].quantity = o.quantity
    BY DEF Order
  <1>6. \A p : /\ [o EXCEPT !.avg = p].avg = p
              /\ [o EXCEPT !.avg = p].type = o.type
              /\ [o EXCEPT !.avg = p].price = o.price
              /\ [o EXCEPT !.avg = p].filled = o.filled
              /\ [o EXCEPT !.avg = p].id = o.id
              /\ [o EXCEPT !.avg = p].side = o.side
              /\ [o EXCEPT !.avg = p].quantity = o.quantity
    BY DEF Order
  <1>7. \A f : /\ [o EXCEPT !.filled = f].filled = f
              /\ [o EXCEPT !.filled = f].type = o.type
              /\ [o EXCEPT !.filled = f].price = o.price
              /\ [o EXCEPT !.filled = f].avg = o.avg
              /\ [o EXCEPT !.filled = f].stop = o.stop
              /\ [o EXCEPT !.filled = f].priced = o.priced
              /\ [o EXCEPT !.filled = f].id = o.id
              /\ [o EXCEPT !.filled = f].side = o.side
              /\ [o EXCEPT !.filled = f].quantity = o.quantity
    BY DEF Order
  <1> QED
    BY <1>1, <1>2, <1>3, <1>4, <1>5, <1>6, <1>7

(* A move leaves an order what it is, or fills it. *)
LEMMA MovedFields ==
    ASSUME setting \in Settings, NEW side \in {"BUY", "SELL"}, NEW o \in Waiting(side), NEW move \in Moves
    PROVE  /\ Moved(o, move) \in Order
           /\ Moved(o, move).id = o.id /\ Moved(o, move).side = o.side
           /\ Moved(o, move).quantity = o.quantity
           /\ Moved(o, move).filled => Moved(o, move) \in Done
           /\ ~Moved(o, move).filled => Moved(o, move) \in Waiting(side)
  <1>1. /\ o \in Order /\ o.side = side /\ ~o.filled /\ o.type \in OrderType \ {"MARKET"}
        /\ o.type # "STOP_MARKET" => o.price \in Prices
        /\ IsStop(o.type) => o.stop \in Prices
    BY OrderFields DEF Waiting
  <1>2. move.to \in Prices /\ move.up \in BOOLEAN
    BY DEF Moves
  <1> DEFINE m == Moved(o, move)
  <1>3. CASE IsStop(o.type) /\ ~Triggered(o, move)
    <2>1. m = o
      BY <1>3 DEF Moved
    <2> QED
      BY <1>1, <2>1
  <1>4. CASE o.type = "STOP_MARKET" /\ Triggered(o, move)
    <2>1. m = [o EXCEPT !.type = "MARKET", !.price = move.to, !.filled = TRUE]
      BY <1>4 DEF Moved, IsStop
    <2> DEFINE m1 == [o EXCEPT !.type = "MARKET"]
               m2 == [m1 EXCEPT !.price = move.to]
    <2>3. m = [m2 EXCEPT !.filled = TRUE]
      BY <2>1
    <2>4. m1 \in Order /\ m1.type = "MARKET" /\ m1.id = o.id /\ m1.side = o.side /\ m1.quantity = o.quantity
      BY <1>1, OrderWith DEF OrderType
    <2>5. /\ m2 \in Order /\ m2.type = "MARKET" /\ m2.price \in Prices
          /\ m2.id = o.id /\ m2.side = o.side /\ m2.quantity = o.quantity
      <3> HIDE DEF m1
      <3> QED
        BY <1>2, <2>4, OrderWith
    <2>2. /\ m \in Order /\ m.filled /\ m.type = "MARKET" /\ m.price \in Prices
          /\ m.id = o.id /\ m.side = o.side /\ m.quantity = o.quantity
      <3> HIDE DEF m2, m
      <3> QED
        BY <2>3, <2>5, OrderWith, Zenon
    <2> QED
      BY <2>2 DEF Done, IsStop
  <1>5. CASE o.type = "STOP_LIMIT" /\ Triggered(o, move)
    <2>1. m = IF TakerAt(o, move.to)
              THEN [o EXCEPT !.type = "LIMIT", !.avg = move.to, !.filled = TRUE]
              ELSE [o EXCEPT !.type = "LIMIT"]
      BY <1>5 DEF Moved, IsStop
    <2>2. CASE TakerAt(o, move.to)
      <3>1. m = [o EXCEPT !.type = "LIMIT", !.avg = move.to, !.filled = TRUE]
        BY <2>1, <2>2
      <3> DEFINE m1 == [o EXCEPT !.type = "LIMIT"]
                 m2 == [m1 EXCEPT !.avg = move.to]
      <3>3. m = [m2 EXCEPT !.filled = TRUE]
        BY <3>1
      <3>4. /\ m1 \in Order /\ m1.type = "LIMIT" /\ m1.price = o.price
            /\ m1.id = o.id /\ m1.side = o.side /\ m1.quantity = o.quantity
        BY <1>1, OrderWith DEF OrderType
      <3>5. /\ m2 \in Order /\ m2.type = "LIMIT" /\ m2.price = o.price
            /\ m2.id = o.id /\ m2.side = o.side /\ m2.quantity = o.quantity
        <4> HIDE DEF m1
        <4> QED
          BY <1>2, <3>4, OrderWith
      <3>2. /\ m \in Order /\ m.filled /\ m.type = "LIMIT" /\ m.price = o.price
            /\ m.id = o.id /\ m.side = o.side /\ m.quantity = o.quantity
        <4> HIDE DEF m2, m
        <4> QED
          BY <3>3, <3>5, OrderWith, Zenon
      <3> QED
        BY <1>1, <1>5, <3>2 DEF Done, IsStop
    <2>3. CASE ~TakerAt(o, move.to)
      <3>1. m = [o EXCEPT !.type = "LIMIT"]
        BY <2>1, <2>3
      <3>2. /\ m \in Order /\ m.filled = o.filled /\ m.type = "LIMIT" /\ m.price = o.price
            /\ m.id = o.id /\ m.side = o.side /\ m.quantity = o.quantity
        <4>1. "LIMIT" \in OrderType
          BY DEF OrderType
        <4> DEFINE t == "LIMIT"
        <4> HIDE DEF m, t
        <4>2. m = [o EXCEPT !.type = t] /\ t \in OrderType
          BY <3>1, <4>1 DEF t
        <4>3. /\ m \in Order /\ m.type = t /\ m.price = o.price
              /\ m.id = o.id /\ m.side = o.side /\ m.quantity = o.quantity
          BY <1>1, <4>2, OrderWith
        <4>4. m.filled = o.filled
          BY <1>1, <4>2 DEF Order
        <4> QED
          BY <4>3, <4>4, Zenon DEF t
      <3>3. ~m.filled
        BY <1>1, <3>2
      <3> QED
        BY <1>1, <1>5, <3>2, <3>3 DEF Waiting, IsStop
    <2> QED
      BY <2>2, <2>3
  <1>6. CASE ~IsStop(o.type)
    <2>1. m = [o EXCEPT !.filled = Reaches(o, move)]
      BY <1>6 DEF Moved, IsStop
    <2>2. Reaches(o, move) \in BOOLEAN
      BY <1>2 DEF Reaches
    <2>3. /\ m \in Order /\ m.filled = Reaches(o, move) /\ m.type = o.type /\ m.price = o.price
          /\ m.id = o.id /\ m.side = o.side /\ m.quantity = o.quantity
      <3> DEFINE f == Reaches(o, move)
      <3> HIDE DEF m, f
      <3>1. m = [o EXCEPT !.filled = f] /\ f \in BOOLEAN
        BY <2>1, <2>2, Zenon DEF f
      <3>2. /\ m \in Order /\ m.type = o.type /\ m.price = o.price
            /\ m.id = o.id /\ m.side = o.side /\ m.quantity = o.quantity
        BY <1>1, <3>1, OrderWith
      <3>3. m.filled = f
        BY <1>1, <3>1 DEF Order
      <3> QED
        BY <3>2, <3>3, Zenon DEF f
    <2> QED
      BY <1>1, <1>6, <2>3 DEF Waiting, Done, IsStop
  <1> QED
    BY <1>1, <1>3, <1>4, <1>5, <1>6 DEF IsStop, OrderType

(* The orders of a book after a move. *)
After(queue, move) == [i \in DOMAIN queue |-> Moved(queue[i], move)]

LEMMA AfterElements ==
    ASSUME setting \in Settings, NEW side \in {"BUY", "SELL"}, NEW queue \in Seq(Waiting(side)),
           NEW move \in Moves
    PROVE  /\ After(queue, move) \in Seq(Order)
           /\ Len(After(queue, move)) = Len(queue)
           /\ DOMAIN After(queue, move) = DOMAIN queue
           /\ ToSet(After(queue, move)) = {Moved(o, move) : o \in ToSet(queue)}
           /\ \A m \in ToSet(After(queue, move)) :
                  /\ m \in Order /\ m.side = side
                  /\ m.filled => m \in Done
                  /\ ~m.filled => m \in Waiting(side)
  <1> DEFINE A == After(queue, move)
  <1>1. Len(queue) \in Nat /\ DOMAIN queue = 1 .. Len(queue) /\ \A k \in DOMAIN queue : queue[k] \in Waiting(side)
    BY Elements
  <1>2. \A k \in DOMAIN queue : A[k] = Moved(queue[k], move)
    BY DEF After
  <1>3. \A k \in DOMAIN queue : A[k] \in Order
    BY <1>1, <1>2, MovedFields
  <1>4. DOMAIN A = DOMAIN queue /\ A \in Seq(Order) /\ Len(A) = Len(queue)
    <2>1. A = [k \in 1 .. Len(queue) |-> A[k]] /\ DOMAIN A = DOMAIN queue
      BY <1>1 DEF After
    <2> HIDE DEF A
    <2>2. A \in [1 .. Len(queue) -> Order]
      BY <1>1, <1>3, <2>1
    <2> QED
      BY <1>1, <2>1, <2>2
  <1>5. ToSet(A) = {Moved(o, move) : o \in ToSet(queue)}
    <2> HIDE DEF A
    <2>1. ToSet(A) = {A[k] : k \in DOMAIN queue}
      BY <1>4 DEF ToSet
    <2>2. ToSet(queue) = {queue[k] : k \in DOMAIN queue}
      BY DEF ToSet
    <2> QED
      BY <1>2, <2>1, <2>2
  <1>6. \A m \in ToSet(A) : /\ m \in Order /\ m.side = side
                            /\ m.filled => m \in Done
                            /\ ~m.filled => m \in Waiting(side)
    <2> SUFFICES ASSUME NEW o \in ToSet(queue)
                 PROVE  LET m == Moved(o, move)
                        IN  /\ m \in Order /\ m.side = side
                            /\ m.filled => m \in Done
                            /\ ~m.filled => m \in Waiting(side)
      BY <1>5
    <2>1. o \in Waiting(side)
      BY Elements
    <2>2. o.side = side
      BY <2>1 DEF Waiting
    <2> QED
      BY <2>1, <2>2, MovedFields
  <1> QED
    BY <1>4, <1>5, <1>6

(* What a move leaves open and what it closes. *)
LEMMA MoveParts ==
    ASSUME Types, NEW move \in Moves, MoveTo(move)
    PROVE  LET bids == {Moved(o, move) : o \in ToSet(bidOrders)}
               asks == {Moved(o, move) : o \in ToSet(askOrders)}
           IN  /\ bidOrders' \in Seq(Waiting("BUY"))
               /\ askOrders' \in Seq(Waiting("SELL"))
               /\ closed' \in Seq(Done)
               /\ ToSet(bidOrders') = {m \in bids : ~m.filled}
               /\ ToSet(askOrders') = {m \in asks : ~m.filled}
               /\ ToSet(closed') = {m \in bids \cup asks : m.filled}
               /\ lastPrice' = move.to
  <1> DEFINE B == After(bidOrders, move)
             A == After(askOrders, move)
             All == IF move.up THEN B \o A ELSE A \o B
             Left == {o \in ToSet(All) : ~o.filled}
             Filled == {o \in ToSet(All) : o.filled}
  <1>1. setting \in Settings /\ bidOrders \in Seq(Waiting("BUY")) /\ askOrders \in Seq(Waiting("SELL"))
    BY DEF Types
  <1>2. /\ bidOrders' = Filter(B, Left) /\ askOrders' = Filter(A, Left)
        /\ closed' = Filter(All, Filled) /\ lastPrice' = move.to
    BY DEF MoveTo, After, StaysOpen, IsFilled
  <1>3. /\ B \in Seq(Order) /\ ToSet(B) = {Moved(o, move) : o \in ToSet(bidOrders)}
        /\ \A m \in ToSet(B) : (m.filled => m \in Done) /\ (~m.filled => m \in Waiting("BUY"))
    BY <1>1, AfterElements
  <1>4. /\ A \in Seq(Order) /\ ToSet(A) = {Moved(o, move) : o \in ToSet(askOrders)}
        /\ \A m \in ToSet(A) : (m.filled => m \in Done) /\ (~m.filled => m \in Waiting("SELL"))
    BY <1>1, AfterElements
  <1> HIDE DEF B, A
  <1>5. All \in Seq(Order) /\ ToSet(All) = ToSet(B) \cup ToSet(A)
    <2>1. /\ B \o A \in Seq(Order) /\ ToSet(B \o A) = ToSet(B) \cup ToSet(A)
          /\ A \o B \in Seq(Order) /\ ToSet(A \o B) = ToSet(B) \cup ToSet(A)
      BY <1>3, <1>4, ConcatElements
    <2> QED
      BY <2>1
  <1> HIDE DEF All
  <1>6. /\ bidOrders' \in Seq(ToSet(B) \cap Left) /\ ToSet(bidOrders') = ToSet(B) \cap Left
        /\ askOrders' \in Seq(ToSet(A) \cap Left) /\ ToSet(askOrders') = ToSet(A) \cap Left
        /\ closed' \in Seq(ToSet(All) \cap Filled) /\ ToSet(closed') = ToSet(All) \cap Filled
    <2> HIDE DEF Left, Filled
    <2> QED
      BY <1>2, <1>3, <1>4, <1>5, FilterElements
  <1>7. /\ ToSet(B) \cap Left = {m \in ToSet(B) : ~m.filled}
        /\ ToSet(A) \cap Left = {m \in ToSet(A) : ~m.filled}
        /\ ToSet(All) \cap Filled = {m \in ToSet(B) \cup ToSet(A) : m.filled}
    BY <1>5
  <1>8. /\ ToSet(B) \cap Left \subseteq Waiting("BUY")
        /\ ToSet(A) \cap Left \subseteq Waiting("SELL")
        /\ ToSet(All) \cap Filled \subseteq Done
    BY <1>3, <1>4, <1>7
  <1>9. bidOrders' \in Seq(Waiting("BUY")) /\ askOrders' \in Seq(Waiting("SELL")) /\ closed' \in Seq(Done)
    <2> HIDE DEF Left, Filled
    <2> QED
      BY <1>6, <1>8, SeqWider
  <1> QED
    BY <1>2, <1>3, <1>4, <1>6, <1>7, <1>9

-----------------------------------------------------------------------------
(***************************************************************************)
(* The account                                                             *)
(***************************************************************************)
Accounts == [{"BASE", "QUOTE"} -> Balance]

LEMMA Balances ==
    ASSUME NEW a \in Accounts
    PROVE  /\ a.BASE \in Balance /\ a.QUOTE \in Balance
           /\ a.BASE.available \in Int /\ a.BASE.locked \in Nat
           /\ a.QUOTE.available \in Int /\ a.QUOTE.locked \in Nat
           /\ DOMAIN a = {"BASE", "QUOTE"}
  BY DEF Accounts, Balance

(* A trade's numbers. *)
LEMMA TradeFields ==
    ASSUME setting \in Settings, NEW o \in Order, NEW price \in Nat
    PROVE  LET t == NewTradeFromOrder(o, price)
           IN  /\ t.side = o.side /\ t.quantity = o.quantity /\ t.quantity \in Nat
               /\ t.quoteQuantity = o.quantity * price /\ t.quoteQuantity \in Nat
               /\ t.fee \in Nat /\ t.feeCurrency \in {"BASE", "QUOTE", "FEE"}
               /\ t.feeCurrency = "BASE" => t.side = "BUY" /\ setting.feeMode = "NATIVE"
               /\ t.feeCurrency = "QUOTE" => /\ setting.feeMode # "TOKEN"
                                             /\ t.side = "BUY" => setting.feeMode = "QUOTE"
               /\ FeeIn(t, "BASE") \in Nat /\ FeeIn(t, "QUOTE") \in Nat
  <1> DEFINE t == NewTradeFromOrder(o, price)
  <1>1. o.quantity \in Nat /\ o.price \in Nat /\ o.side \in {"BUY", "SELL"}
    BY OrderFields
  <1>2. /\ t.side = o.side /\ t.quantity = o.quantity /\ t.quoteQuantity = o.quantity * price
        /\ t.fee = Fee(o).amount /\ t.feeCurrency = Fee(o).currency
    BY DEF NewTradeFromOrder
  <1>3. o.quantity * price \in Nat /\ o.quantity * o.price \in Nat
    BY <1>1
  <1>4. o.quantity \div 2 \in Nat /\ (o.quantity * o.price) \div 2 \in Nat
    <2>1. \A n \in Nat : n \div 2 \in Nat
      OBVIOUS
    <2> QED
      BY <1>1, <1>3, <2>1
  <1>5. Fee(o).amount \in Nat /\ Fee(o).currency \in {"BASE", "QUOTE", "FEE"}
    BY <1>4 DEF Fee
  <1>6. /\ Fee(o).currency = "BASE" => o.side = "BUY" /\ setting.feeMode = "NATIVE"
        /\ Fee(o).currency = "QUOTE" => /\ setting.feeMode # "TOKEN"
                                        /\ o.side = "BUY" => setting.feeMode # "NATIVE"
    BY DEF Fee
  <1>7. setting.feeMode \in {"QUOTE", "NATIVE", "TOKEN"}
    BY OrderFields
  <1>8. FeeIn(t, "BASE") \in Nat /\ FeeIn(t, "QUOTE") \in Nat
    BY <1>2, <1>5 DEF FeeIn
  <1> QED
    BY <1>1, <1>2, <1>3, <1>5, <1>6, <1>7, <1>8

(* What executing a trade changes in an account that has enough locked. *)
LEMMA ExecuteAccount ==
    ASSUME setting \in Settings, NEW a \in Accounts, NEW o \in Order, NEW price \in Nat,
           Executable(a, NewTradeFromOrder(o, price))
    PROVE  LET t == NewTradeFromOrder(o, price)
               b == ExecuteTrade(a, t)
           IN  /\ b \in Accounts
               /\ o.side = "BUY" =>
                      /\ b.QUOTE.locked = a.QUOTE.locked - o.quantity * price
                      /\ b.QUOTE.available = a.QUOTE.available - FeeIn(t, "QUOTE")
                      /\ b.BASE.locked = a.BASE.locked
                      /\ b.BASE.available = a.BASE.available + o.quantity - FeeIn(t, "BASE")
               /\ o.side = "SELL" =>
                      /\ b.QUOTE.locked = a.QUOTE.locked
                      /\ b.QUOTE.available = a.QUOTE.available + o.quantity * price - FeeIn(t, "QUOTE")
                      /\ b.BASE.locked = a.BASE.locked - o.quantity
                      /\ b.BASE.available = a.BASE.available - FeeIn(t, "BASE")
  <1> DEFINE t == NewTradeFromOrder(o, price)
             b == ExecuteTrade(a, t)
             fb == FeeIn(t, "BASE")
             fq == FeeIn(t, "QUOTE")
             qq == o.quantity * price
  <1>1. /\ t.side = o.side /\ t.quantity = o.quantity /\ t.quantity \in Nat
        /\ t.quoteQuantity = qq /\ qq \in Nat /\ fb \in Nat /\ fq \in Nat
        /\ o.side \in {"BUY", "SELL"}
    <2> HIDE DEF t
    <2>1. /\ t.side = o.side /\ t.quantity = o.quantity /\ t.quantity \in Nat
          /\ t.quoteQuantity = o.quantity * price /\ t.quoteQuantity \in Nat
          /\ FeeIn(t, "BASE") \in Nat /\ FeeIn(t, "QUOTE") \in Nat
      BY TradeFields DEF t
    <2>2. o.side \in {"BUY", "SELL"}
      BY OrderFields
    <2> QED
      BY <2>1, <2>2
  <1>2. /\ a.BASE \in Balance /\ a.QUOTE \in Balance
        /\ a.BASE.available \in Int /\ a.BASE.locked \in Nat
        /\ a.QUOTE.available \in Int /\ a.QUOTE.locked \in Nat
    BY Balances
  <1>3. ASSUME NEW x \in Balance, NEW y \in Balance
        PROVE  /\ [QUOTE |-> x, BASE |-> y] \in Accounts /\ [BASE |-> y, QUOTE |-> x] \in Accounts
    BY DEF Accounts
  <1>4. ASSUME NEW x \in Balance, NEW f \in Int
        PROVE  /\ AddBalance(x, f) \in Balance
               /\ AddBalance(x, f).available = x.available + f /\ AddBalance(x, f).locked = x.locked
    BY DEF AddBalance, Balance
  <1>5. ASSUME NEW x \in Balance, NEW f \in Nat, x.locked >= f
        PROVE  /\ UseLockedBalance(x, f) \in Balance
               /\ UseLockedBalance(x, f).available = x.available
               /\ UseLockedBalance(x, f).locked = x.locked - f
    <2>1. x.locked - f \in Nat /\ x.available \in Int
      BY <1>5 DEF Balance
    <2> QED
      BY <2>1 DEF UseLockedBalance, Balance
  <1> HIDE DEF t, fb, fq, qq
  <1>6. CASE o.side = "BUY"
    <2> DEFINE u == UseLockedBalance(a.QUOTE, qq)
    <2>1. b = [QUOTE |-> AddBalance(u, -fq), BASE |-> AddBalance(a.BASE, o.quantity - fb)]
      BY <1>1, <1>6 DEF ExecuteTrade, fb, fq
    <2>2. a.QUOTE.locked >= qq
      BY <1>1, <1>6 DEF Executable, CanUse, t
    <2>3. u \in Balance /\ u.available = a.QUOTE.available /\ u.locked = a.QUOTE.locked - qq
      BY <1>1, <1>2, <1>5, <2>2
    <2> HIDE DEF u, b
    <2>4. /\ AddBalance(u, -fq) \in Balance
          /\ AddBalance(u, -fq).available = a.QUOTE.available - fq
          /\ AddBalance(u, -fq).locked = a.QUOTE.locked - qq
      <3>1. -fq \in Int
        BY <1>1
      <3>2. AddBalance(u, -fq).available = a.QUOTE.available + (-fq)
        BY <1>4, <2>3, <3>1
      <3> QED
        BY <1>1, <1>2, <1>4, <2>3, <3>1, <3>2
    <2>5. /\ AddBalance(a.BASE, o.quantity - fb) \in Balance
          /\ AddBalance(a.BASE, o.quantity - fb).available = a.BASE.available + o.quantity - fb
          /\ AddBalance(a.BASE, o.quantity - fb).locked = a.BASE.locked
      <3>1. o.quantity - fb \in Int
        BY <1>1
      <3>2. AddBalance(a.BASE, o.quantity - fb).available = a.BASE.available + (o.quantity - fb)
        BY <1>2, <1>4, <3>1
      <3> QED
        BY <1>1, <1>2, <1>4, <3>1, <3>2
    <2>6. b \in Accounts /\ b.QUOTE = AddBalance(u, -fq) /\ b.BASE = AddBalance(a.BASE, o.quantity - fb)
      BY <1>3, <2>1, <2>4, <2>5
    <2> QED
      BY <1>6, <2>4, <2>5, <2>6 DEF fb, fq, qq, b, t
  <1>7. CASE o.side = "SELL"
    <2> DEFINE u == UseLockedBalance(a.BASE, o.quantity)
    <2>1. b = [BASE |-> AddBalance(u, -fb), QUOTE |-> AddBalance(a.QUOTE, qq - fq)]
      BY <1>1, <1>7 DEF ExecuteTrade, fb, fq
    <2>2. a.BASE.locked >= o.quantity
      BY <1>1, <1>7 DEF Executable, CanUse, t
    <2>3. u \in Balance /\ u.available = a.BASE.available /\ u.locked = a.BASE.locked - o.quantity
      BY <1>1, <1>2, <1>5, <2>2
    <2> HIDE DEF u, b
    <2>4. /\ AddBalance(u, -fb) \in Balance
          /\ AddBalance(u, -fb).available = a.BASE.available - fb
          /\ AddBalance(u, -fb).locked = a.BASE.locked - o.quantity
      <3>1. -fb \in Int
        BY <1>1
      <3>2. AddBalance(u, -fb).available = a.BASE.available + (-fb)
        BY <1>4, <2>3, <3>1
      <3> QED
        BY <1>1, <1>2, <1>4, <2>3, <3>1, <3>2
    <2>5. /\ AddBalance(a.QUOTE, qq - fq) \in Balance
          /\ AddBalance(a.QUOTE, qq - fq).available = a.QUOTE.available + qq - fq
          /\ AddBalance(a.QUOTE, qq - fq).locked = a.QUOTE.locked
      <3>1. qq - fq \in Int
        BY <1>1
      <3>2. AddBalance(a.QUOTE, qq - fq).available = a.QUOTE.available + (qq - fq)
        BY <1>2, <1>4, <3>1
      <3> QED
        BY <1>1, <1>2, <1>4, <3>1, <3>2
    <2>6. b \in Accounts /\ b.BASE = AddBalance(u, -fb) /\ b.QUOTE = AddBalance(a.QUOTE, qq - fq)
      BY <1>3, <2>1, <2>4, <2>5
    <2> QED
      BY <1>7, <2>4, <2>5, <2>6 DEF fb, fq, qq, b, t
  <1> QED
    BY <1>1, <1>6, <1>7

(* Locking and unlocking change neither total; both keep balances what they are. *)
LEMMA LockParts ==
    ASSUME NEW b \in Balance, NEW f \in Nat
    PROVE  /\ LockBalance(b, f) \in Balance
           /\ LockBalance(b, f).available = b.available - f
           /\ LockBalance(b, f).locked = b.locked + f
           /\ f <= b.locked => /\ UnlockBalance(b, f) \in Balance
                               /\ UnlockBalance(b, f).available = b.available + f
                               /\ UnlockBalance(b, f).locked = b.locked - f
  <1>1. b.available \in Int /\ b.locked \in Nat
    BY DEF Balance
  <1>2. b.locked + f \in Nat /\ b.available - f \in Int /\ b.available + f \in Int
    BY <1>1
  <1>3. f <= b.locked => b.locked - f \in Nat
    BY <1>1
  <1> QED
    BY <1>2, <1>3 DEF LockBalance, UnlockBalance, Balance

(* An account with another balance for one currency. *)
LEMMA AccountWith ==
    ASSUME NEW a \in Accounts, NEW b \in Balance
    PROVE  /\ [a EXCEPT !["BASE"] = b] \in Accounts
           /\ [a EXCEPT !["BASE"] = b].BASE = b /\ [a EXCEPT !["BASE"] = b].QUOTE = a.QUOTE
           /\ [a EXCEPT !["QUOTE"] = b] \in Accounts
           /\ [a EXCEPT !["QUOTE"] = b].QUOTE = b /\ [a EXCEPT !["QUOTE"] = b].BASE = a.BASE
  BY DEF Accounts

(* The order, the price and the trade of an order that is taken at once, and
   what a sell order is paid on top. *)
TakenOrder(o) == IF o.type = "MARKET" THEN [o EXCEPT !.price = lastPrice] ELSE o
TakenPrice(o) == IF o.type = "MARKET" THEN lastPrice ELSE TakenAt(o)
TakenTrade(o) == NewTradeFromOrder(TakenOrder(o), TakenPrice(o))
Extra(o) == IF o.type = "LIMIT" /\ o.side = "SELL" THEN (TakenPrice(o) - o.price) * o.quantity ELSE 0

Taker(o) == (o.type = "MARKET" /\ lastPrice # 0) \/ IsLimitTaker(o)

LEMMA TakenFields ==
    ASSUME setting \in Settings, lastPrice \in Prices \cup {0}, NEW o \in Order, Taker(o)
    PROVE  /\ TakenOrder(o) \in Order /\ TakenOrder(o).side = o.side
           /\ TakenOrder(o).quantity = o.quantity /\ TakenOrder(o).type = o.type
           /\ TakenOrder(o).price = CheckedPrice(o)
           /\ TakenPrice(o) \in Nat /\ o.quantity \in Nat /\ CheckedPrice(o) \in Nat
           /\ o.side \in {"BUY", "SELL"}
           /\ o.side = "BUY" => TakenPrice(o) <= CheckedPrice(o)
           /\ o.side = "SELL" => TakenPrice(o) >= CheckedPrice(o)
           /\ o.type = "MARKET" => TakenPrice(o) = CheckedPrice(o)
           /\ o.type = "LIMIT" => CheckedPrice(o) = o.price
           /\ o.type \in {"MARKET", "LIMIT"}
  <1>1. /\ o.type \in OrderType /\ o.side \in {"BUY", "SELL"} /\ o.quantity \in Nat /\ o.price \in Nat
        /\ lastPrice \in Nat
    BY OrderFields
  <1>2. CASE o.type = "MARKET" /\ lastPrice # 0
    <2>1. lastPrice \in Prices
      BY <1>2
    <2>2. TakenOrder(o) = [o EXCEPT !.price = lastPrice] /\ TakenPrice(o) = lastPrice
      BY <1>2 DEF TakenOrder, TakenPrice
    <2>3. /\ TakenOrder(o) \in Order /\ TakenOrder(o).side = o.side
          /\ TakenOrder(o).quantity = o.quantity /\ TakenOrder(o).type = o.type
          /\ TakenOrder(o).price = lastPrice
      BY <2>1, <2>2, OrderWith
    <2>4. CheckedPrice(o) = lastPrice
      BY <1>2 DEF CheckedPrice
    <2> QED
      BY <1>1, <1>2, <2>2, <2>3, <2>4
  <1>3. CASE IsLimitTaker(o)
    <2>1. o.type = "LIMIT"
      BY <1>3 DEF IsLimitTaker
    <2>2. TakenOrder(o) = o /\ TakenPrice(o) = TakenAt(o) /\ CheckedPrice(o) = o.price
      BY <2>1 DEF TakenOrder, TakenPrice, CheckedPrice
    <2>3. TakenAt(o) \in {o.price, lastPrice}
      BY DEF TakenAt
    <2>4. IF o.side = "BUY" THEN o.price >= lastPrice ELSE o.price <= lastPrice
      BY <1>3 DEF IsLimitTaker
    <2> QED
      BY <1>1, <2>1, <2>2, <2>3, <2>4
  <1> QED
    BY <1>2, <1>3 DEF Taker

(* Taking an order leaves what is locked as it was. *)
LEMMA TakeAccount ==
    ASSUME setting \in Settings, lastPrice \in Prices \cup {0}, account \in Accounts,
           NEW o \in Order, Taker(o), Take(o)
    PROVE  LET q == o.quantity
               t == TakenTrade(o)
           IN  /\ account' \in Accounts
               /\ account'.BASE.locked = account.BASE.locked
               /\ account'.QUOTE.locked = account.QUOTE.locked
               /\ position' = AddTrade(position, t)
               /\ o.side = "BUY" =>
                      /\ Total(account'.BASE) = Total(account.BASE) + q - FeeIn(t, "BASE")
                      /\ Total(account'.QUOTE) = Total(account.QUOTE) - q * TakenPrice(o) - FeeIn(t, "QUOTE")
               /\ o.side = "SELL" =>
                      /\ Total(account'.BASE) = Total(account.BASE) - q - FeeIn(t, "BASE")
                      /\ Total(account'.QUOTE) = Total(account.QUOTE) + q * TakenPrice(o) - FeeIn(t, "QUOTE") + Extra(o)
               /\ Extra(o) \in Int /\ drift' = drift + FeeGap(t) + Extra(o)
  <1> DEFINE q == o.quantity
             p == CheckedPrice(o)
             x == TakenPrice(o)
             t == TakenTrade(o)
             fund == Reserve(o.side, q, p)
             locked == [account EXCEPT ![Currency(o.side)] = LockBalance(@, fund)]
             done == ExecuteTrade(locked, t)
             fb == FeeIn(t, "BASE")
             fq == FeeIn(t, "QUOTE")
  <1>1. /\ account' = UnlockRest(done, TakenOrder(o), x)
        /\ position' = AddTrade(position, t)
        /\ drift' = drift + FeeGap(t) + PaidTwice(TakenOrder(o), x)
    BY DEF Take, TakenOrder, TakenPrice, TakenTrade
  <1>2. /\ TakenOrder(o) \in Order /\ TakenOrder(o).side = o.side
        /\ TakenOrder(o).quantity = q /\ TakenOrder(o).type = o.type
        /\ TakenOrder(o).price = p
        /\ x \in Nat /\ q \in Nat /\ p \in Nat
        /\ o.side \in {"BUY", "SELL"}
        /\ o.side = "BUY" => x <= p
        /\ o.side = "SELL" => x >= p
        /\ o.type = "MARKET" => x = p
        /\ o.type = "LIMIT" => p = o.price
        /\ o.type \in {"MARKET", "LIMIT"}
    BY TakenFields
  <1>3. /\ account.BASE \in Balance /\ account.QUOTE \in Balance
        /\ account.BASE.available \in Int /\ account.BASE.locked \in Nat
        /\ account.QUOTE.available \in Int /\ account.QUOTE.locked \in Nat
    BY Balances
  <1>4. q * p \in Nat /\ q * x \in Nat /\ (p - x) * q = q * p - q * x /\ (x - p) * q = q * x - q * p
    BY <1>2
  <1>5. fb \in Nat /\ fq \in Nat
    <2> HIDE DEF x
    <2> QED
      BY <1>2, TradeFields DEF TakenTrade, x
  <1>6. \A m, n \in Nat : m <= n => q * m <= q * n
    BY <1>2
  <1>7. o.type # "MARKET" => o.type = "LIMIT"
    BY <1>2
  <1> DEFINE extra == Extra(o)
  <1>8. /\ extra \in Int /\ drift' = drift + FeeGap(t) + extra
        /\ o.side = "SELL" => extra = IF o.type = "LIMIT" THEN q * x - q * p ELSE 0
    <2>0. PaidTwice(TakenOrder(o), x) = extra
      <3> HIDE DEF x
      <3>1. CASE o.type = "LIMIT"
        <4>1. TakenOrder(o) = o
          BY <3>1 DEF TakenOrder
        <4> QED
          BY <3>1, <4>1 DEF PaidTwice, Extra, x
      <3>2. CASE o.type # "LIMIT"
        BY <1>2, <3>2 DEF PaidTwice, Extra
      <3> QED
        BY <3>1, <3>2
    <2>1. extra = IF o.type = "LIMIT" /\ o.side = "SELL" THEN q * x - q * p ELSE 0
      <3>1. CASE o.type = "LIMIT" /\ o.side = "SELL"
        BY <1>2, <1>4, <3>1 DEF Extra
      <3>2. CASE ~(o.type = "LIMIT" /\ o.side = "SELL")
        BY <3>2 DEF Extra
      <3> QED
        BY <3>1, <3>2
    <2>2. q * x - q * p \in Int
      BY <1>4
    <2>3. extra \in Int /\ (o.side = "SELL" => extra = IF o.type = "LIMIT" THEN q * x - q * p ELSE 0)
      <3> HIDE DEF extra, q, x, p
      <3> QED
        BY <2>1, <2>2
    <2> HIDE DEF extra, t
    <2>4. drift' = drift + FeeGap(t) + extra
      BY <1>1, <2>0
    <2> QED
      BY <2>3, <2>4
  <1>9. CASE o.side = "BUY"
    <2> DEFINE b == LockBalance(account.QUOTE, fund)
    <2>1. fund = q * p /\ locked = [account EXCEPT !["QUOTE"] = b]
      BY <1>9 DEF Reserve, Currency
    <2>2. /\ b \in Balance /\ b.available = account.QUOTE.available - q * p
          /\ b.locked = account.QUOTE.locked + q * p
      <3> HIDE DEF fund
      <3> QED
        BY <1>3, <1>4, <2>1, LockParts
    <2> HIDE DEF b
    <2>3. locked \in Accounts /\ locked.QUOTE = b /\ locked.BASE = account.BASE
      <3> HIDE DEF locked
      <3> QED
        BY <2>1, <2>2, AccountWith
    <2> HIDE DEF fund, locked
    <2>4. Executable(locked, t)
      <3>1. t.side = "BUY" /\ t.quoteQuantity = q * x
        BY <1>2, <1>9 DEF TakenTrade, NewTradeFromOrder
      <3>2. q * x <= q * p
        BY <1>2, <1>6, <1>9
      <3> HIDE DEF t, p, q, x
      <3>3. b.locked >= q * x
        BY <1>3, <1>4, <2>2, <3>2
      <3> QED
        BY <2>3, <3>1, <3>3 DEF Executable, CanUse
    <2>5. /\ done \in Accounts
          /\ done.QUOTE.locked = locked.QUOTE.locked - q * x
          /\ done.QUOTE.available = locked.QUOTE.available - fq
          /\ done.BASE.locked = locked.BASE.locked
          /\ done.BASE.available = locked.BASE.available + q - fb
      <3> HIDE DEF x
      <3>1. Executable(locked, NewTradeFromOrder(TakenOrder(o), x))
        BY <2>4 DEF TakenTrade, x
      <3> QED
        BY <1>2, <1>9, <2>3, <3>1, ExecuteAccount DEF TakenTrade, x
    <2>6. /\ done.QUOTE.locked = account.QUOTE.locked + (q * p - q * x)
          /\ done.QUOTE.available = account.QUOTE.available - q * p - fq
          /\ done.BASE.locked = account.BASE.locked
          /\ done.BASE.available = account.BASE.available + q - fb
          /\ done.QUOTE \in Balance
      <3> HIDE DEF done, fq, fb, p, q, x
      <3>1. done.QUOTE \in Balance
        BY <2>5, Balances
      <3> QED
        BY <1>2, <1>3, <1>4, <1>5, <2>2, <2>3, <2>5, <3>1
    <2>7. /\ account' \in Accounts
          /\ account'.QUOTE.locked = account.QUOTE.locked
          /\ account'.QUOTE.available = account.QUOTE.available - q * x - fq
          /\ account'.BASE.locked = account.BASE.locked
          /\ account'.BASE.available = account.BASE.available + q - fb
      <3>1. CASE o.type = "MARKET"
        <4>1. account' = done
          BY <1>1, <1>2, <3>1 DEF UnlockRest
        <4> HIDE DEF done, fq, fb, p, q, x
        <4>2. q * p = q * x
          BY <1>2, <3>1
        <4>3. account'.QUOTE.locked = account.QUOTE.locked
          BY <1>3, <1>4, <2>6, <4>1, <4>2
        <4>4. account'.QUOTE.available = account.QUOTE.available - q * x - fq
          BY <2>6, <4>1, <4>2
        <4> QED
          BY <2>5, <2>6, <4>1, <4>3, <4>4
      <3>2. CASE o.type = "LIMIT"
        <4> DEFINE rest == (p - x) * q
                   c == UnlockBalance(done.QUOTE, rest)
        <4>1. account' = [done EXCEPT !["QUOTE"] = c]
          BY <1>1, <1>2, <1>9, <3>2 DEF UnlockRest
        <4> HIDE DEF done, fq, fb, p, q, x
        <4>2. rest = q * p - q * x /\ rest \in Nat
          <5>1. q * x <= q * p
            BY <1>2, <1>6, <1>9
          <5> QED
            BY <1>4, <5>1
        <4> HIDE DEF rest
        <4>3. /\ c \in Balance /\ c.locked = account.QUOTE.locked
              /\ c.available = account.QUOTE.available - q * x - fq
          <5>1. rest <= done.QUOTE.locked
            BY <1>3, <2>6, <4>2
          <5>2. /\ c \in Balance /\ c.available = done.QUOTE.available + rest
                /\ c.locked = done.QUOTE.locked - rest
            BY <2>6, <4>2, <5>1, LockParts
          <5> QED
            BY <1>3, <1>4, <1>5, <2>6, <4>2, <5>2
        <4> HIDE DEF c
        <4>4. account' \in Accounts /\ account'.QUOTE = c /\ account'.BASE = done.BASE
          BY <2>5, <4>1, <4>3, AccountWith
        <4> QED
          BY <2>6, <4>3, <4>4
      <3> QED
        BY <1>7, <3>1, <3>2
    <2> HIDE DEF done, fq, fb, p, q, x, extra
    <2>8. /\ Total(account'.BASE) = Total(account.BASE) + q - fb
          /\ Total(account'.QUOTE) = Total(account.QUOTE) - q * x - fq
      BY <1>2, <1>3, <1>4, <1>5, <2>7 DEF Total
    <2>9. o.side # "SELL"
      BY <1>9
    <2> QED
      BY <1>1, <1>8, <2>7, <2>8, <2>9 DEF extra, q, x, fq, fb
  <1>10. CASE o.side = "SELL"
    <2> DEFINE b == LockBalance(account.BASE, fund)
    <2>1. fund = q /\ locked = [account EXCEPT !["BASE"] = b]
      BY <1>10 DEF Reserve, Currency
    <2>2. /\ b \in Balance /\ b.available = account.BASE.available - q
          /\ b.locked = account.BASE.locked + q
      <3> HIDE DEF fund
      <3> QED
        BY <1>2, <1>3, <2>1, LockParts
    <2> HIDE DEF b
    <2>3. locked \in Accounts /\ locked.BASE = b /\ locked.QUOTE = account.QUOTE
      <3> HIDE DEF locked
      <3> QED
        BY <2>1, <2>2, AccountWith
    <2> HIDE DEF fund, locked
    <2>4. Executable(locked, t)
      <3>1. t.side = "SELL" /\ t.quantity = q
        BY <1>2, <1>10 DEF TakenTrade, NewTradeFromOrder
      <3> HIDE DEF t, p, q, x
      <3>3. b.locked >= q
        BY <1>2, <1>3, <2>2
      <3> QED
        BY <2>3, <3>1, <3>3 DEF Executable, CanUse
    <2>5. /\ done \in Accounts
          /\ done.QUOTE.locked = locked.QUOTE.locked
          /\ done.QUOTE.available = locked.QUOTE.available + q * x - fq
          /\ done.BASE.locked = locked.BASE.locked - q
          /\ done.BASE.available = locked.BASE.available - fb
      <3> HIDE DEF x
      <3>1. Executable(locked, NewTradeFromOrder(TakenOrder(o), x))
        BY <2>4 DEF TakenTrade, x
      <3> QED
        BY <1>2, <1>10, <2>3, <3>1, ExecuteAccount DEF TakenTrade, x
    <2>6. /\ done.QUOTE.locked = account.QUOTE.locked
          /\ done.QUOTE.available = account.QUOTE.available + q * x - fq
          /\ done.BASE.locked = account.BASE.locked
          /\ done.BASE.available = account.BASE.available - q - fb
          /\ done.QUOTE \in Balance
      <3> HIDE DEF done, fq, fb, p, q, x
      <3>1. done.QUOTE \in Balance
        BY <2>5, Balances
      <3> QED
        BY <1>2, <1>3, <1>4, <1>5, <2>2, <2>3, <2>5, <3>1
    <2>7. /\ account' \in Accounts
          /\ account'.QUOTE.locked = account.QUOTE.locked
          /\ account'.QUOTE.available = account.QUOTE.available + q * x - fq + extra
          /\ account'.BASE.locked = account.BASE.locked
          /\ account'.BASE.available = account.BASE.available - q - fb
      <3>1. CASE o.type = "MARKET"
        <4>1. account' = done
          BY <1>1, <1>2, <3>1 DEF UnlockRest
        <4> HIDE DEF done, fq, fb, p, q, x, extra
        <4>2. extra = 0
          BY <1>8, <1>10, <3>1
        <4> QED
          BY <1>2, <1>3, <1>4, <1>5, <2>5, <2>6, <4>1, <4>2
      <3>2. CASE o.type = "LIMIT"
        <4> DEFINE more == (x - p) * q
                   c == AddBalance(done.QUOTE, more)
        <4>1. account' = [done EXCEPT !["QUOTE"] = c]
          BY <1>1, <1>2, <1>10, <3>2 DEF UnlockRest
        <4> HIDE DEF done, fq, fb, p, q, x, extra
        <4>2. more = extra
          BY <1>4, <1>8, <1>10, <3>2
        <4> HIDE DEF more
        <4>3. /\ c \in Balance /\ c.locked = account.QUOTE.locked
              /\ c.available = account.QUOTE.available + q * x - fq + extra
          <5>1. done.QUOTE.available + extra \in Int
            BY <1>3, <1>4, <1>5, <1>8, <2>6
          <5>2. /\ c \in Balance /\ c.available = done.QUOTE.available + extra
                /\ c.locked = done.QUOTE.locked
            BY <2>6, <4>2, <5>1 DEF AddBalance, Balance
          <5> QED
            BY <1>3, <1>4, <1>5, <1>8, <2>6, <5>2
        <4> HIDE DEF c
        <4>4. account' \in Accounts /\ account'.QUOTE = c /\ account'.BASE = done.BASE
          BY <2>5, <4>1, <4>3, AccountWith
        <4> QED
          BY <2>6, <4>3, <4>4
      <3> QED
        BY <1>7, <3>1, <3>2
    <2> HIDE DEF done, fq, fb, p, q, x, extra
    <2>8. /\ Total(account'.BASE) = Total(account.BASE) - q - fb
          /\ Total(account'.QUOTE) = Total(account.QUOTE) + q * x - fq + extra
      BY <1>2, <1>3, <1>4, <1>5, <1>8, <2>7 DEF Total
    <2>9. o.side # "BUY"
      BY <1>10
    <2> QED
      BY <1>1, <1>8, <2>7, <2>8, <2>9 DEF extra, q, x, fq, fb
  <1> QED
    BY <1>2, <1>9, <1>10

-----------------------------------------------------------------------------
(***************************************************************************)
(* Type correctness                                                        *)
(***************************************************************************)
(* The order a call of PlaceOrder creates, and where it goes. *)
LEMMA PlaceParts ==
    ASSUME Types, Place
    PROVE  \E o \in Order :
               /\ o.id = placed + 1 /\ o.avg = 0 /\ ~o.filled /\ o.type \in setting.types
               /\ o.priced = (lastPrice # 0)
               /\ o.side \in {"BUY", "SELL"}
               /\ \/ Taker(o) /\ Take(o)
                  \/ o.type # "MARKET" /\ ~IsLimitTaker(o) /\ o \in Waiting(o.side) /\ Rest(o)
               /\ placed' = placed + 1 /\ placed' \in 0 .. setting.orders
               /\ UNCHANGED <<setting, lastPrice, walk, closed, calling, panicked>>
  <1>1. PICK type \in setting.types, side \in {"BUY", "SELL"}, size \in setting.quantities :
        \E price \in IF type \in {"MARKET", "STOP_MARKET"} THEN {0} ELSE Prices :
        \E stop \in IF IsStop(type) THEN Prices ELSE {0} :
            PlaceOrder(type, side, size, price, stop)
    BY DEF Place
  <1>2. PICK price \in IF type \in {"MARKET", "STOP_MARKET"} THEN {0} ELSE Prices :
        \E stop \in IF IsStop(type) THEN Prices ELSE {0} :
            PlaceOrder(type, side, size, price, stop)
    BY <1>1
  <1>3. PICK stop \in IF IsStop(type) THEN Prices ELSE {0} :
            PlaceOrder(type, side, size, price, stop)
    BY <1>2
  <1> DEFINE o == [id |-> placed + 1, type |-> type, side |-> side, quantity |-> size,
                   price |-> price, stop |-> stop, avg |-> 0, filled |-> FALSE, priced |-> lastPrice # 0]
  <1>4. /\ calling /\ ~panicked /\ placed < setting.orders
        /\ type = "MARKET" => lastPrice # 0
        /\ IF type = "MARKET" \/ IsLimitTaker(o) THEN Take(o) ELSE Rest(o)
        /\ placed' = placed + 1
        /\ UNCHANGED <<setting, lastPrice, walk, closed, calling, panicked>>
    BY <1>3 DEF PlaceOrder
  <1>5. /\ setting.types \subseteq OrderType /\ setting.orders \in Nat
        /\ placed \in 0 .. setting.orders /\ setting \in Settings
    BY OrderFields DEF Types
  <1>6. placed + 1 \in 1 .. setting.orders
    BY <1>4, <1>5
  <1>7. price \in Prices \cup {0} /\ stop \in Prices \cup {0} /\ type \in OrderType
    BY <1>1, <1>2, <1>3, <1>5
  <1>8. o \in Order
    <2>1. (lastPrice # 0) \in BOOLEAN /\ FALSE \in BOOLEAN
      OBVIOUS
    <2>2. \A b, c \in BOOLEAN : [id |-> placed + 1, type |-> type, side |-> side, quantity |-> size,
                   price |-> price, stop |-> stop, avg |-> 0, filled |-> b, priced |-> c] \in Order
      BY <1>6, <1>7 DEF Order
    <2> QED
      BY <2>1, <2>2, Zenon
  <1>9. /\ o.id = placed + 1 /\ o.avg = 0 /\ o.type = type /\ o.side = side /\ o.price = price /\ o.stop = stop
    OBVIOUS
  <1>10. ~o.filled /\ o.priced = (lastPrice # 0)
    BY Zenon
  <1>11. type # "MARKET" => o \in Waiting(side)
    <2> HIDE DEF o
    <2>1. type \notin {"MARKET", "STOP_MARKET"} => price \in Prices
      BY <1>2
    <2>2. IsStop(type) => stop \in Prices
      BY <1>3
    <2> QED
      BY <1>8, <1>9, <1>10, <2>1, <2>2 DEF Waiting
  <1> HIDE DEF o
  <1>12. \/ Taker(o) /\ Take(o)
         \/ o.type # "MARKET" /\ ~IsLimitTaker(o) /\ o \in Waiting(o.side) /\ Rest(o)
    <2>1. CASE type = "MARKET" \/ IsLimitTaker(o)
      BY <1>4, <1>9, <2>1 DEF Taker
    <2>2. CASE ~(type = "MARKET" \/ IsLimitTaker(o))
      BY <1>4, <1>9, <1>11, <2>2
    <2> QED
      BY <2>1, <2>2
  <1>13. placed + 1 \in 0 .. setting.orders
    BY <1>6, <1>5
  <1> QED
    BY <1>4, <1>8, <1>9, <1>10, <1>12, <1>13, Zenon

(* Resting an order in the book of its side. *)
LEMMA RestParts ==
    ASSUME setting \in Settings, account \in Accounts, bidOrders \in Seq(Waiting("BUY")), askOrders \in Seq(Waiting("SELL")),
           lastPrice \in Prices \cup {0},
           NEW o \in Order, o.type # "MARKET", o \in Waiting(o.side), Rest(o)
    PROVE  LET c == Currency(o.side)
               fund == Reserve(o.side, o.quantity, CheckedPrice(o))
           IN  /\ account' \in Accounts /\ fund \in Nat
               /\ o.side = "BUY" => /\ bidOrders' = Append(bidOrders, o) /\ askOrders' = askOrders
                                    /\ account'.QUOTE.locked = account.QUOTE.locked + fund
                                    /\ account'.QUOTE.available = account.QUOTE.available - fund
                                    /\ account'.BASE = account.BASE
               /\ o.side = "SELL" => /\ askOrders' = Append(askOrders, o) /\ bidOrders' = bidOrders
                                     /\ account'.BASE.locked = account.BASE.locked + fund
                                     /\ account'.BASE.available = account.BASE.available - fund
                                     /\ account'.QUOTE = account.QUOTE
               /\ bidOrders' \in Seq(Waiting("BUY")) /\ askOrders' \in Seq(Waiting("SELL"))
               /\ position' = position /\ drift' = drift
  <1> DEFINE fund == Reserve(o.side, o.quantity, CheckedPrice(o))
  <1>1. /\ o.side \in {"BUY", "SELL"} /\ o.quantity \in Nat /\ o.price \in Nat /\ o.stop \in Nat
    BY OrderFields
  <1>2. fund \in Nat
    <2>1. CheckedPrice(o) \in Nat
      BY <1>1 DEF CheckedPrice
    <2>2. o.quantity * CheckedPrice(o) \in Nat
      BY <1>1, <2>1
    <2> QED
      BY <1>1, <2>2 DEF Reserve
  <1>3. /\ account' = [account EXCEPT ![Currency(o.side)] = LockBalance(@, fund)]
        /\ position' = position /\ drift' = drift
        /\ IF o.side = "BUY"
           THEN bidOrders' = Append(bidOrders, o) /\ UNCHANGED askOrders
           ELSE askOrders' = Append(askOrders, o) /\ UNCHANGED bidOrders
    BY DEF Rest, Lock
  <1>4. account.BASE \in Balance /\ account.QUOTE \in Balance
    BY Balances
  <1> HIDE DEF fund
  <1>5. CASE o.side = "BUY"
    <2> DEFINE b == LockBalance(account.QUOTE, fund)
    <2>1. account' = [account EXCEPT !["QUOTE"] = b]
      BY <1>3, <1>5 DEF Currency
    <2>2. b \in Balance /\ b.available = account.QUOTE.available - fund /\ b.locked = account.QUOTE.locked + fund
      BY <1>2, <1>4, LockParts
    <2> HIDE DEF b
    <2>3. account' \in Accounts /\ account'.QUOTE = b /\ account'.BASE = account.BASE
      BY <2>1, <2>2, AccountWith
    <2>4. bidOrders' = Append(bidOrders, o) /\ askOrders' = askOrders
      BY <1>3, <1>5
    <2>5. bidOrders' \in Seq(Waiting("BUY"))
      BY <1>5, <2>4, AppendElements
    <2> QED
      BY <1>2, <1>3, <1>5, <2>2, <2>3, <2>4, <2>5 DEF fund
  <1>6. CASE o.side = "SELL"
    <2> DEFINE b == LockBalance(account.BASE, fund)
    <2>1. account' = [account EXCEPT !["BASE"] = b]
      BY <1>3, <1>6 DEF Currency
    <2>2. b \in Balance /\ b.available = account.BASE.available - fund /\ b.locked = account.BASE.locked + fund
      BY <1>2, <1>4, LockParts
    <2> HIDE DEF b
    <2>3. account' \in Accounts /\ account'.BASE = b /\ account'.QUOTE = account.QUOTE
      BY <2>1, <2>2, AccountWith
    <2>4. askOrders' = Append(askOrders, o) /\ bidOrders' = bidOrders
      BY <1>3, <1>6
    <2>5. askOrders' \in Seq(Waiting("SELL"))
      BY <1>6, <2>4, AppendElements
    <2> QED
      BY <1>2, <1>3, <1>6, <2>2, <2>3, <2>4, <2>5 DEF fund
  <1> QED
    BY <1>1, <1>5, <1>6

(* Cancelling an order takes it out of its book and unlocks what its own price
   reserves, if so much is locked. *)
LEMMA CancelParts ==
    ASSUME Types, NEW o \in Open, CancelOrder(o)
    PROVE  LET fund == Reserve(o.side, o.quantity, o.price)
           IN  /\ account' \in Accounts /\ fund \in Nat /\ o \in Order
               /\ o.side = "BUY" =>
                      /\ account'.BASE = account.BASE
                      /\ IF fund <= account.QUOTE.locked
                         THEN /\ account'.QUOTE.locked = account.QUOTE.locked - fund
                              /\ account'.QUOTE.available = account.QUOTE.available + fund
                         ELSE account'.QUOTE = account.QUOTE
               /\ o.side = "SELL" =>
                      /\ account'.QUOTE = account.QUOTE
                      /\ IF fund <= account.BASE.locked
                         THEN /\ account'.BASE.locked = account.BASE.locked - fund
                              /\ account'.BASE.available = account.BASE.available + fund
                         ELSE account'.BASE = account.BASE
               /\ bidOrders' \in Seq(Waiting("BUY")) /\ askOrders' \in Seq(Waiting("SELL"))
               /\ ToSet(bidOrders') = {b \in ToSet(bidOrders) : b.id # o.id}
               /\ ToSet(askOrders') = {b \in ToSet(askOrders) : b.id # o.id}
               /\ o \in Waiting(o.side) /\ o.side \in {"BUY", "SELL"}
               /\ position' = position /\ drift' = drift
  <1> DEFINE fund == Reserve(o.side, o.quantity, o.price)
  <1>1. /\ setting \in Settings /\ account \in Accounts
        /\ bidOrders \in Seq(Waiting("BUY")) /\ askOrders \in Seq(Waiting("SELL"))
    BY DEF Types, Accounts
  <1>2. /\ o \in Order /\ o.side \in {"BUY", "SELL"} /\ o \in Waiting(o.side)
    <2>1. CASE o \in ToSet(bidOrders)
      <3>1. o \in Waiting("BUY")
        BY <1>1, <2>1, Elements
      <3> QED
        BY <3>1 DEF Waiting
    <2>2. CASE o \in ToSet(askOrders)
      <3>1. o \in Waiting("SELL")
        BY <1>1, <2>2, Elements
      <3> QED
        BY <3>1 DEF Waiting
    <2> QED
      BY <2>1, <2>2 DEF Open
  <1>3. fund \in Nat
    <2>1. o.quantity \in Nat /\ o.price \in Nat
      BY <1>1, <1>2, OrderFields
    <2>2. o.quantity * o.price \in Nat
      BY <2>1
    <2> QED
      BY <2>1, <2>2 DEF Reserve
  <1>4. /\ account' = [account EXCEPT ![Currency(o.side)] =
                          IF CanUnlock(@, fund) THEN UnlockBalance(@, fund) ELSE @]
        /\ bidOrders' = Without(bidOrders, o) /\ askOrders' = Without(askOrders, o)
        /\ position' = position /\ drift' = drift
    BY DEF CancelOrder, Unlocked
  <1>5. account.BASE \in Balance /\ account.QUOTE \in Balance
    BY <1>1, Balances
  <1>6. /\ ToSet(bidOrders') = {b \in ToSet(bidOrders) : b.id # o.id}
        /\ bidOrders' \in Seq({b \in ToSet(bidOrders) : b.id # o.id})
    <2> DEFINE R == {b \in ToSet(bidOrders) : b.id # o.id}
    <2>1. bidOrders' = Filter(bidOrders, R)
      BY <1>4 DEF Without
    <2>2. ToSet(bidOrders) \cap R = R
      OBVIOUS
    <2> HIDE DEF R
    <2>3. ToSet(bidOrders') = ToSet(bidOrders) \cap R /\ bidOrders' \in Seq(ToSet(bidOrders) \cap R)
      BY <1>1, <2>1, FilterElements
    <2>4. ToSet(bidOrders') = R /\ bidOrders' \in Seq(R)
      BY <2>2, <2>3
    <2> QED
      BY <2>4 DEF R
  <1>7. /\ ToSet(askOrders') = {b \in ToSet(askOrders) : b.id # o.id}
        /\ askOrders' \in Seq({b \in ToSet(askOrders) : b.id # o.id})
    <2> DEFINE R == {b \in ToSet(askOrders) : b.id # o.id}
    <2>1. askOrders' = Filter(askOrders, R)
      BY <1>4 DEF Without
    <2>2. ToSet(askOrders) \cap R = R
      OBVIOUS
    <2> HIDE DEF R
    <2>3. ToSet(askOrders') = ToSet(askOrders) \cap R /\ askOrders' \in Seq(ToSet(askOrders) \cap R)
      BY <1>1, <2>1, FilterElements
    <2>4. ToSet(askOrders') = R /\ askOrders' \in Seq(R)
      BY <2>2, <2>3
    <2> QED
      BY <2>4 DEF R
  <1>8. bidOrders' \in Seq(Waiting("BUY")) /\ askOrders' \in Seq(Waiting("SELL"))
    <2>1. /\ {b \in ToSet(bidOrders) : b.id # o.id} \subseteq Waiting("BUY")
          /\ {b \in ToSet(askOrders) : b.id # o.id} \subseteq Waiting("SELL")
      BY <1>1, Elements
    <2> QED
      BY <1>6, <1>7, <2>1, SeqWider
  <1> HIDE DEF fund
  <1>9. CASE o.side = "BUY"
    <2> DEFINE b == IF CanUnlock(account.QUOTE, fund) THEN UnlockBalance(account.QUOTE, fund) ELSE account.QUOTE
    <2>1. account' = [account EXCEPT !["QUOTE"] = b]
      BY <1>4, <1>9 DEF Currency
    <2>2. /\ b \in Balance
          /\ IF fund <= account.QUOTE.locked
             THEN b.available = account.QUOTE.available + fund /\ b.locked = account.QUOTE.locked - fund
             ELSE b = account.QUOTE
      BY <1>3, <1>5, LockParts DEF CanUnlock
    <2> HIDE DEF b
    <2>3. account' \in Accounts /\ account'.QUOTE = b /\ account'.BASE = account.BASE
      BY <1>1, <2>1, <2>2, AccountWith
    <2>4. o.side # "SELL"
      BY <1>9
    <2> QED
      BY <1>2, <1>3, <1>4, <1>6, <1>7, <1>8, <2>2, <2>3, <2>4 DEF fund
  <1>10. CASE o.side = "SELL"
    <2> DEFINE b == IF CanUnlock(account.BASE, fund) THEN UnlockBalance(account.BASE, fund) ELSE account.BASE
    <2>1. account' = [account EXCEPT !["BASE"] = b]
      BY <1>4, <1>10 DEF Currency
    <2>2. /\ b \in Balance
          /\ IF fund <= account.BASE.locked
             THEN b.available = account.BASE.available + fund /\ b.locked = account.BASE.locked - fund
             ELSE b = account.BASE
      BY <1>3, <1>5, LockParts DEF CanUnlock
    <2> HIDE DEF b
    <2>3. account' \in Accounts /\ account'.BASE = b /\ account'.QUOTE = account.QUOTE
      BY <1>1, <2>1, <2>2, AccountWith
    <2>4. o.side # "BUY"
      BY <1>10
    <2> QED
      BY <1>2, <1>3, <1>4, <1>6, <1>7, <1>8, <2>2, <2>3, <2>4 DEF fund
  <1> QED
    BY <1>2, <1>9, <1>10

(* A move in the direction it says, from a price. *)
Towards(from, move) == IF move.up THEN from <= move.to ELSE move.to <= from

(* The moves lead from a price, each from where the one before it ended. *)
Directed(from, moves) ==
    \A i \in DOMAIN moves : Towards(IF i = 1 THEN from ELSE moves[i - 1].to, moves[i])

LEMMA DirectedFirst ==
    ASSUME NEW from, NEW move \in Moves, NEW moves \in Seq(Moves),
           Towards(from, move), Directed(move.to, moves)
    PROVE  <<move>> \o moves \in Seq(Moves) /\ Directed(from, <<move>> \o moves)
  <1> DEFINE all == <<move>> \o moves
             n == Len(moves)
  <1>1. <<move>> \in Seq(Moves) /\ Len(<<move>>) = 1 /\ <<move>>[1] = move
    OBVIOUS
  <1>2. /\ all \in Seq(Moves) /\ n \in Nat /\ DOMAIN moves = 1 .. n /\ DOMAIN all = 1 .. n + 1
        /\ all[1] = move /\ \A i \in 2 .. n + 1 : all[i] = moves[i - 1]
    BY <1>1
  <1> HIDE DEF all, n
  <1>3. ASSUME NEW i \in DOMAIN all
        PROVE  Towards(IF i = 1 THEN from ELSE all[i - 1].to, all[i])
    <2>1. CASE i = 1
      BY <1>2, <2>1
    <2>2. CASE i = 2
      <3>1. 1 \in DOMAIN moves /\ all[2] = moves[1] /\ all[i - 1] = move
        BY <1>2, <2>2
      <3>2. Towards(move.to, moves[1])
        BY <3>1 DEF Directed
      <3> QED
        BY <2>2, <3>1, <3>2
    <2>3. CASE i \notin {1, 2}
      <3>1. /\ i - 1 \in DOMAIN moves /\ i - 1 # 1 /\ all[i] = moves[i - 1]
            /\ all[i - 1] = moves[(i - 1) - 1]
        BY <1>2, <2>3
      <3>2. Towards(moves[(i - 1) - 1].to, moves[i - 1])
        BY <3>1 DEF Directed
      <3> QED
        BY <2>3, <3>1, <3>2
    <2> QED
      BY <2>1, <2>2, <2>3
  <1>4. Directed(from, all)
    BY <1>3 DEF Directed
  <1> QED
    BY <1>2, <1>4 DEF all

LEMMA DirectedTail ==
    ASSUME NEW from, NEW moves \in Seq(Moves), moves # <<>>, Directed(from, moves)
    PROVE  Towards(from, Head(moves)) /\ Directed(Head(moves).to, Tail(moves))
  <1> DEFINE t == Tail(moves)
             n == Len(moves)
  <1>1. /\ Head(moves) = moves[1] /\ n \in Nat \ {0} /\ DOMAIN moves = 1 .. n
        /\ DOMAIN t = 1 .. n - 1 /\ \A i \in 1 .. n - 1 : t[i] = moves[i + 1]
    BY HeadTail
  <1> HIDE DEF t, n
  <1>2. Towards(from, Head(moves))
    <2>1. 1 \in DOMAIN moves
      BY <1>1
    <2>2. Towards(IF 1 = 1 THEN from ELSE moves[1 - 1].to, moves[1])
      BY <2>1 DEF Directed
    <2> QED
      BY <1>1, <2>2
  <1>3. ASSUME NEW i \in DOMAIN t
        PROVE  Towards(IF i = 1 THEN Head(moves).to ELSE t[i - 1].to, t[i])
    <2>1. i + 1 \in DOMAIN moves /\ i + 1 # 1 /\ t[i] = moves[i + 1] /\ (i + 1) - 1 = i
      BY <1>1
    <2>2. Towards(moves[i].to, moves[i + 1])
      BY <2>1 DEF Directed
    <2>3. CASE i = 1
      BY <1>1, <2>1, <2>2, <2>3
    <2>4. CASE i # 1
      <3>1. t[i - 1] = moves[(i - 1) + 1] /\ (i - 1) + 1 = i
        BY <1>1, <2>4
      <3> QED
        BY <2>1, <2>2, <2>4, <3>1
    <2> QED
      BY <2>3, <2>4
  <1> QED
    BY <1>2, <1>3 DEF Directed, t

(* The walk along a K-line leads from its open price. *)
LEMMA PathDirected ==
    ASSUME NEW k \in KLines
    PROVE  /\ Path(k) \in Seq(Moves) /\ Directed(k.open, Path(k))
           /\ k.open \in Prices
           /\ \A from \in Nat : /\ <<IF from > k.open THEN Down(k.open) ELSE Up(k.open)>> \o Path(k) \in Seq(Moves)
                                /\ Directed(from, <<IF from > k.open THEN Down(k.open) ELSE Up(k.open)>> \o Path(k))
  <1>1. /\ k.open \in Prices /\ k.high \in Prices /\ k.low \in Prices /\ k.close \in Prices
        /\ Prices \subseteq Nat
    BY MatchingAssumption DEF KLine
  <1>2. /\ k.low <= k.open /\ k.open <= k.high /\ k.low <= k.close /\ k.close <= k.high
        /\ k.open \in Nat /\ k.high \in Nat /\ k.low \in Nat /\ k.close \in Nat
    <2>1. k.low <= k.open /\ k.open <= k.high /\ k.low <= k.close /\ k.close <= k.high
      BY MatchingAssumption
    <2> QED
      BY <1>1, <2>1
  <1>3. \A p \in Prices : Up(p) \in Moves /\ Down(p) \in Moves /\ Up(p).to = p /\ Down(p).to = p
    BY DEF Up, Down, Moves
  <1>4. \A p, q \in Prices : (p <= q => Towards(p, Up(q))) /\ (q <= p => Towards(p, Down(q)))
    BY DEF Towards, Up, Down
  <1>5. \A p : <<>> \in Seq(Moves) /\ Directed(p, <<>>)
    BY DEF Directed
  <1>6. ASSUME NEW from \in Prices, NEW m \in Moves, Towards(from, m)
        PROVE  <<m>> \in Seq(Moves) /\ Directed(from, <<m>>)
    <2>1. <<m>> \in Seq(Moves) /\ DOMAIN <<m>> = {1} /\ <<m>>[1] = m
      OBVIOUS
    <2> QED
      BY <1>6, <2>1 DEF Directed
  <1>7. ASSUME NEW from \in Prices, NEW m \in Moves, NEW n \in Moves, Towards(from, m), Towards(m.to, n)
        PROVE  <<m, n>> \in Seq(Moves) /\ Directed(from, <<m, n>>)
    <2>1. <<m, n>> \in Seq(Moves) /\ DOMAIN <<m, n>> = {1, 2} /\ <<m, n>>[1] = m /\ <<m, n>>[2] = n
      OBVIOUS
    <2> QED
      BY <1>7, <2>1 DEF Directed
  <1> HIDE DEF Up, Down
  <1>8. Path(k) \in Seq(Moves) /\ Directed(k.open, Path(k))
    <2>1. CASE k.close < k.open
      <3> DEFINE rest == IF k.low < k.close THEN <<Down(k.low), Up(k.close)>> ELSE <<Down(k.close)>>
      <3>1. rest \in Seq(Moves) /\ Directed(k.high, rest)
        <4>1. CASE k.low < k.close
          <5>1. Down(k.low).to = k.low /\ Towards(k.high, Down(k.low)) /\ Towards(k.low, Up(k.close))
            <6>1. k.low <= k.high
              BY <1>2
            <6> QED
              BY <1>1, <1>2, <1>3, <1>4, <6>1
          <5> QED
            BY <1>1, <1>3, <1>7, <4>1, <5>1
        <4>2. CASE ~(k.low < k.close)
          <5>1. Towards(k.high, Down(k.close))
            BY <1>1, <1>2, <1>4
          <5> QED
            BY <1>1, <1>3, <1>6, <4>2, <5>1
        <4> QED
          BY <4>1, <4>2
      <3>2. Path(k) = <<Up(k.high)>> \o rest
        BY <2>1 DEF Path
      <3>3. Towards(k.open, Up(k.high)) /\ Up(k.high).to = k.high /\ Up(k.high) \in Moves
        BY <1>1, <1>2, <1>3, <1>4
      <3> HIDE DEF rest
      <3> QED
        BY <3>1, <3>2, <3>3, DirectedFirst
    <2>2. CASE k.close > k.open
      <3> DEFINE rest == IF k.high > k.close THEN <<Up(k.high), Down(k.close)>> ELSE <<Up(k.close)>>
      <3>1. rest \in Seq(Moves) /\ Directed(k.low, rest)
        <4>1. CASE k.high > k.close
          <5>1. Up(k.high).to = k.high /\ Towards(k.low, Up(k.high)) /\ Towards(k.high, Down(k.close))
            <6>1. k.low <= k.high
              BY <1>2
            <6> QED
              BY <1>1, <1>2, <1>3, <1>4, <6>1
          <5> QED
            BY <1>1, <1>3, <1>7, <4>1, <5>1
        <4>2. CASE ~(k.high > k.close)
          <5>1. Towards(k.low, Up(k.close))
            BY <1>1, <1>2, <1>4
          <5> QED
            BY <1>1, <1>3, <1>6, <4>2, <5>1
        <4> QED
          BY <4>1, <4>2
      <3>2. Path(k) = <<Down(k.low)>> \o rest
        BY <1>2, <2>2 DEF Path
      <3>3. Towards(k.open, Down(k.low)) /\ Down(k.low).to = k.low /\ Down(k.low) \in Moves
        BY <1>1, <1>2, <1>3, <1>4
      <3> HIDE DEF rest
      <3> QED
        BY <3>1, <3>2, <3>3, DirectedFirst
    <2>3. CASE ~(k.close < k.open) /\ ~(k.close > k.open)
      BY <1>5, <2>3 DEF Path
    <2> QED
      BY <2>1, <2>2, <2>3
  <1>9. ASSUME NEW from \in Nat
        PROVE  LET m == IF from > k.open THEN Down(k.open) ELSE Up(k.open)
               IN  m \in Moves /\ Towards(from, m) /\ m.to = k.open
    BY <1>1, <1>2 DEF Up, Down, Towards, Moves
  <1> HIDE DEF Path
  <1> QED
    BY <1>1, <1>8, <1>9, DirectedFirst

(* Executing the first closed order. *)
LEMMA ExecuteParts ==
    ASSUME Types, Execute
    PROVE  LET o == Head(closed)
               price == ExecutedPrice(o)
               t == NewTradeFromOrder(o, price)
               q == o.quantity
           IN  /\ o \in Done /\ o \in Order /\ closed # <<>> /\ closed' = Tail(closed) /\ closed' \in Seq(Done)
               /\ price \in Nat /\ q \in Nat
               /\ o.side \in {"BUY", "SELL"}
               /\ account' \in Accounts /\ position' = AddTrade(position, t) /\ drift' = drift + FeeGap(t)
               /\ FeeIn(t, "BASE") \in Nat /\ FeeIn(t, "QUOTE") \in Nat
               /\ o.side = "BUY" =>
                      /\ account'.QUOTE.locked = account.QUOTE.locked - q * price
                      /\ account'.QUOTE.available = account.QUOTE.available - FeeIn(t, "QUOTE")
                      /\ account'.BASE.locked = account.BASE.locked
                      /\ account'.BASE.available = account.BASE.available + q - FeeIn(t, "BASE")
               /\ o.side = "SELL" =>
                      /\ account'.QUOTE.locked = account.QUOTE.locked
                      /\ account'.QUOTE.available = account.QUOTE.available + q * price - FeeIn(t, "QUOTE")
                      /\ account'.BASE.locked = account.BASE.locked - q
                      /\ account'.BASE.available = account.BASE.available - FeeIn(t, "BASE")
  <1> DEFINE o == Head(closed)
             price == ExecutedPrice(o)
             t == NewTradeFromOrder(o, price)
  <1>1. /\ closed # <<>> /\ Executable(account, t) /\ account' = ExecuteTrade(account, t)
        /\ position' = AddTrade(position, t) /\ closed' = Tail(closed) /\ drift' = drift + FeeGap(t)
    BY DEF Execute
  <1>2. closed \in Seq(Done) /\ setting \in Settings /\ account \in Accounts
    BY DEF Types, Accounts
  <1>3. o \in Done /\ closed' \in Seq(Done)
    BY <1>1, <1>2, HeadTail
  <1> HIDE DEF o
  <1>4. o \in Order /\ o.side \in {"BUY", "SELL"} /\ o.quantity \in Nat /\ price \in Nat
    BY <1>2, <1>3, OrderFields DEF Done, ExecutedPrice
  <1> HIDE DEF price
  <1>5. FeeIn(t, "BASE") \in Nat /\ FeeIn(t, "QUOTE") \in Nat
    BY <1>2, <1>4, TradeFields
  <1>6. /\ account' \in Accounts
        /\ o.side = "BUY" =>
               /\ account'.QUOTE.locked = account.QUOTE.locked - o.quantity * price
               /\ account'.QUOTE.available = account.QUOTE.available - FeeIn(t, "QUOTE")
               /\ account'.BASE.locked = account.BASE.locked
               /\ account'.BASE.available = account.BASE.available + o.quantity - FeeIn(t, "BASE")
        /\ o.side = "SELL" =>
               /\ account'.QUOTE.locked = account.QUOTE.locked
               /\ account'.QUOTE.available = account.QUOTE.available + o.quantity * price - FeeIn(t, "QUOTE")
               /\ account'.BASE.locked = account.BASE.locked - o.quantity
               /\ account'.BASE.available = account.BASE.available - FeeIn(t, "BASE")
    BY <1>1, <1>2, <1>4, ExecuteAccount
  <1> HIDE DEF t
  <1> QED
    BY <1>1, <1>3, <1>4, <1>5, <1>6 DEF o, price, t

(* The fee of a trade is a number. *)
LEMMA GapType ==
    ASSUME setting \in Settings, NEW o \in Order, NEW price \in Nat
    PROVE  FeeGap(NewTradeFromOrder(o, price)) \in Int
  <1> DEFINE t == NewTradeFromOrder(o, price)
  <1>1. FeeIn(t, "QUOTE") \in Nat
    BY TradeFields
  <1> HIDE DEF t
  <1>2. -2 * FeeIn(t, "QUOTE") \in Int
    BY <1>1
  <1> QED
    BY <1>2 DEF FeeGap, t

LEMMA InitTypes == Init => Types
  <1> SUFFICES ASSUME Init
               PROVE  Types
    OBVIOUS
  <1>1. account \in [{"BASE", "QUOTE"} -> Balance]
    <2>1. BaseFund \in Nat /\ QuoteFund \in Nat
      BY MatchingAssumption
    <2>2. NewBalance(BaseFund) \in Balance /\ NewBalance(QuoteFund) \in Balance
      BY <2>1 DEF NewBalance, Balance
    <2>3. account = [BASE |-> NewBalance(BaseFund), QUOTE |-> NewBalance(QuoteFund)]
      BY DEF Init
    <2> HIDE DEF NewBalance
    <2> QED
      BY <2>2, <2>3
  <1>2. setting \in Settings /\ placed = 0 /\ count = 0 /\ before = 0
    BY DEF Init
  <1>3. placed \in 0 .. setting.orders /\ count \in 0 .. MaxKLines /\ before \in 0 .. placed
    <2>1. setting.orders \in Nat /\ MaxKLines \in Nat
      BY <1>2, OrderFields, MatchingAssumption
    <2> QED
      BY <1>2, <2>1
  <1>4. /\ bidOrders = <<>> /\ askOrders = <<>> /\ closed = <<>> /\ path = <<>> /\ lastPrice = 0
        /\ kline = None /\ nextKLine = None
    BY DEF Init
  <1>5. calling \in BOOLEAN /\ busy \in BOOLEAN /\ panicked \in BOOLEAN
    BY Zenon DEF Init
  <1>6. drift = 0
    BY DEF Init
  <1> QED
    BY <1>1, <1>2, <1>3, <1>4, <1>5, <1>6 DEF Types

LEMMA PlaceTypes == Types /\ Place => Types'
  <1> SUFFICES ASSUME Types, Place
               PROVE  Types'
    OBVIOUS
  <1>1. PICK o \in Order :
            /\ \/ Taker(o) /\ Take(o)
               \/ o.type # "MARKET" /\ ~IsLimitTaker(o) /\ o \in Waiting(o.side) /\ Rest(o)
            /\ placed' = placed + 1 /\ placed' \in 0 .. setting.orders
            /\ UNCHANGED <<setting, lastPrice, walk, closed, calling, panicked>>
    BY PlaceParts
  <1>2. /\ setting \in Settings /\ account \in Accounts /\ lastPrice \in Prices \cup {0}
        /\ bidOrders \in Seq(Waiting("BUY")) /\ askOrders \in Seq(Waiting("SELL"))
    BY DEF Types, Accounts
  <1>3. drift' \in Int
    <2>1. drift \in Int
      BY DEF Types
    <2>2. CASE Taker(o) /\ Take(o)
      <3>1. FeeGap(TakenTrade(o)) \in Int
        BY <1>2, <2>2, TakenFields, GapType DEF TakenTrade
      <3>2. Extra(o) \in Int /\ drift' = drift + FeeGap(TakenTrade(o)) + Extra(o)
        BY <1>2, <2>2, TakeAccount
      <3> HIDE DEF FeeGap, TakenTrade, Extra
      <3> QED
        BY <2>1, <3>1, <3>2
    <2>3. CASE Rest(o)
      BY <2>1, <2>3 DEF Rest
    <2> QED
      BY <1>1, <2>2, <2>3
  <1>4. account' \in Accounts /\ bidOrders' \in Seq(Waiting("BUY")) /\ askOrders' \in Seq(Waiting("SELL"))
    <2>1. CASE Taker(o) /\ Take(o)
      <3>1. account' \in Accounts
        BY <1>2, <2>1, TakeAccount
      <3>2. UNCHANGED books
        BY <2>1 DEF Take
      <3> QED
        BY <1>2, <3>1, <3>2 DEF books
    <2>2. CASE o.type # "MARKET" /\ ~IsLimitTaker(o) /\ o \in Waiting(o.side) /\ Rest(o)
      BY <1>2, <2>2, RestParts
    <2> QED
      BY <1>1, <2>1, <2>2
  <1>5. /\ Waiting("BUY")' = Waiting("BUY") /\ Waiting("SELL")' = Waiting("SELL") /\ Done' = Done
    BY <1>1 DEF Waiting, Done, Order
  <1>6. UNCHANGED <<setting, lastPrice, kline, nextKLine, path, busy, count, before, closed, calling, panicked>>
    BY <1>1 DEF walk
  <1>7. before' \in 0 .. placed'
    <2>1. placed \in Nat /\ before \in 0 .. placed
      BY <1>2, OrderFields DEF Types
    <2> QED
      BY <1>1, <1>6, <2>1
  <1> QED
    BY <1>1, <1>3, <1>4, <1>5, <1>6, <1>7 DEF Types, Accounts

LEMMA CancelTypes == Types /\ Cancel => Types'
  <1> SUFFICES ASSUME Types, NEW o \in Open, CancelOrder(o)
               PROVE  Types'
    BY DEF Cancel
  <1>1. /\ account' \in Accounts /\ bidOrders' \in Seq(Waiting("BUY")) /\ askOrders' \in Seq(Waiting("SELL"))
        /\ drift' = drift
    BY CancelParts
  <1>2. UNCHANGED <<setting, lastPrice, kline, nextKLine, path, busy, count, before, closed, calling, panicked,
                    placed>>
    BY DEF CancelOrder, walk
  <1>3. /\ Waiting("BUY")' = Waiting("BUY") /\ Waiting("SELL")' = Waiting("SELL") /\ Done' = Done
    BY <1>2 DEF Waiting, Done, Order
  <1> QED
    BY <1>1, <1>2, <1>3 DEF Types, Accounts

LEMMA MoveTypes == Types /\ Move => Types'
  <1> SUFFICES ASSUME Types, Move
               PROVE  Types'
    OBVIOUS
  <1>1. path \in Seq(Moves) /\ path # <<>> /\ MoveTo(Head(path)) /\ path' = Tail(path)
    BY DEF Types, Move
  <1>2. Head(path) \in Moves /\ path' \in Seq(Moves)
    BY <1>1, HeadTail
  <1>3. /\ bidOrders' \in Seq(Waiting("BUY")) /\ askOrders' \in Seq(Waiting("SELL"))
        /\ closed' \in Seq(Done) /\ lastPrice' = Head(path).to
    BY <1>1, <1>2, MoveParts
  <1>4. UNCHANGED <<setting, kline, nextKLine, busy, count, before, account, position, panicked, drift, placed>>
    BY DEF Move
  <1>5. calling' \in BOOLEAN
    BY DEF Move
  <1>6. lastPrice' \in Prices
    BY <1>2, <1>3 DEF Moves
  <1>7. /\ Waiting("BUY")' = Waiting("BUY") /\ Waiting("SELL")' = Waiting("SELL") /\ Done' = Done
    BY <1>4 DEF Waiting, Done, Order
  <1> QED
    BY <1>2, <1>3, <1>4, <1>5, <1>6, <1>7 DEF Types

LEMMA ExecuteTypes == Types /\ Execute => Types'
  <1> SUFFICES ASSUME Types, Execute
               PROVE  Types'
    OBVIOUS
  <1>1. account' \in Accounts /\ closed' \in Seq(Done)
    BY ExecuteParts
  <1>5. drift' \in Int
    <2> DEFINE o == Head(closed)
               p == ExecutedPrice(o)
               t == NewTradeFromOrder(o, p)
    <2>1. /\ o \in Order /\ p \in Nat
          /\ drift' = drift + FeeGap(t)
      <3> HIDE DEF o, p, t
      <3> QED
        BY ExecuteParts DEF o, p, t
    <2> HIDE DEF o, p
    <2>2. FeeGap(t) \in Int
      BY <2>1, GapType DEF Types
    <2>3. drift \in Int
      BY DEF Types
    <2> HIDE DEF t
    <2> QED
      BY <2>1, <2>2, <2>3
  <1>2. UNCHANGED <<setting, bidOrders, askOrders, lastPrice, kline, nextKLine, path, busy, count, before,
                    panicked, placed>>
    BY DEF Execute, books, walk
  <1>3. calling' \in BOOLEAN
    BY DEF Execute
  <1>4. /\ Waiting("BUY")' = Waiting("BUY") /\ Waiting("SELL")' = Waiting("SELL") /\ Done' = Done
    BY <1>2 DEF Waiting, Done, Order
  <1> QED
    BY <1>1, <1>2, <1>3, <1>4, <1>5 DEF Types, Accounts

(* The other steps change neither the books nor the account. *)
LEMMA QuietParts ==
    ASSUME Types, ConsumeKLine \/ ProcessKLine \/ Panic \/ UNCHANGED vars
    PROVE  /\ UNCHANGED <<setting, bidOrders, askOrders, closed, account, position, drift, placed>>
           /\ kline' \in KLines \cup {None} /\ nextKLine' \in {kline', None}
           /\ path' \in Seq(Moves) /\ lastPrice' \in Prices \cup {0} /\ count' \in 0 .. MaxKLines
           /\ calling' \in BOOLEAN /\ busy' \in BOOLEAN /\ panicked' \in BOOLEAN
           /\ before' \in 0 .. placed'
           /\ Directed(lastPrice, path) => Directed(lastPrice', path')
           /\ lastPrice # 0 => lastPrice' = lastPrice
  <1>1. /\ kline \in KLines \cup {None} /\ nextKLine \in {kline, None} /\ path \in Seq(Moves)
        /\ lastPrice \in Prices \cup {0} /\ count \in 0 .. MaxKLines
        /\ calling \in BOOLEAN /\ busy \in BOOLEAN /\ panicked \in BOOLEAN
        /\ before \in 0 .. placed /\ placed \in Nat
    BY OrderFields DEF Types
  <1>2. ASSUME NEW k \in KLines, FirstKLine(k)
        PROVE  /\ UNCHANGED <<setting, bidOrders, askOrders, closed, account, position, drift, placed>>
               /\ UNCHANGED <<nextKLine, path, lastPrice, count, before, busy, panicked>>
               /\ kline' = k /\ kline = None /\ calling' \in BOOLEAN
    BY <1>2 DEF FirstKLine, books
  <1>3. ASSUME NEW k \in KLines, CloseKLine(k)
        PROVE  /\ UNCHANGED <<setting, bidOrders, askOrders, closed, account, position, drift, placed>>
               /\ UNCHANGED <<path, lastPrice, count, before, panicked>>
               /\ kline' = k /\ nextKLine' = k /\ calling' \in BOOLEAN /\ busy' \in BOOLEAN
    BY <1>3 DEF CloseKLine, books
  <1>4. CASE ConsumeKLine
    <2>1. PICK k \in KLines : FirstKLine(k) \/ CloseKLine(k)
      BY <1>4 DEF ConsumeKLine
    <2>2. CASE FirstKLine(k)
      <3>1. nextKLine = None
        BY <1>1, <1>2, <2>2
      <3> QED
        BY <1>1, <1>2, <2>2, <3>1
    <2>3. CASE CloseKLine(k)
      BY <1>1, <1>3, <2>3
    <2> QED
      BY <2>1, <2>2, <2>3
  <1>5. CASE ProcessKLine
    <2>1. /\ UNCHANGED <<setting, bidOrders, askOrders, closed, account, position, drift, placed>>
          /\ UNCHANGED <<kline, nextKLine, panicked>>
          /\ kline # None /\ count < MaxKLines /\ count' = count + 1 /\ before' = placed
          /\ busy' \in BOOLEAN /\ calling' \in BOOLEAN
          /\ IF lastPrice = 0
             THEN lastPrice' = kline.open /\ path' = Path(kline)
             ELSE path' = <<ToOpen(kline)>> \o Path(kline) /\ UNCHANGED lastPrice
      BY <1>5 DEF ProcessKLine, books
    <2>2. kline \in KLines
      BY <1>1, <2>1
    <2>3. lastPrice \in Nat /\ MaxKLines \in Nat
      BY <1>1, MatchingAssumption
    <2>4. /\ Path(kline) \in Seq(Moves) /\ Directed(kline.open, Path(kline)) /\ kline.open \in Prices
          /\ <<ToOpen(kline)>> \o Path(kline) \in Seq(Moves)
          /\ Directed(lastPrice, <<ToOpen(kline)>> \o Path(kline))
      BY <2>2, <2>3, PathDirected DEF ToOpen
    <2>5. path' \in Seq(Moves) /\ lastPrice' \in Prices \cup {0} /\ Directed(lastPrice', path')
      <3>1. CASE lastPrice = 0
        BY <2>1, <2>4, <3>1
      <3>2. CASE lastPrice # 0
        BY <1>1, <2>1, <2>4, <3>2
      <3> QED
        BY <3>1, <3>2
    <2>6. count' \in 0 .. MaxKLines
      BY <1>1, <2>1, <2>3
    <2> QED
      BY <1>1, <2>1, <2>5, <2>6
  <1>6. CASE Panic
    <2>1. /\ UNCHANGED <<setting, bidOrders, askOrders, closed, account, position, drift, placed>>
          /\ UNCHANGED <<kline, nextKLine, path, lastPrice, count, before, busy, calling>> /\ panicked' \in BOOLEAN
      BY <1>6 DEF Panic, books, walk
    <2> QED
      BY <1>1, <2>1
  <1>7. CASE UNCHANGED vars
    <2>1. /\ UNCHANGED <<setting, bidOrders, askOrders, closed, account, position, drift, placed>>
          /\ UNCHANGED <<kline, nextKLine, path, lastPrice, count, before, busy, calling, panicked>>
      BY <1>7 DEF vars, books, walk
    <2> QED
      BY <1>1, <2>1
  <1> QED
    BY <1>4, <1>5, <1>6, <1>7

LEMMA QuietTypes == Types /\ (ConsumeKLine \/ ProcessKLine \/ Panic \/ UNCHANGED vars) => Types'
  <1> SUFFICES ASSUME Types, ConsumeKLine \/ ProcessKLine \/ Panic \/ UNCHANGED vars
               PROVE  Types'
    OBVIOUS
  <1>1. /\ UNCHANGED <<setting, bidOrders, askOrders, closed, account, position, drift, placed>>
        /\ kline' \in KLines \cup {None} /\ nextKLine' \in {kline', None}
        /\ path' \in Seq(Moves) /\ lastPrice' \in Prices \cup {0} /\ count' \in 0 .. MaxKLines
        /\ calling' \in BOOLEAN /\ busy' \in BOOLEAN /\ panicked' \in BOOLEAN
        /\ before' \in 0 .. placed'
    BY QuietParts
  <1>2. /\ Waiting("BUY")' = Waiting("BUY") /\ Waiting("SELL")' = Waiting("SELL") /\ Done' = Done
    BY <1>1 DEF Waiting, Done, Order
  <1> QED
    BY <1>1, <1>2 DEF Types

LEMMA TypesStep == Types /\ [Next]_vars => Types'
  BY PlaceTypes, CancelTypes, MoveTypes, ExecuteTypes, QuietTypes DEF Next

LEMMA TypesHold == Spec => []Types
  BY InitTypes, TypesStep, PTL DEF Spec

LEMMA TypesImply == Types => TypeOK
  <1> SUFFICES ASSUME Types
               PROVE  TypeOK
    OBVIOUS
  <1>1. /\ setting \in Settings /\ bidOrders \in Seq(Waiting("BUY")) /\ askOrders \in Seq(Waiting("SELL"))
        /\ closed \in Seq(Done) /\ path \in Seq(Moves) /\ Prices \subseteq Nat \ {0}
    BY MatchingAssumption DEF Types
  <1>2. /\ ToSet(bidOrders) \subseteq Waiting("BUY") /\ ToSet(askOrders) \subseteq Waiting("SELL")
        /\ ToSet(closed) \subseteq Done
    BY <1>1, Elements
  <1>3. \A o \in Open \cup ToSet(closed) : o \in Order
    BY <1>2 DEF Open, Waiting, Done
  <1>4. \A o \in ToSet(bidOrders) : o.side = "BUY" /\ ~o.filled
    BY <1>2 DEF Waiting
  <1>5. \A o \in ToSet(askOrders) : o.side = "SELL" /\ ~o.filled
    BY <1>2 DEF Waiting
  <1>6. \A o \in ToSet(closed) : o.filled /\ ~IsStop(o.type) /\ o.price # 0
    BY <1>1, <1>2 DEF Done
  <1>7. \A i \in DOMAIN path : path[i] \in [up : BOOLEAN, to : Prices]
    BY <1>1, Elements DEF Moves
  <1>8. {calling, busy, panicked} \subseteq BOOLEAN
    <2>1. calling \in BOOLEAN /\ busy \in BOOLEAN /\ panicked \in BOOLEAN
      BY DEF Types
    <2> QED
      BY <2>1, Zenon
  <1> QED
    BY <1>1, <1>3, <1>4, <1>5, <1>6, <1>7, <1>8 DEF Types, TypeOK

(* The orders, the moves of the price, the balances and the counters stay what
   the code's types make of them: a waiting order has the prices of its type,
   a closed one is filled and no stop order any more, and no step makes a
   locked balance negative (which is where UseLockedBalance panics). *)
THEOREM TypeCorrect == Spec => []TypeOK
  BY TypesHold, TypesImply, PTL

-----------------------------------------------------------------------------
(***************************************************************************)
(* The account and the position                                            *)
(***************************************************************************)
(* What a trade moves in a position: the averaging of the cost and the profit
   touch neither amount. *)
LEMMA AddTradeMoves ==
    ASSUME NEW p, {"base", "quote"} \subseteq DOMAIN p, p.base \in Int, p.quote \in Int,
           NEW t, t.side \in {"BUY", "SELL"}, BaseOf(t) \in Int, QuoteOf(t) \in Int
    PROVE  LET n == AddTrade(p, t)
           IN  /\ {"base", "quote"} \subseteq DOMAIN n /\ n.base \in Int /\ n.quote \in Int
               /\ t.side = "BUY" => n.base = p.base + BaseOf(t) /\ n.quote = p.quote - QuoteOf(t)
               /\ t.side = "SELL" => n.base = p.base - BaseOf(t) /\ n.quote = p.quote + QuoteOf(t)
  <1> DEFINE side == IF t.side = "BUY" THEN 1 ELSE -1
             next == IF p.base = 0 \/ Sign(p.base) = side THEN Enlarge(p, t) ELSE Reduce(p, t)
             b == BaseOf(t)
             q == QuoteOf(t)
  <1>1. AddTrade(p, t) = [next EXCEPT !.base = @ + side * b, !.quote = @ - side * q]
    BY DEF AddTrade
  <1>2. \A v : LET n == [p EXCEPT !.cost = v]
               IN  DOMAIN n = DOMAIN p /\ n.base = p.base /\ n.quote = p.quote
    OBVIOUS
  <1>3. \A v, w : LET n == [p EXCEPT !.profit = v, !.cost = w]
                  IN  DOMAIN n = DOMAIN p /\ n.base = p.base /\ n.quote = p.quote
    OBVIOUS
  <1>4. DOMAIN next = DOMAIN p /\ next.base = p.base /\ next.quote = p.quote
    <2>1. DOMAIN Enlarge(p, t) = DOMAIN p /\ Enlarge(p, t).base = p.base /\ Enlarge(p, t).quote = p.quote
      BY <1>2 DEF Enlarge
    <2>2. DOMAIN Reduce(p, t) = DOMAIN p /\ Reduce(p, t).base = p.base /\ Reduce(p, t).quote = p.quote
      <3> DEFINE turns == BaseOf(t) > Abs(p.base)
                 covered == IF turns THEN Abs(p.base) ELSE BaseOf(t)
                 margin == Plus(<<t.price, 1>>, Times(p.cost, -1))
                 v == Plus(p.profit, Times(margin, Sign(p.base) * covered))
                 w == IF turns THEN <<t.price, 1>> ELSE p.cost
      <3>1. Reduce(p, t) = [p EXCEPT !.profit = v, !.cost = IF turns THEN <<t.price, 1>> ELSE @]
        BY DEF Reduce
      <3>2. Reduce(p, t) = [p EXCEPT !.profit = v, !.cost = w]
        BY <3>1
      <3> HIDE DEF v, w
      <3> QED
        BY <1>3, <3>2
    <2> QED
      BY <2>1, <2>2
  <1> HIDE DEF next, b, q
  <1>5. side = IF t.side = "BUY" THEN 1 ELSE -1
    OBVIOUS
  <1>6. /\ DOMAIN AddTrade(p, t) = DOMAIN p
        /\ AddTrade(p, t).base = p.base + side * b /\ AddTrade(p, t).quote = p.quote - side * q
    BY <1>1, <1>4
  <1>7. b \in Int /\ q \in Int
    BY DEF b, q
  <1>8. CASE t.side = "BUY"
    <2>1. side * b = b /\ side * q = q
      BY <1>7, <1>8
    <2> HIDE DEF side
    <2> QED
      BY <1>6, <1>7, <1>8, <2>1 DEF b, q
  <1>9. CASE t.side = "SELL"
    <2>1. side * b = -b /\ side * q = -q
      BY <1>7, <1>9
    <2> HIDE DEF side
    <2>2. p.base + side * b = p.base - b /\ p.quote - side * q = p.quote + q
      BY <1>7, <2>1
    <2> QED
      BY <1>6, <1>7, <1>9, <2>2 DEF b, q
  <1> QED
    BY <1>8, <1>9

(* What the position takes for a trade is what the account is paid, but for
   the fee in the quote currency of a buy trade. *)
LEMMA TradeMoves ==
    ASSUME setting \in Settings, NEW o \in Order, NEW price \in Nat
    PROVE  LET t == NewTradeFromOrder(o, price)
           IN  /\ t.side \in {"BUY", "SELL"} /\ t.side = o.side
               /\ BaseOf(t) \in Int /\ QuoteOf(t) \in Int
               /\ BaseOf(t) = o.quantity - FeeIn(t, "BASE")
               /\ QuoteOf(t) = o.quantity * price - FeeIn(t, "QUOTE")
               /\ o.side = "SELL" => FeeIn(t, "BASE") = 0
               /\ o.side = "BUY" /\ setting.feeMode # "QUOTE" => FeeIn(t, "QUOTE") = 0
  <1> DEFINE t == NewTradeFromOrder(o, price)
             qq == o.quantity * price
  <1>1. o.side \in {"BUY", "SELL"} /\ o.quantity \in Nat
    BY OrderFields
  <1>2. qq \in Nat
    BY <1>1
  <1> HIDE DEF t
  <1>3. /\ t.side = o.side /\ t.quantity = o.quantity /\ t.quoteQuantity = o.quantity * price
        /\ t.fee \in Nat /\ t.feeCurrency \in {"BASE", "QUOTE", "FEE"}
        /\ t.feeCurrency = "BASE" => t.side = "BUY"
        /\ t.feeCurrency = "QUOTE" => (t.side = "BUY" => setting.feeMode = "QUOTE")
        /\ FeeIn(t, "BASE") \in Nat /\ FeeIn(t, "QUOTE") \in Nat
    BY TradeFields DEF t
  <1>4. t.quoteQuantity = qq
    BY <1>3
  <1> HIDE DEF qq
  <1>5. BaseOf(t) = o.quantity - FeeIn(t, "BASE") /\ QuoteOf(t) = qq - FeeIn(t, "QUOTE")
    BY <1>3, <1>4 DEF BaseOf, QuoteOf, FeeIn
  <1>6. /\ o.side = "SELL" => FeeIn(t, "BASE") = 0
        /\ o.side = "BUY" /\ setting.feeMode # "QUOTE" => FeeIn(t, "QUOTE") = 0
    BY <1>3 DEF FeeIn
  <1>7. BaseOf(t) \in Int /\ QuoteOf(t) \in Int
    BY <1>1, <1>2, <1>3, <1>5
  <1> QED
    BY <1>1, <1>3, <1>5, <1>6, <1>7 DEF t, qq

PositionOK == {"base", "quote"} \subseteq DOMAIN position /\ position.base \in Int /\ position.quote \in Int

Matched == PositionOK /\ BalancesMatchPosition

LEMMA TotalsInt ==
    ASSUME Types
    PROVE  /\ Total(account.BASE) \in Int /\ Total(account.QUOTE) \in Int
           /\ BaseFund \in Int /\ QuoteFund \in Int
           /\ account \in Accounts /\ setting \in Settings /\ lastPrice \in Prices \cup {0}
           /\ account.BASE.available \in Int /\ account.BASE.locked \in Int
           /\ account.QUOTE.available \in Int /\ account.QUOTE.locked \in Int
           /\ setting.feeMode \in {"QUOTE", "NATIVE", "TOKEN"}
  <1>1. account \in Accounts /\ setting \in Settings /\ lastPrice \in Prices \cup {0}
    BY DEF Types, Accounts
  <1>2. BaseFund \in Int /\ QuoteFund \in Int
    BY MatchingAssumption
  <1> QED
    BY <1>1, <1>2, Balances, OrderFields DEF Total

LEMMA InitMatched == Init => Matched
  <1> SUFFICES ASSUME Init
               PROVE  Matched
    OBVIOUS
  <1>1. BaseFund \in Nat /\ QuoteFund \in Nat
    BY MatchingAssumption
  <1>2. /\ account.BASE = NewBalance(BaseFund) /\ account.QUOTE = NewBalance(QuoteFund)
        /\ position = NewPosition
    BY DEF Init
  <1>3. /\ account.BASE.available = BaseFund /\ account.BASE.locked = 0
        /\ account.QUOTE.available = QuoteFund /\ account.QUOTE.locked = 0
    BY <1>2 DEF NewBalance
  <1>4. Total(account.BASE) = BaseFund /\ Total(account.QUOTE) = QuoteFund
    BY <1>1, <1>3 DEF Total
  <1>5. {"base", "quote"} \subseteq DOMAIN position /\ position.base = 0 /\ position.quote = 0
    BY <1>2 DEF NewPosition
  <1>6. drift = 0
    BY DEF Init
  <1> QED
    BY <1>1, <1>4, <1>5, <1>6 DEF Matched, PositionOK, BalancesMatchPosition

LEMMA PlaceMatched == Types /\ Matched /\ Place => Matched'
  <1> SUFFICES ASSUME Types, Matched, Place
               PROVE  Matched'
    OBVIOUS
  <1>1. PICK o \in Order :
            /\ o.side \in {"BUY", "SELL"}
            /\ \/ Taker(o) /\ Take(o)
               \/ o.type # "MARKET" /\ ~IsLimitTaker(o) /\ o \in Waiting(o.side) /\ Rest(o)
            /\ UNCHANGED <<setting, lastPrice, walk, closed, calling, panicked>>
    BY PlaceParts
  <1>2. /\ Total(account.BASE) \in Int /\ Total(account.QUOTE) \in Int
        /\ BaseFund \in Int /\ QuoteFund \in Int
        /\ account \in Accounts /\ setting \in Settings /\ lastPrice \in Prices \cup {0}
        /\ account.BASE.available \in Int /\ account.BASE.locked \in Int
        /\ account.QUOTE.available \in Int /\ account.QUOTE.locked \in Int
    BY TotalsInt
  <1>3. /\ PositionOK
        /\ Total(account.BASE) = BaseFund + position.base
        /\ Total(account.QUOTE) = QuoteFund + position.quote + drift
        /\ drift \in Int
    BY DEF Matched, BalancesMatchPosition, Types
  <1>5. CASE Taker(o) /\ Take(o)
    <2> DEFINE p == TakenPrice(o)
               t == TakenTrade(o)
               q == o.quantity
               fb == FeeIn(t, "BASE")
               fq == FeeIn(t, "QUOTE")
               extra == Extra(o)
               qp == q * p
    <2>1. /\ position' = AddTrade(position, t)
          /\ o.side = "BUY" => /\ Total(account'.BASE) = Total(account.BASE) + q - fb
                               /\ Total(account'.QUOTE) = Total(account.QUOTE) - qp - fq
          /\ o.side = "SELL" => /\ Total(account'.BASE) = Total(account.BASE) - q - fb
                                /\ Total(account'.QUOTE) = Total(account.QUOTE) + qp - fq + extra
          /\ extra \in Int /\ drift' = drift + FeeGap(t) + extra
      <3> HIDE DEF p, t, extra
      <3> QED
        BY <1>2, <1>5, TakeAccount DEF p, t, extra
    <2>2. /\ p \in Nat /\ q \in Nat /\ TakenOrder(o) \in Order
          /\ TakenOrder(o).side = o.side /\ TakenOrder(o).quantity = q
      BY <1>2, <1>5, TakenFields
    <2>3. /\ t.side = o.side /\ BaseOf(t) \in Int /\ QuoteOf(t) \in Int
          /\ BaseOf(t) = q - fb /\ QuoteOf(t) = qp - fq
          /\ o.side = "SELL" => fb = 0
          /\ fb \in Nat /\ fq \in Nat
      <3> DEFINE r == TakenOrder(o)
                 w == NewTradeFromOrder(r, p)
      <3>1. t = w
        BY DEF TakenTrade
      <3> HIDE DEF p, r, t
      <3>2. r \in Order /\ r.side = o.side /\ r.quantity = q /\ p \in Nat
        BY <2>2 DEF r
      <3>3. /\ w.side = r.side /\ BaseOf(w) \in Int /\ QuoteOf(w) \in Int
            /\ BaseOf(w) = r.quantity - FeeIn(w, "BASE") /\ QuoteOf(w) = r.quantity * p - FeeIn(w, "QUOTE")
            /\ r.side = "SELL" => FeeIn(w, "BASE") = 0
        BY <1>2, <3>2, TradeMoves
      <3>4. FeeIn(w, "BASE") \in Nat /\ FeeIn(w, "QUOTE") \in Nat
        BY <1>2, <3>2, TradeFields
      <3> HIDE DEF w
      <3> QED
        BY <3>1, <3>2, <3>3, <3>4
    <2>4. qp \in Nat
      BY <2>2
    <2>5. FeeGap(t) = (IF o.side = "BUY" THEN -2 * fq ELSE 0) /\ (o.side = "BUY" => extra = 0)
      <3> HIDE DEF t
      <3> QED
        BY <2>3 DEF FeeGap, Extra
    <2> HIDE DEF p, t, q, fb, fq, extra, qp
    <2>6. /\ PositionOK'
          /\ o.side = "BUY" => position'.base = position.base + BaseOf(t) /\ position'.quote = position.quote - QuoteOf(t)
          /\ o.side = "SELL" => position'.base = position.base - BaseOf(t) /\ position'.quote = position.quote + QuoteOf(t)
      BY <1>1, <1>3, <2>1, <2>3, AddTradeMoves DEF PositionOK
    <2>7. position.base \in Int /\ position.quote \in Int
      BY <1>3 DEF PositionOK
    <2>8. Total(account'.BASE) = BaseFund + position'.base
      BY <1>1, <1>2, <1>3, <2>1, <2>2, <2>3, <2>6, <2>7 DEF q
    <2>9. Total(account'.QUOTE) = QuoteFund + position'.quote + drift'
      <3>1. CASE o.side = "BUY"
        <4>1. /\ Total(account'.QUOTE) = Total(account.QUOTE) - qp - fq
              /\ position'.quote = position.quote - (qp - fq)
              /\ drift' = drift - 2 * fq
          BY <1>3, <2>1, <2>3, <2>5, <2>6, <3>1
        <4> QED
          BY <1>2, <1>3, <2>3, <2>4, <2>7, <4>1
      <3>2. CASE o.side = "SELL"
        <4>1. /\ Total(account'.QUOTE) = Total(account.QUOTE) + qp - fq + extra
              /\ position'.quote = position.quote + (qp - fq)
              /\ drift' = drift + extra
          BY <1>3, <2>1, <2>3, <2>5, <2>6, <3>2
        <4>2. extra \in Int /\ fq \in Nat
          BY <2>1, <2>3
        <4> QED
          BY <1>2, <1>3, <2>4, <2>7, <4>1, <4>2
      <3> QED
        BY <1>1, <3>1, <3>2
    <2> QED
      BY <2>6, <2>8, <2>9 DEF Matched, BalancesMatchPosition
  <1>6. CASE o.type # "MARKET" /\ ~IsLimitTaker(o) /\ o \in Waiting(o.side) /\ Rest(o)
    <2> DEFINE fund == Reserve(o.side, o.quantity, CheckedPrice(o))
    <2>1. /\ fund \in Nat /\ position' = position /\ drift' = drift
          /\ o.side = "BUY" => /\ account'.QUOTE.locked = account.QUOTE.locked + fund
                               /\ account'.QUOTE.available = account.QUOTE.available - fund
                               /\ account'.BASE = account.BASE
          /\ o.side = "SELL" => /\ account'.BASE.locked = account.BASE.locked + fund
                                /\ account'.BASE.available = account.BASE.available - fund
                                /\ account'.QUOTE = account.QUOTE
      <3>1. bidOrders \in Seq(Waiting("BUY")) /\ askOrders \in Seq(Waiting("SELL"))
        BY DEF Types
      <3> QED
        BY <1>2, <1>6, <3>1, RestParts
    <2> HIDE DEF fund
    <2>2. Total(account'.BASE) = Total(account.BASE) /\ Total(account'.QUOTE) = Total(account.QUOTE)
      BY <1>1, <1>2, <2>1 DEF Total
    <2> QED
      BY <1>3, <2>1, <2>2 DEF Matched, PositionOK, BalancesMatchPosition
  <1> QED
    BY <1>1, <1>5, <1>6

LEMMA CancelMatched == Types /\ Matched /\ Cancel => Matched'
  <1> SUFFICES ASSUME Types, Matched, NEW o \in Open, CancelOrder(o)
               PROVE  Matched'
    BY DEF Cancel
  <1>1. /\ account.BASE.available \in Int /\ account.BASE.locked \in Int
        /\ account.QUOTE.available \in Int /\ account.QUOTE.locked \in Int
    BY TotalsInt
  <1> DEFINE fund == Reserve(o.side, o.quantity, o.price)
  <1>2. /\ fund \in Nat /\ position' = position /\ drift' = drift /\ o.side \in {"BUY", "SELL"}
        /\ o.side = "BUY" =>
               /\ account'.BASE = account.BASE
               /\ IF fund <= account.QUOTE.locked
                  THEN /\ account'.QUOTE.locked = account.QUOTE.locked - fund
                       /\ account'.QUOTE.available = account.QUOTE.available + fund
                  ELSE account'.QUOTE = account.QUOTE
        /\ o.side = "SELL" =>
               /\ account'.QUOTE = account.QUOTE
               /\ IF fund <= account.BASE.locked
                  THEN /\ account'.BASE.locked = account.BASE.locked - fund
                       /\ account'.BASE.available = account.BASE.available + fund
                  ELSE account'.BASE = account.BASE
    BY CancelParts
  <1> HIDE DEF fund
  <1>3. Total(account'.BASE) = Total(account.BASE) /\ Total(account'.QUOTE) = Total(account.QUOTE)
    BY <1>1, <1>2 DEF Total
  <1> QED
    BY <1>2, <1>3 DEF Matched, PositionOK, BalancesMatchPosition

LEMMA ExecuteMatched == Types /\ Matched /\ Execute => Matched'
  <1> SUFFICES ASSUME Types, Matched, Execute
               PROVE  Matched'
    OBVIOUS
  <1>1. /\ Total(account.BASE) \in Int /\ Total(account.QUOTE) \in Int
        /\ BaseFund \in Int /\ QuoteFund \in Int /\ setting \in Settings
        /\ account.BASE.available \in Int /\ account.BASE.locked \in Int
        /\ account.QUOTE.available \in Int /\ account.QUOTE.locked \in Int
    BY TotalsInt
  <1>2. /\ PositionOK
        /\ Total(account.BASE) = BaseFund + position.base
        /\ Total(account.QUOTE) = QuoteFund + position.quote + drift
        /\ drift \in Int
    BY DEF Matched, BalancesMatchPosition, Types
  <1> DEFINE o == Head(closed)
             p == ExecutedPrice(o)
             t == NewTradeFromOrder(o, p)
             q == o.quantity
             fb == FeeIn(t, "BASE")
             fq == FeeIn(t, "QUOTE")
             qp == q * p
  <1>3. /\ o \in Order /\ p \in Nat /\ q \in Nat /\ o.side \in {"BUY", "SELL"}
        /\ position' = AddTrade(position, t) /\ fb \in Nat /\ fq \in Nat /\ drift' = drift + FeeGap(t)
        /\ o.side = "BUY" =>
               /\ account'.QUOTE.locked = account.QUOTE.locked - qp
               /\ account'.QUOTE.available = account.QUOTE.available - fq
               /\ account'.BASE.locked = account.BASE.locked
               /\ account'.BASE.available = account.BASE.available + q - fb
        /\ o.side = "SELL" =>
               /\ account'.QUOTE.locked = account.QUOTE.locked
               /\ account'.QUOTE.available = account.QUOTE.available + qp - fq
               /\ account'.BASE.locked = account.BASE.locked - q
               /\ account'.BASE.available = account.BASE.available - fb
    <2> HIDE DEF o, p, t
    <2> QED
      BY ExecuteParts DEF o, p, t
  <1> HIDE DEF o, p
  <1>4. /\ t.side = o.side /\ BaseOf(t) \in Int /\ QuoteOf(t) \in Int
        /\ BaseOf(t) = q - fb /\ QuoteOf(t) = qp - fq
        /\ o.side = "SELL" => fb = 0
    BY <1>1, <1>3, TradeMoves
  <1>5. qp \in Nat
    BY <1>3
  <1> HIDE DEF t, q, fb, fq, qp
  <1>6. /\ PositionOK'
        /\ o.side = "BUY" => position'.base = position.base + BaseOf(t) /\ position'.quote = position.quote - QuoteOf(t)
        /\ o.side = "SELL" => position'.base = position.base - BaseOf(t) /\ position'.quote = position.quote + QuoteOf(t)
    BY <1>2, <1>3, <1>4, AddTradeMoves DEF PositionOK
  <1>7. position.base \in Int /\ position.quote \in Int
    BY <1>2 DEF PositionOK
  <1>8. /\ o.side = "BUY" => /\ Total(account'.BASE) = Total(account.BASE) + q - fb
                             /\ Total(account'.QUOTE) = Total(account.QUOTE) - qp - fq
        /\ o.side = "SELL" => /\ Total(account'.BASE) = Total(account.BASE) - q - fb
                              /\ Total(account'.QUOTE) = Total(account.QUOTE) + qp - fq
    BY <1>1, <1>3, <1>5 DEF Total
  <1>9. Total(account'.BASE) = BaseFund + position'.base
    BY <1>1, <1>2, <1>3, <1>4, <1>6, <1>7, <1>8
  <1>10. FeeGap(t) = IF o.side = "BUY" THEN -2 * fq ELSE 0
    BY <1>4 DEF FeeGap, fq
  <1>11. Total(account'.QUOTE) = QuoteFund + position'.quote + drift'
    <2>1. CASE o.side = "BUY"
      <3>1. /\ Total(account'.QUOTE) = Total(account.QUOTE) - qp - fq
            /\ position'.quote = position.quote - (qp - fq)
            /\ drift' = drift - 2 * fq
        BY <1>2, <1>3, <1>4, <1>6, <1>8, <1>10, <2>1
      <3> QED
        BY <1>1, <1>2, <1>3, <1>5, <1>7, <3>1
    <2>2. CASE o.side = "SELL"
      <3>1. /\ Total(account'.QUOTE) = Total(account.QUOTE) + qp - fq
            /\ position'.quote = position.quote + (qp - fq)
            /\ drift' = drift
        BY <1>2, <1>3, <1>4, <1>6, <1>8, <1>10, <2>2
      <3> QED
        BY <1>1, <1>2, <1>3, <1>5, <1>7, <3>1
    <2> QED
      BY <1>3, <2>1, <2>2
  <1> QED
    BY <1>6, <1>9, <1>11 DEF Matched, BalancesMatchPosition

LEMMA MatchedStep == Types /\ Matched /\ [Next]_vars => Matched'
  <1> SUFFICES ASSUME Types, Matched, [Next]_vars
               PROVE  Matched'
    OBVIOUS
  <1>1. CASE Move
    <2>1. UNCHANGED <<setting, account, position, drift>>
      BY <1>1 DEF Move
    <2> QED
      BY <2>1 DEF Matched, PositionOK, BalancesMatchPosition
  <1>2. CASE ConsumeKLine \/ ProcessKLine \/ Panic \/ UNCHANGED vars
    <2>1. UNCHANGED <<setting, account, position, drift>>
      BY <1>2, QuietParts
    <2> QED
      BY <2>1 DEF Matched, PositionOK, BalancesMatchPosition
  <1> QED
    BY <1>1, <1>2, PlaceMatched, CancelMatched, ExecuteMatched DEF Next

(* The account and the strategy's position agree on what was gained of the base
   currency, and differ in the quote currency by what drift counts and by nothing
   else, in every fee mode and however orders are placed, taken, cancelled and
   executed: each amount that is locked, used, unlocked, paid or charged on the
   one side is booked on the other, but the two the code treats differently. *)
THEOREM BalancesMatch == Spec => []BalancesMatchPosition
  <1>1. Matched => BalancesMatchPosition
    BY DEF Matched
  <1> QED
    BY <1>1, InitMatched, MatchedStep, TypesHold, PTL DEF Spec

-----------------------------------------------------------------------------
(***************************************************************************)
(* The profit is exact                                                     *)
(***************************************************************************)
Frac == Int \X (Nat \ {0})

LEMMA Divides ==
    ASSUME NEW n \in Int, NEW g \in Nat \ {0}, n % g = 0
    PROVE  n = g * (n \div g) /\ n \div g \in Int
  OBVIOUS

LEMMA ReducedIs ==
    ASSUME NEW n \in Int, NEW d \in Nat \ {0}
    PROVE  Reduced(n, d) \in Frac /\ Equal(Reduced(n, d), <<n, d>>)
  <1> DEFINE D == {k \in 1..d : n % k = 0 /\ d % k = 0}
             g == Max(D)
  <1>1. n % 1 = 0 /\ d % 1 = 0
    OBVIOUS
  <1>2. 1 \in D /\ D \in SUBSET (0 .. d)
    BY <1>1
  <1>3. g \in D
    <2> HIDE DEF D
    <2>1. PICK k \in D : \A j \in D : j <= k
      BY <1>2, GreatestNat
    <2>2. \A j \in D : k >= j
      BY <1>2, <2>1
    <2> QED
      BY <2>2 DEF Max
  <1>4. g \in Nat \ {0} /\ n % g = 0 /\ d % g = 0
    <2> HIDE DEF g
    <2> QED
      BY <1>3
  <1>5. Reduced(n, d) = <<n \div g, d \div g>>
    BY DEF Reduced
  <1> HIDE DEF D, g
  <1> DEFINE a == n \div g
             b == d \div g
  <1>6. n = g * a /\ a \in Int /\ d = g * b /\ b \in Int
    BY <1>4, Divides
  <1>7. Reduced(n, d) = <<a, b>>
    BY <1>5
  <1> HIDE DEF a, b
  <1>8. b > 0
    <2>1. CASE b <= 0
      <3>1. g * b <= 0
        BY <1>4, <1>6, <2>1
      <3> QED
        BY <1>6, <3>1
    <2> QED
      BY <1>6, <2>1
  <1>9. a * d = n * b
    <2>1. a * (g * b) = (g * a) * b
      BY <1>4, <1>6
    <2> QED
      BY <1>6, <2>1
  <1> QED
    BY <1>6, <1>7, <1>8, <1>9 DEF Frac, Equal

(* x is the fraction n / d. *)
Is(x, n, d) == x \in Frac /\ n \in Int /\ d \in Nat \ {0} /\ x[1] * d = n * x[2]

LEMMA FracParts ==
    ASSUME NEW x \in Frac
    PROVE  x[1] \in Int /\ x[2] \in Nat \ {0} /\ x[2] \in Int /\ Is(x, x[1], x[2])
  BY DEF Frac, Is

LEMMA WholeIs ==
    ASSUME NEW n \in Int
    PROVE  <<n, 1>> \in Frac /\ Is(<<n, 1>>, n, 1)
  BY DEF Frac, Is

LEMMA Cancel0 ==
    ASSUME NEW d \in Nat \ {0}, NEW x \in Int, NEW y \in Int, d * x = d * y
    PROVE  x = y
  OBVIOUS

(* Reduced(n, d) is what n / d is. *)
LEMMA StillIs ==
    ASSUME NEW n \in Int, NEW d \in Nat \ {0}, NEW m \in Int, NEW e \in Nat \ {0}, n * e = m * d
    PROVE  Is(Reduced(n, d), m, e)
  <1> DEFINE r == Reduced(n, d)
  <1>1. r \in Frac /\ r[1] * d = n * r[2]
    BY ReducedIs DEF Equal
  <1> HIDE DEF r
  <1>2. r[1] \in Int /\ r[2] \in Int
    BY <1>1, FracParts
  <1> DEFINE a == r[1]  b == r[2]
  <1>3. a \in Int /\ b \in Int /\ a * d = n * b
    BY <1>1, <1>2
  <1> HIDE DEF a, b
  <1>4. d * (a * e) = d * (m * b)
    <2>1. d * (a * e) = (a * d) * e
      BY <1>3
    <2>2. (n * b) * e = (n * e) * b
      BY <1>3
    <2>3. (m * d) * b = d * (m * b)
      BY <1>3
    <2> QED
      BY <1>3, <2>1, <2>2, <2>3
  <1>5. a * e = m * b
    BY <1>3, <1>4, Cancel0
  <1> QED
    BY <1>1, <1>5 DEF Is, r, a, b

LEMMA PlusIs ==
    ASSUME NEW a, NEW b, NEW n, NEW d, NEW m, NEW e, Is(a, n, d), Is(b, m, e)
    PROVE  Is(Plus(a, b), n * e + m * d, d * e)
  <1> DEFINE p == a[1]  q == a[2]  r == b[1]  s == b[2]
  <1>1. /\ p \in Int /\ q \in Nat \ {0} /\ r \in Int /\ s \in Nat \ {0}
        /\ n \in Int /\ d \in Nat \ {0} /\ m \in Int /\ e \in Nat \ {0}
        /\ p * d = n * q /\ r * e = m * s
    BY FracParts DEF Is
  <1>2. Plus(a, b) = Reduced(p * s + r * q, q * s)
    BY DEF Plus
  <1> HIDE DEF p, q, r, s
  <1>3. (p * s + r * q) * (d * e) = (n * e + m * d) * (q * s)
    <2>1. (p * s + r * q) * (d * e) = (p * d) * (s * e) + (r * e) * (q * d)
      BY <1>1
    <2>2. (n * e + m * d) * (q * s) = (n * q) * (s * e) + (m * s) * (q * d)
      BY <1>1
    <2> QED
      BY <1>1, <2>1, <2>2
  <1>4. p * s + r * q \in Int /\ q * s \in Nat \ {0} /\ n * e + m * d \in Int /\ d * e \in Nat \ {0}
    BY <1>1
  <1> QED
    BY <1>2, <1>3, <1>4, StillIs

LEMMA TimesIs ==
    ASSUME NEW a, NEW n, NEW d, Is(a, n, d), NEW k \in Int
    PROVE  Is(Times(a, k), n * k, d)
  <1> DEFINE p == a[1]  q == a[2]
  <1>1. /\ p \in Int /\ q \in Nat \ {0} /\ n \in Int /\ d \in Nat \ {0} /\ p * d = n * q
    BY FracParts DEF Is
  <1>2. Times(a, k) = Reduced(p * k, q)
    BY DEF Times
  <1> HIDE DEF p, q
  <1>3. (p * k) * d = (n * k) * q
    <2>1. (p * k) * d = (p * d) * k /\ (n * k) * q = (n * q) * k
      BY <1>1
    <2> QED
      BY <1>1, <2>1
  <1>4. p * k \in Int /\ n * k \in Int
    BY <1>1
  <1> QED
    BY <1>1, <1>2, <1>3, <1>4, StillIs

LEMMA OverIs ==
    ASSUME NEW a, NEW n, NEW d, Is(a, n, d), NEW k \in Nat \ {0}
    PROVE  Is(Over(a, k), n, d * k)
  <1> DEFINE p == a[1]  q == a[2]
  <1>1. /\ p \in Int /\ q \in Nat \ {0} /\ n \in Int /\ d \in Nat \ {0} /\ p * d = n * q
    BY FracParts DEF Is
  <1>2. Over(a, k) = Reduced(p, q * k)
    BY DEF Over
  <1> HIDE DEF p, q
  <1>3. p * (d * k) = n * (q * k)
    <2>1. p * (d * k) = (p * d) * k /\ n * (q * k) = (n * q) * k
      BY <1>1
    <2> QED
      BY <1>1, <2>1
  <1>4. q * k \in Nat \ {0} /\ d * k \in Nat \ {0}
    BY <1>1
  <1> QED
    BY <1>1, <1>2, <1>3, <1>4, StillIs

LEMMA SameIs ==
    ASSUME NEW a, NEW b, NEW n, NEW d, NEW m, NEW e, Is(a, n, d), Is(b, m, e), n * e = m * d
    PROVE  Equal(a, b)
  <1> DEFINE p == a[1]  q == a[2]  r == b[1]  s == b[2]
  <1>1. /\ p \in Int /\ q \in Nat \ {0} /\ r \in Int /\ s \in Nat \ {0}
        /\ n \in Int /\ d \in Nat \ {0} /\ m \in Int /\ e \in Nat \ {0}
        /\ p * d = n * q /\ r * e = m * s
    BY FracParts DEF Is
  <1>2. Equal(a, b) = (p * s = r * q)
    BY DEF Equal
  <1> HIDE DEF p, q, r, s
  <1>3. (d * e) * (p * s) = (d * e) * (r * q)
    <2>1. (d * e) * (p * s) = (p * d) * (e * s)
      BY <1>1
    <2>2. (d * e) * (r * q) = (r * e) * (d * q)
      BY <1>1
    <2>3. (n * q) * (e * s) = (n * e) * (q * s) /\ (m * s) * (d * q) = (m * d) * (q * s)
      BY <1>1
    <2> QED
      BY <1>1, <2>1, <2>2, <2>3
  <1>4. d * e \in Nat \ {0} /\ p * s \in Int /\ r * q \in Int
    BY <1>1
  <1> QED
    BY <1>2, <1>3, <1>4, Cancel0

LEMMA EqualIs ==
    ASSUME NEW a, NEW b, NEW n, NEW d, NEW m, NEW e, Is(a, n, d), Is(b, m, e), Equal(a, b)
    PROVE  n * e = m * d
  <1> DEFINE p == a[1]  q == a[2]  r == b[1]  s == b[2]
  <1>1. /\ p \in Int /\ q \in Nat \ {0} /\ r \in Int /\ s \in Nat \ {0}
        /\ n \in Int /\ d \in Nat \ {0} /\ m \in Int /\ e \in Nat \ {0}
        /\ p * d = n * q /\ r * e = m * s
    BY FracParts DEF Is
  <1>2. p * s = r * q
    BY DEF Equal
  <1> HIDE DEF p, q, r, s
  <1>3. (q * s) * (n * e) = (q * s) * (m * d)
    <2>1. (q * s) * (n * e) = (n * q) * (e * s)
      BY <1>1
    <2>2. (q * s) * (m * d) = (m * s) * (d * q)
      BY <1>1
    <2>3. (p * d) * (e * s) = (p * s) * (d * e) /\ (r * e) * (d * q) = (r * q) * (d * e)
      BY <1>1
    <2> QED
      BY <1>1, <1>2, <2>1, <2>2, <2>3
  <1>4. q * s \in Nat \ {0} /\ n * e \in Int /\ m * d \in Int
    BY <1>1
  <1> QED
    BY <1>3, <1>4, Cancel0

Positions == [base : Int, quote : Int, cost : Frac, profit : Frac]

Exact(p) == Equal(p.profit, Worth(p))

LEMMA SignedAbs ==
    ASSUME NEW b \in Int
    PROVE  \/ b < 0 /\ Sign(b) = -1 /\ Abs(b) = -b /\ Abs(b) \in Nat
           \/ b >= 0 /\ Sign(b) = 1 /\ Abs(b) = b /\ Abs(b) \in Nat
  BY DEF Abs, Sign

LEMMA WorthIs ==
    ASSUME NEW p \in Positions, NEW c, NEW d, Is(p.cost, c, d)
    PROVE  Is(Worth(p), p.quote * d + c * p.base, d)
  <1>1. p.base \in Int /\ p.quote \in Int /\ c \in Int /\ d \in Nat \ {0}
    BY DEF Positions, Is
  <1> DEFINE b == p.base  q == p.quote
  <1>2. b \in Int /\ q \in Int
    BY <1>1
  <1>3. Worth(p) = Plus(<<q, 1>>, Times(p.cost, b))
    BY DEF Worth
  <1> HIDE DEF b, q
  <1>4. Is(Times(p.cost, b), c * b, d) /\ Is(<<q, 1>>, q, 1)
    BY <1>2, TimesIs, WholeIs
  <1>5. Is(Worth(p), q * d + (c * b) * 1, 1 * d)
    BY <1>3, <1>4, PlusIs
  <1>6. q * d + (c * b) * 1 = q * d + c * b /\ 1 * d = d
    BY <1>1, <1>2
  <1> QED
    BY <1>5, <1>6 DEF b, q

(* A trade that enlarges a position makes no profit. *)
LEMMA EnlargeExact ==
    ASSUME NEW p \in Positions, Exact(p), NEW t, NEW s \in {1, -1}, t.price \in Int,
           BaseOf(t) \in Nat \ {0}, QuoteOf(t) = BaseOf(t) * t.price,
           p.base = s * Abs(p.base),
           NEW n \in Positions, n.profit = Enlarge(p, t).profit, n.cost = Enlarge(p, t).cost,
           n.base = p.base + s * BaseOf(t), n.quote = p.quote - s * QuoteOf(t)
    PROVE  Exact(n)
  <1> DEFINE c == p.cost[1]  d == p.cost[2]  u == p.profit[1]  v == p.profit[2]
             a == Abs(p.base)  k == BaseOf(t)  q == QuoteOf(t)
  <1>1. /\ Is(p.cost, c, d) /\ Is(p.profit, u, v)
        /\ c \in Int /\ d \in Nat \ {0} /\ u \in Int /\ v \in Nat \ {0}
        /\ p.base \in Int /\ p.quote \in Int /\ a \in Nat /\ k \in Nat \ {0} /\ q \in Int
    BY FracParts, SignedAbs DEF Positions
  <1>2. /\ n.profit = p.profit
        /\ n.cost = Over(Plus(Times(p.cost, a), <<q, 1>>), a + k)
    BY DEF Enlarge, Positions
  <1>3. p.base = s * a /\ n.base = s * a + s * k /\ n.quote = p.quote - s * q
    OBVIOUS
  <1> HIDE DEF c, d, u, v, a, k, q
  <1> DEFINE cn == (c * a) * 1 + q * d  dn == (d * 1) * (a + k)
  <1>4. Is(n.cost, cn, dn)
    <2>1. Is(Times(p.cost, a), c * a, d)
      <3>1. Is(p.cost, c, d) /\ a \in Int
        BY <1>1
      <3> QED
        BY <3>1, TimesIs
    <2>3. Is(<<q, 1>>, q, 1)
      BY <1>1, WholeIs
    <2>2. Is(Plus(Times(p.cost, a), <<q, 1>>), (c * a) * 1 + q * d, d * 1)
      BY <2>1, <2>3, PlusIs
    <2>4. a + k \in Nat \ {0}
      BY <1>1
    <2>5. Is(Over(Plus(Times(p.cost, a), <<q, 1>>), a + k), cn, dn)
      BY <2>2, <2>4, OverIs
    <2> QED
      BY <1>2, <2>5
  <1>5. cn = c * a + q * d /\ dn = d * (a + k) /\ cn \in Int /\ dn \in Nat \ {0}
    BY <1>1, <1>4 DEF Is
  <1> HIDE DEF cn, dn
  <1> DEFINE B == s * a + s * k  Q == p.quote - s * q  m == p.quote
  <1>6. Is(Worth(n), Q * dn + cn * B, dn)
    <2>1. Is(Worth(n), n.quote * dn + cn * n.base, dn)
      BY <1>4, WorthIs
    <2> QED
      BY <1>3, <2>1
  <1>7. u * d = (m * d + c * (s * a)) * v
    <2>1. Is(Worth(p), p.quote * d + c * p.base, d)
      BY <1>1, WorthIs
    <2>2. u * d = (p.quote * d + c * p.base) * v
      BY <1>1, <2>1, EqualIs DEF Exact
    <2> QED
      BY <1>3, <2>2
  <1>8. m \in Int /\ s \in Int
    BY <1>1
  <1> HIDE DEF m
  <1>9. Q * dn + cn * B = (a + k) * (m * d + c * (s * a))
    <2>1. Q * dn + cn * B = (m - s * q) * (d * (a + k)) + (c * a + q * d) * (s * a + s * k)
      BY <1>5 DEF m
    <2>2. (c * a + q * d) * (s * a + s * k) = (c * a + q * d) * s * (a + k)
      BY <1>1, <1>8
    <2>3. (m - s * q) * (d * (a + k)) = (m - s * q) * d * (a + k)
      BY <1>1, <1>8
    <2>4. (m - s * q) * d + (c * a + q * d) * s = m * d + c * (s * a)
      BY <1>1, <1>8
    <2>5. (m - s * q) * d * (a + k) + (c * a + q * d) * s * (a + k)
              = (a + k) * ((m - s * q) * d + (c * a + q * d) * s)
      BY <1>1, <1>8
    <2> QED
      BY <2>1, <2>2, <2>3, <2>4, <2>5
  <1>10. u * dn = (Q * dn + cn * B) * v
    <2> DEFINE w == m * d + c * (s * a)
    <2>1. w \in Int /\ u * d = w * v
      BY <1>1, <1>7, <1>8
    <2> HIDE DEF w
    <2>2. u * dn = (u * d) * (a + k)
      BY <1>1, <1>5
    <2>3. ((a + k) * w) * v = (w * v) * (a + k)
      BY <1>1, <2>1
    <2> QED
      BY <1>9, <2>1, <2>2, <2>3 DEF w
  <1> HIDE DEF Q, B
  <1> QED
    BY <1>1, <1>2, <1>6, <1>10, SameIs DEF Exact

(* The profit after a trade that covers x units at a price. *)
LEMMA Gained ==
    ASSUME NEW p \in Positions, Exact(p), NEW price \in Int, NEW x \in Int, NEW c, NEW d, Is(p.cost, c, d)
    PROVE  Is(Plus(p.profit, Times(Plus(<<price, 1>>, Times(p.cost, -1)), x)),
              (p.quote + price * x) * d + c * (p.base - x), d)
  <1> DEFINE b == p.base  q == p.quote  u == p.profit[1]  v == p.profit[2]
             r == Plus(p.profit, Times(Plus(<<price, 1>>, Times(p.cost, -1)), x))
             w == q * d + c * b
  <1>1. b \in Int /\ q \in Int /\ c \in Int /\ d \in Nat \ {0} /\ Is(p.profit, u, v) /\ u \in Int /\ v \in Nat \ {0}
    BY FracParts DEF Positions, Is
  <1>2. u * d = w * v /\ w \in Int
    <2>1. Is(Worth(p), w, d)
      BY WorthIs
    <2> QED
      BY <1>1, <2>1, EqualIs DEF Exact
  <1> HIDE DEF u, v
  <1> DEFINE g == price * d + (c * (-1)) * 1
  <1>3. Is(Plus(<<price, 1>>, Times(p.cost, -1)), g, 1 * d)
    <2>1. Is(Times(p.cost, -1), c * (-1), d)
      BY <1>1, TimesIs
    <2>2. Is(<<price, 1>>, price, 1)
      BY WholeIs
    <2> QED
      BY <2>1, <2>2, PlusIs
  <1>4. Is(Times(Plus(<<price, 1>>, Times(p.cost, -1)), x), g * x, 1 * d)
    BY <1>3, TimesIs
  <1>5. Is(r, u * (1 * d) + (g * x) * v, v * (1 * d))
    BY <1>1, <1>4, PlusIs
  <1> DEFINE z == (q + price * x) * d + c * (b - x)
  <1>6. z = w + g * x /\ z \in Int /\ g \in Int
    BY <1>1
  <1>7. u * (1 * d) + (g * x) * v = z * v /\ v * (1 * d) = v * d
    <2> HIDE DEF w, g, z
    <2>1. u * (1 * d) = w * v /\ v * (1 * d) = v * d
      BY <1>1, <1>2
    <2>2. w * v + (g * x) * v = (w + g * x) * v
      BY <1>1, <1>2, <1>6
    <2> QED
      BY <1>6, <2>1, <2>2
  <1> HIDE DEF r, z, g, w
  <1>8. Is(r, z * v, v * d)
    BY <1>5, <1>7
  <1>9. r[1] * d = z * r[2]
    <2> DEFINE r1 == r[1]  r2 == r[2]
    <2>1. r \in Frac /\ r1 * (v * d) = (z * v) * r2
      BY <1>8 DEF Is
    <2>2. r1 \in Int /\ r2 \in Int
      BY <2>1, FracParts
    <2> HIDE DEF r1, r2
    <2>3. v * (r1 * d) = v * (z * r2)
      <3>1. r1 * (v * d) = v * (r1 * d) /\ (z * v) * r2 = v * (z * r2)
        BY <1>1, <1>6, <2>2
      <3> QED
        BY <2>1, <3>1
    <2>4. r1 * d = z * r2
      <3>1. r1 * d \in Int /\ z * r2 \in Int
        BY <1>1, <1>6, <2>2
      <3> QED
        BY <1>1, <2>3, <3>1, Cancel0
    <2> QED
      BY <2>4 DEF r1, r2
  <1>10. Is(r, z, d)
    BY <1>1, <1>6, <1>8, <1>9 DEF Is
  <1> QED
    BY <1>10 DEF r, z

(* A trade that reduces, closes or turns a position. *)
LEMMA ReduceExact ==
    ASSUME NEW p \in Positions, Exact(p), NEW t, NEW s \in {1, -1}, t.price \in Int,
           BaseOf(t) \in Nat \ {0}, QuoteOf(t) = BaseOf(t) * t.price,
           p.base # 0, Sign(p.base) = -s,
           NEW n \in Positions, n.profit = Reduce(p, t).profit, n.cost = Reduce(p, t).cost,
           n.base = p.base + s * BaseOf(t), n.quote = p.quote - s * QuoteOf(t)
    PROVE  Exact(n)
  <1> DEFINE c == p.cost[1]  d == p.cost[2]  k == BaseOf(t)  price == t.price
             turns == k > Abs(p.base)
             covered == IF turns THEN Abs(p.base) ELSE k
             x == Sign(p.base) * covered
  <1>1. /\ Is(p.cost, c, d) /\ c \in Int /\ d \in Nat \ {0}
        /\ p.base \in Int /\ p.quote \in Int /\ k \in Nat \ {0} /\ price \in Int
    BY FracParts DEF Positions
  <1>2. /\ n.profit = Plus(p.profit, Times(Plus(<<price, 1>>, Times(p.cost, -1)), x))
        /\ n.cost = IF turns THEN <<price, 1>> ELSE p.cost
    <2> DEFINE v == Plus(p.profit, Times(Plus(<<price, 1>>, Times(p.cost, -1)), x))
               w == IF turns THEN <<price, 1>> ELSE p.cost
    <2>1. Reduce(p, t) = [p EXCEPT !.profit = v, !.cost = w]
      BY DEF Reduce
    <2> HIDE DEF v, w
    <2>2. Reduce(p, t).profit = v /\ Reduce(p, t).cost = w
      BY <2>1 DEF Positions
    <2> QED
      BY <2>2 DEF v, w
  <1>3. /\ n.base = p.base + s * k /\ n.quote = p.quote - s * (k * price)
        /\ x = IF turns THEN p.base ELSE -s * k
    <2>1. n.base = p.base + s * k /\ n.quote = p.quote - s * (k * price)
      OBVIOUS
    <2>2. Sign(p.base) * Abs(p.base) = p.base /\ Sign(p.base) * k = -s * k
      <3>1. Sign(p.base) * Abs(p.base) = p.base
        <4> DEFINE h == p.base
        <4>1. h \in Int
          BY <1>1
        <4> HIDE DEF h
        <4>2. CASE h < 0
          <5>1. Sign(h) = -1 /\ Abs(h) = -h
            BY <4>1, <4>2, SignedAbs
          <5> QED
            BY <4>1, <5>1 DEF h
        <4>3. CASE h >= 0
          <5>1. Sign(h) = 1 /\ Abs(h) = h
            BY <4>1, <4>3, SignedAbs
          <5> QED
            BY <4>1, <5>1 DEF h
        <4> QED
          BY <4>1, <4>2, <4>3
      <3> QED
        BY <3>1
    <2>3. x = IF turns THEN p.base ELSE -s * k
      <3> HIDE DEF turns, k
      <3>1. CASE turns
        BY <2>2, <3>1
      <3>2. CASE ~turns
        BY <2>2, <3>2
      <3> QED
        BY <3>1, <3>2
    <2> QED
      BY <2>1, <2>3
  <1>4. x \in Int
    BY <1>1, <1>3
  <1> HIDE DEF c, d, k, price, turns, covered, x
  <1>5. Is(n.profit, (p.quote + price * x) * d + c * (p.base - x), d)
    BY <1>1, <1>2, <1>4, Gained
  <1> DEFINE b == p.base  q == p.quote
  <1>6. b \in Int /\ q \in Int /\ s \in Int
    BY <1>1
  <1> DEFINE z == (q + price * x) * d + c * (b - x)
  <1>7. CASE turns
    <2>1. n.cost = <<price, 1>> /\ x = b
      BY <1>2, <1>3, <1>7
    <2>2. Is(Worth(n), n.quote * 1 + price * n.base, 1)
      BY <1>1, <2>1, WholeIs, WorthIs
    <2>3. n.quote * 1 + price * n.base = q + price * b
      <3> HIDE DEF b, q
      <3>1. n.quote = q - s * (k * price) /\ n.base = b + s * k
        BY <1>3 DEF b, q
      <3>2. (q - s * (k * price)) * 1 + price * (b + s * k) = q + price * b
        BY <1>1, <1>6
      <3> QED
        BY <3>1, <3>2
    <2>4. z * 1 = (q + price * b) * d
      <3> HIDE DEF b, q
      <3>1. (q + price * x) * d + c * (b - x) = (q + price * b) * d + c * (b - b)
        BY <2>1
      <3>2. c * (b - b) = 0 /\ (q + price * b) * d \in Int
        BY <1>1, <1>6
      <3> QED
        BY <3>1, <3>2
    <2>5. Is(n.profit, z, d) /\ Is(Worth(n), q + price * b, 1)
      BY <1>5, <2>2, <2>3
    <2> HIDE DEF z, b, q
    <2> QED
      BY <2>4, <2>5, SameIs DEF Exact
  <1>8. CASE ~turns
    <2>1. n.cost = p.cost /\ x = -s * k
      BY <1>2, <1>3, <1>8
    <2>2. Is(Worth(n), n.quote * d + c * n.base, d)
      BY <1>1, <2>1, WorthIs
    <2>3. n.quote = q + price * x /\ n.base = b - x
      <3> HIDE DEF b, q
      <3>1. n.quote = q - s * (k * price) /\ n.base = b + s * k
        BY <1>3 DEF b, q
      <3>2. q - s * (k * price) = q + price * (-s * k) /\ b + s * k = b - (-s * k)
        BY <1>1, <1>6
      <3> QED
        BY <2>1, <3>1, <3>2
    <2>4. Is(Worth(n), z, d) /\ Is(n.profit, z, d)
      BY <1>5, <2>2, <2>3
    <2> HIDE DEF z
    <2> QED
      BY <2>4, SameIs DEF Exact
  <1> QED
    BY <1>7, <1>8

LEMMA PartsType ==
    ASSUME NEW p \in Positions, NEW t, BaseOf(t) \in Nat \ {0}, QuoteOf(t) \in Int, t.price \in Int
    PROVE  Enlarge(p, t) \in Positions /\ Reduce(p, t) \in Positions
  <1>1. /\ p.base \in Int /\ p.quote \in Int /\ Abs(p.base) \in Nat /\ p.cost \in Frac /\ p.profit \in Frac
        /\ Sign(p.base) \in Int
    BY SignedAbs DEF Positions
  <1>2. /\ \A a, b : a \in Frac /\ b \in Frac => Plus(a, b) \in Frac
        /\ \A a : \A k \in Int : a \in Frac => Times(a, k) \in Frac
        /\ \A a : \A k \in Nat \ {0} : a \in Frac => Over(a, k) \in Frac
        /\ \A k \in Int : <<k, 1>> \in Frac
    <2>1. \A a, b : a \in Frac /\ b \in Frac => Plus(a, b) \in Frac
      <3> SUFFICES ASSUME NEW a \in Frac, NEW b \in Frac  PROVE Plus(a, b) \in Frac
        OBVIOUS
      <3>1. Is(Plus(a, b), a[1] * b[2] + b[1] * a[2], a[2] * b[2])
        BY FracParts, PlusIs
      <3> QED
        BY <3>1 DEF Is
    <2>2. \A a : \A k \in Int : a \in Frac => Times(a, k) \in Frac
      <3> SUFFICES ASSUME NEW a \in Frac, NEW k \in Int  PROVE Times(a, k) \in Frac
        OBVIOUS
      <3>1. Is(Times(a, k), a[1] * k, a[2])
        BY FracParts, TimesIs
      <3> QED
        BY <3>1 DEF Is
    <2>3. \A a : \A k \in Nat \ {0} : a \in Frac => Over(a, k) \in Frac
      <3> SUFFICES ASSUME NEW a \in Frac, NEW k \in Nat \ {0}  PROVE Over(a, k) \in Frac
        OBVIOUS
      <3>1. Is(Over(a, k), a[1], a[2] * k)
        BY FracParts, OverIs
      <3> QED
        BY <3>1 DEF Is
    <2> QED
      BY <2>1, <2>2, <2>3, WholeIs
  <1>3. \A v \in Frac, w \in Frac : [p EXCEPT !.cost = v] \in Positions /\ [p EXCEPT !.profit = v, !.cost = w] \in Positions
    BY DEF Positions
  <1>4. Enlarge(p, t) \in Positions
    <2> DEFINE v == Over(Plus(Times(p.cost, Abs(p.base)), <<QuoteOf(t), 1>>), Abs(p.base) + BaseOf(t))
    <2>1. Times(p.cost, Abs(p.base)) \in Frac /\ <<QuoteOf(t), 1>> \in Frac
      BY <1>1, <1>2
    <2>2. Plus(Times(p.cost, Abs(p.base)), <<QuoteOf(t), 1>>) \in Frac
      BY <1>2, <2>1
    <2>3. v \in Frac
      <3>1. Abs(p.base) + BaseOf(t) \in Nat \ {0}
        BY <1>1
      <3> QED
        BY <1>2, <2>2, <3>1
    <2> HIDE DEF v
    <2>4. Enlarge(p, t) = [p EXCEPT !.cost = v]
      BY DEF Enlarge, v
    <2> QED
      BY <1>3, <2>3, <2>4
  <1>5. Reduce(p, t) \in Positions
    <2> DEFINE turns == BaseOf(t) > Abs(p.base)
               covered == IF turns THEN Abs(p.base) ELSE BaseOf(t)
               x == Sign(p.base) * covered
               v == Plus(p.profit, Times(Plus(<<t.price, 1>>, Times(p.cost, -1)), x))
               w == IF turns THEN <<t.price, 1>> ELSE p.cost
    <2>1. x \in Int /\ w \in Frac
      BY <1>1, <1>2
    <2> HIDE DEF x
    <2>2. Times(p.cost, -1) \in Frac /\ <<t.price, 1>> \in Frac
      BY <1>1, <1>2
    <2>3. Plus(<<t.price, 1>>, Times(p.cost, -1)) \in Frac
      BY <1>2, <2>2
    <2>4. Times(Plus(<<t.price, 1>>, Times(p.cost, -1)), x) \in Frac
      BY <1>2, <2>1, <2>3
    <2>5. v \in Frac
      BY <1>1, <1>2, <2>4
    <2>6. Reduce(p, t) = [p EXCEPT !.profit = v, !.cost = w]
      BY DEF Reduce, x
    <2> HIDE DEF v, w
    <2> QED
      BY <1>3, <2>1, <2>5, <2>6
  <1> QED
    BY <1>4, <1>5

(* AddTrade, when the trade has no fee in the traded currencies, keeps the
   profit what was earned and is held. *)
LEMMA AddTradeExact ==
    ASSUME NEW p \in Positions, Exact(p), NEW t, t.side \in {"BUY", "SELL"}, t.price \in Int,
           BaseOf(t) \in Nat \ {0}, QuoteOf(t) = BaseOf(t) * t.price
    PROVE  AddTrade(p, t) \in Positions /\ Exact(AddTrade(p, t))
  <1> DEFINE s == IF t.side = "BUY" THEN 1 ELSE -1
             next == IF p.base = 0 \/ Sign(p.base) = s THEN Enlarge(p, t) ELSE Reduce(p, t)
             b == BaseOf(t)
             q == QuoteOf(t)
             n == AddTrade(p, t)
  <1>1. s \in {1, -1} /\ b \in Nat \ {0} /\ q \in Int
    OBVIOUS
  <1>2. n = [next EXCEPT !.base = @ + s * b, !.quote = @ - s * q]
    BY DEF AddTrade
  <1>3. next \in Positions
    BY <1>1, PartsType
  <1>4. next.base = p.base /\ next.quote = p.quote
    <2>1. Enlarge(p, t).base = p.base /\ Enlarge(p, t).quote = p.quote
      BY DEF Enlarge, Positions
    <2>2. Reduce(p, t).base = p.base /\ Reduce(p, t).quote = p.quote
      BY DEF Reduce, Positions
    <2> QED
      BY <2>1, <2>2
  <1> HIDE DEF s, next, n
  <1>5. p.base \in Int /\ p.quote \in Int /\ s * b \in Int /\ s * q \in Int
    BY <1>1 DEF Positions
  <1>6. /\ n \in Positions /\ n.cost = next.cost /\ n.profit = next.profit
        /\ n.base = p.base + s * b /\ n.quote = p.quote - s * q
    <2> DEFINE i == p.base + s * b  j == p.quote - s * q
    <2>1. i \in Int /\ j \in Int
      BY <1>5
    <2>2. n = [next EXCEPT !.base = i, !.quote = j]
      BY <1>2, <1>4
    <2> HIDE DEF i, j
    <2>3. /\ n \in Positions /\ n.cost = next.cost /\ n.profit = next.profit /\ n.base = i /\ n.quote = j
      BY <1>3, <2>1, <2>2 DEF Positions
    <2> QED
      BY <2>3 DEF i, j
  <1>7. CASE p.base = 0 \/ Sign(p.base) = s
    <2>1. p.base = s * Abs(p.base)
      <3>1. CASE p.base = 0
        BY <1>1, <3>1 DEF Abs
      <3>2. CASE Sign(p.base) = s
        <4>1. /\ s = 1 => p.base = Abs(p.base)
              /\ s = -1 => p.base = -Abs(p.base)
          BY <1>5, <3>2, SignedAbs
        <4> QED
          BY <1>1, <1>5, <4>1, SignedAbs
      <3> QED
        BY <1>7, <3>1, <3>2
    <2>2. next = Enlarge(p, t)
      BY <1>7 DEF next
    <2>3. n.profit = Enlarge(p, t).profit /\ n.cost = Enlarge(p, t).cost
      BY <1>6, <2>2
    <2> HIDE DEF b, q
    <2>4. n.base = p.base + s * BaseOf(t) /\ n.quote = p.quote - s * QuoteOf(t)
      BY <1>6 DEF b, q
    <2> QED
      BY <1>1, <1>6, <2>1, <2>3, <2>4, EnlargeExact DEF n
  <1>8. CASE ~(p.base = 0 \/ Sign(p.base) = s)
    <2>1. p.base # 0 /\ Sign(p.base) = -s
      BY <1>1, <1>5, <1>8, SignedAbs
    <2>2. next = Reduce(p, t)
      BY <1>8 DEF next
    <2>3. n.profit = Reduce(p, t).profit /\ n.cost = Reduce(p, t).cost
      BY <1>6, <2>2
    <2> HIDE DEF b, q
    <2>4. n.base = p.base + s * BaseOf(t) /\ n.quote = p.quote - s * QuoteOf(t)
      BY <1>6 DEF b, q
    <2> QED
      BY <1>1, <1>6, <2>1, <2>3, <2>4, ReduceExact DEF n
  <1> QED
    BY <1>6, <1>7, <1>8 DEF n

ExactInv == setting.feeMode = "TOKEN" => position \in Positions /\ Exact(position)

(* The trade of an order, when fees are paid in a third currency. *)
LEMMA TokenTrade ==
    ASSUME setting \in Settings, setting.feeMode = "TOKEN", NEW o \in Order, NEW price \in Nat
    PROVE  LET t == NewTradeFromOrder(o, price)
           IN  /\ t.side \in {"BUY", "SELL"} /\ t.price \in Int
               /\ BaseOf(t) \in Nat \ {0} /\ QuoteOf(t) = BaseOf(t) * t.price
  <1> DEFINE t == NewTradeFromOrder(o, price)
  <1>1. t.price = price
    BY DEF NewTradeFromOrder
  <1> HIDE DEF t
  <1>2. /\ t.side = o.side /\ t.quantity = o.quantity /\ t.quoteQuantity = o.quantity * price
        /\ t.feeCurrency \in {"BASE", "QUOTE", "FEE"}
        /\ t.feeCurrency # "BASE" /\ t.feeCurrency # "QUOTE"
    BY TradeFields DEF t
  <1>3. o.quantity \in Nat \ {0} /\ o.side \in {"BUY", "SELL"}
    BY OrderFields
  <1> DEFINE q == o.quantity  qp == o.quantity * price
  <1>4. q \in Nat \ {0} /\ qp \in Nat /\ qp = q * price /\ t.quantity = q /\ t.quoteQuantity = qp
    BY <1>2, <1>3
  <1> HIDE DEF q, qp
  <1>5. BaseOf(t) = q /\ QuoteOf(t) = qp
    BY <1>2, <1>4 DEF BaseOf, QuoteOf
  <1> QED
    BY <1>1, <1>2, <1>3, <1>4, <1>5 DEF t

LEMMA ExactTrade ==
    ASSUME setting \in Settings, setting' = setting, ExactInv, NEW o \in Order, NEW price \in Nat,
           position' = AddTrade(position, NewTradeFromOrder(o, price))
    PROVE  ExactInv'
  <1> SUFFICES ASSUME setting.feeMode = "TOKEN"
               PROVE  position' \in Positions /\ Exact(position')
    BY DEF ExactInv, Exact
  <1>1. position \in Positions /\ Exact(position)
    BY DEF ExactInv
  <1> DEFINE t == NewTradeFromOrder(o, price)
  <1>2. /\ t.side \in {"BUY", "SELL"} /\ t.price \in Int
        /\ BaseOf(t) \in Nat \ {0} /\ QuoteOf(t) = BaseOf(t) * t.price
    BY TokenTrade
  <1>3. position' = AddTrade(position, t)
    OBVIOUS
  <1> HIDE DEF t
  <1> QED
    BY <1>1, <1>2, <1>3, AddTradeExact

LEMMA ExactStep == Types /\ ExactInv /\ [Next]_vars => ExactInv'
  <1> SUFFICES ASSUME Types, ExactInv, [Next]_vars
               PROVE  ExactInv'
    OBVIOUS
  <1>1. setting \in Settings /\ account \in Accounts /\ lastPrice \in Prices \cup {0}
    BY TotalsInt
  <1>2. ASSUME setting' = setting, position' = position
        PROVE  ExactInv'
    BY <1>2 DEF ExactInv, Exact
  <1>3. CASE Move \/ Cancel \/ ConsumeKLine \/ ProcessKLine \/ Panic \/ UNCHANGED vars
    <2>1. CASE Move
      BY <1>2, <2>1 DEF Move
    <2>2. CASE Cancel
      BY <1>2, <2>2 DEF Cancel, CancelOrder
    <2>3. CASE ConsumeKLine \/ ProcessKLine \/ Panic \/ UNCHANGED vars
      <3>1. UNCHANGED <<setting, position>>
        BY <2>3, QuietParts
      <3> QED
        BY <1>2, <3>1
    <2> QED
      BY <1>3, <2>1, <2>2, <2>3
  <1>4. CASE Place
    <2>1. PICK o \in Order :
              /\ o.side \in {"BUY", "SELL"}
              /\ \/ Taker(o) /\ Take(o)
                 \/ o.type # "MARKET" /\ ~IsLimitTaker(o) /\ o \in Waiting(o.side) /\ Rest(o)
              /\ UNCHANGED <<setting, lastPrice, walk, closed, calling, panicked>>
      BY <1>1, <1>4, PlaceParts
    <2>2. CASE Taker(o) /\ Take(o)
      <3>1. position' = AddTrade(position, TakenTrade(o))
        BY <1>1, <2>2, TakeAccount
      <3>2. TakenOrder(o) \in Order /\ TakenPrice(o) \in Nat
        BY <1>1, <2>2, TakenFields
      <3> QED
        BY <1>1, <2>1, <3>1, <3>2, ExactTrade DEF TakenTrade
    <2>3. CASE Rest(o)
      BY <1>2, <2>1, <2>3 DEF Rest
    <2> QED
      BY <2>1, <2>2, <2>3
  <1>5. CASE Execute
    <2> DEFINE o == Head(closed)  price == ExecutedPrice(o)
    <2>1. o \in Order /\ price \in Nat /\ position' = AddTrade(position, NewTradeFromOrder(o, price))
      BY <1>5, ExecuteParts
    <2>2. setting' = setting
      BY <1>5 DEF Execute
    <2> HIDE DEF o, price
    <2> QED
      BY <1>1, <2>1, <2>2, ExactTrade
  <1> QED
    BY <1>3, <1>4, <1>5 DEF Next

LEMMA ExactInit == Init => ExactInv
  <1> SUFFICES ASSUME Init
               PROVE  ExactInv
    OBVIOUS
  <1>1. position = NewPosition
    BY DEF Init
  <1>2. <<0, 1>> \in Frac /\ Is(<<0, 1>>, 0, 1)
    BY WholeIs
  <1>3. position \in Positions /\ position.cost = <<0, 1>> /\ position.profit = <<0, 1>>
        /\ position.base = 0 /\ position.quote = 0
    BY <1>1, <1>2 DEF NewPosition, Positions
  <1>4. Is(Worth(position), position.quote * 1 + 0 * position.base, 1)
    BY <1>2, <1>3, WorthIs
  <1>5. position.quote * 1 + 0 * position.base = 0
    BY <1>3
  <1>6. Is(Worth(position), 0, 1) /\ Is(position.profit, 0, 1)
    BY <1>2, <1>3, <1>4, <1>5
  <1>7. Equal(position.profit, Worth(position))
    BY <1>6, SameIs
  <1> QED
    BY <1>3, <1>7 DEF ExactInv, Exact

(* The accumulated profit is exact, however a position is enlarged, reduced,
   closed or turned around: what was received less what was paid, and the base
   that is held at its average cost (Position.AddTrade). *)
THEOREM ProfitIsExactInvariant == Spec => []ProfitIsExact
  <1>1. ExactInv => ProfitIsExact
    BY DEF ExactInv, Exact, ProfitIsExact
  <1> QED
    BY <1>1, ExactInit, ExactStep, TypesHold, PTL DEF Spec

-----------------------------------------------------------------------------
(***************************************************************************)
(* No limit order is left behind the price, or open after a walk over it   *)
(***************************************************************************)
(* A limit order placed at a price waits on its side of the last one, and
   every move left leads in its direction from where the one before it ends. *)
Uncrossed ==
    /\ Directed(lastPrice, path)
    /\ \A o \in Open : /\ o.priced => lastPrice # 0
                       /\ o.type = "LIMIT" /\ o.priced => Beyond(o, lastPrice, lastPrice)

(* A limit order that a move leaves open was not reached, or was a stop order
   that is no taker at the new price. *)
LEMMA MovedOpen ==
    ASSUME setting \in Settings, NEW side \in {"BUY", "SELL"}, NEW o \in Waiting(side), NEW move \in Moves,
           ~Moved(o, move).filled
    PROVE  LET m == Moved(o, move)
           IN  /\ m.priced => o.priced
               /\ m.side = side /\ m.side = o.side /\ m.price = o.price
               /\ m.type = "LIMIT" => (o.type = "LIMIT" /\ ~Reaches(o, move)) \/ ~TakerAt(o, move.to)
  <1>1. o \in Order /\ o.side = side /\ ~o.filled /\ o.type \in OrderType \ {"MARKET"}
    BY OrderFields DEF Waiting
  <1> DEFINE m == Moved(o, move)
  <1>2. CASE IsStop(o.type) /\ ~Triggered(o, move)
    <2>1. m = o
      BY <1>2 DEF Moved
    <2> QED
      BY <1>1, <1>2, <2>1 DEF IsStop
  <1>3. CASE o.type = "STOP_MARKET" /\ Triggered(o, move)
    <2> DEFINE m1 == [o EXCEPT !.type = "MARKET"]
               m2 == [m1 EXCEPT !.price = move.to]
    <2>1. m = [m2 EXCEPT !.filled = TRUE]
      BY <1>3 DEF Moved, IsStop
    <2>2. m1 \in Order
      BY <1>1, OrderWith DEF OrderType
    <2>3. m2 \in Order
      <3> HIDE DEF m1
      <3>1. move.to \in Prices
        BY DEF Moves
      <3> QED
        BY <2>2, <3>1, OrderWith
    <2>4. m.filled
      <3> HIDE DEF m2, m
      <3> QED
        BY <2>1, <2>3, OrderWith, Zenon
    <2> QED
      BY <2>4
  <1>4. CASE o.type = "STOP_LIMIT" /\ Triggered(o, move)
    <2>1. m = IF TakerAt(o, move.to)
              THEN [o EXCEPT !.type = "LIMIT", !.avg = move.to, !.filled = TRUE]
              ELSE [o EXCEPT !.type = "LIMIT"]
      BY <1>4 DEF Moved, IsStop
    <2>2. CASE TakerAt(o, move.to)
      <3> DEFINE m1 == [o EXCEPT !.type = "LIMIT"]
                 m2 == [m1 EXCEPT !.avg = move.to]
      <3>1. m = [m2 EXCEPT !.filled = TRUE]
        BY <2>1, <2>2
      <3>2. m1 \in Order
        BY <1>1, OrderWith DEF OrderType
      <3>3. m2 \in Order
        <4> HIDE DEF m1
        <4>1. move.to \in Prices
          BY DEF Moves
        <4> QED
          BY <3>2, <4>1, OrderWith
      <3>4. m.filled
        <4> HIDE DEF m2, m
        <4> QED
          BY <3>1, <3>3, OrderWith, Zenon
      <3> QED
        BY <3>4
    <2>3. CASE ~TakerAt(o, move.to)
      <3>1. m = [o EXCEPT !.type = "LIMIT"]
        BY <2>1, <2>3
      <3> HIDE DEF m
      <3>2. m.side = o.side /\ m.price = o.price
        BY <1>1, <3>1 DEF Order
      <3>3. m.priced = o.priced
        BY <1>1, <3>1 DEF Order
      <3>4. m.priced => o.priced
        BY <3>3, Zenon
      <3> QED
        BY <1>1, <2>3, <3>2, <3>4 DEF m
    <2> QED
      BY <2>2, <2>3
  <1>5. CASE ~IsStop(o.type)
    <2> DEFINE f == Reaches(o, move)
    <2>1. m = [o EXCEPT !.filled = f] /\ f \in BOOLEAN
      BY <1>5 DEF Moved, IsStop, Reaches, Moves
    <2> HIDE DEF m, f
    <2>2. m.side = o.side /\ m.price = o.price /\ m.type = o.type
      BY <1>1, <2>1 DEF Order
    <2>3. m.priced = o.priced
      BY <1>1, <2>1 DEF Order
    <2>4. m.filled = f
      BY <1>1, <2>1 DEF Order
    <2>5. ~f
      BY <2>4, Zenon DEF m
    <2>6. m.priced => o.priced
      BY <2>3, Zenon
    <2> QED
      BY <1>1, <2>2, <2>5, <2>6 DEF m, f
  <1> QED
    BY <1>1, <1>2, <1>3, <1>4, <1>5 DEF IsStop, OrderType

LEMMA OpenOrders ==
    ASSUME Types
    PROVE  /\ \A o \in ToSet(bidOrders) : o \in Waiting("BUY")
           /\ \A o \in ToSet(askOrders) : o \in Waiting("SELL")
           /\ \A o \in ToSet(closed) : o \in Done
           /\ \A o \in Open : o \in Waiting(o.side) /\ o.side \in {"BUY", "SELL"} /\ o \in Order
           /\ setting \in Settings /\ lastPrice \in Nat
           /\ \A o \in Order : o.price \in Nat
  <1>1. /\ bidOrders \in Seq(Waiting("BUY")) /\ askOrders \in Seq(Waiting("SELL")) /\ closed \in Seq(Done)
        /\ setting \in Settings /\ lastPrice \in Prices \cup {0}
    BY DEF Types
  <1>2. /\ \A o \in ToSet(bidOrders) : o \in Waiting("BUY")
        /\ \A o \in ToSet(askOrders) : o \in Waiting("SELL")
        /\ \A o \in ToSet(closed) : o \in Done
    BY <1>1, Elements
  <1>3. \A o \in Open : o \in Waiting(o.side) /\ o.side \in {"BUY", "SELL"} /\ o \in Order
    BY <1>2 DEF Open, Waiting
  <1>4. lastPrice \in Nat
    BY <1>1, MatchingAssumption
  <1>5. \A o \in Order : o.price \in Nat
    BY <1>1, OrderFields
  <1> QED
    BY <1>1, <1>2, <1>3, <1>4, <1>5

LEMMA PlacedOpen ==
    ASSUME Types, NEW o \in Order, o.side \in {"BUY", "SELL"},
           \/ Taker(o) /\ Take(o)
           \/ o.type # "MARKET" /\ ~IsLimitTaker(o) /\ o \in Waiting(o.side) /\ Rest(o)
    PROVE  Open' \subseteq Open \cup {o}
  <1>1. CASE Take(o)
    BY <1>1 DEF Take, books, Open
  <1>2. CASE o.type # "MARKET" /\ o \in Waiting(o.side) /\ Rest(o)
    <2>1. /\ account \in Accounts /\ bidOrders \in Seq(Waiting("BUY")) /\ askOrders \in Seq(Waiting("SELL"))
          /\ lastPrice \in Prices \cup {0} /\ setting \in Settings
      BY DEF Types, Accounts
    <2>2. \/ bidOrders' = Append(bidOrders, o) /\ askOrders' = askOrders /\ o \in Waiting("BUY")
          \/ askOrders' = Append(askOrders, o) /\ bidOrders' = bidOrders /\ o \in Waiting("SELL")
      BY <1>2, <2>1, RestParts
    <2>3. CASE bidOrders' = Append(bidOrders, o) /\ askOrders' = askOrders /\ o \in Waiting("BUY")
      <3>1. ToSet(bidOrders') = ToSet(bidOrders) \cup {o}
        BY <2>1, <2>3, AppendElements
      <3> QED
        BY <2>3, <3>1 DEF Open
    <2>4. CASE askOrders' = Append(askOrders, o) /\ bidOrders' = bidOrders /\ o \in Waiting("SELL")
      <3>1. ToSet(askOrders') = ToSet(askOrders) \cup {o}
        BY <2>1, <2>4, AppendElements
      <3> QED
        BY <2>4, <3>1 DEF Open
    <2> QED
      BY <2>2, <2>3, <2>4
  <1> QED
    BY <1>1, <1>2

LEMMA UncrossedStep == Types /\ Uncrossed /\ [Next]_vars => Uncrossed'
  <1> SUFFICES ASSUME Types, Uncrossed, [Next]_vars
               PROVE  Uncrossed'
    OBVIOUS
  <1>1. /\ \A o \in Open : o \in Waiting(o.side) /\ o.side \in {"BUY", "SELL"} /\ o \in Order
        /\ setting \in Settings /\ lastPrice \in Nat
        /\ \A o \in Order : o.price \in Nat
    BY OpenOrders
  <1>2. /\ Directed(lastPrice, path)
        /\ \A o \in Open : /\ o.priced => lastPrice # 0
                           /\ o.type = "LIMIT" /\ o.priced => Beyond(o, lastPrice, lastPrice)
    BY DEF Uncrossed
  <1>3. CASE Place
    <2>1. PICK o \in Order :
              /\ o.priced = (lastPrice # 0)
              /\ o.side \in {"BUY", "SELL"}
              /\ \/ Taker(o) /\ Take(o)
                 \/ o.type # "MARKET" /\ ~IsLimitTaker(o) /\ o \in Waiting(o.side) /\ Rest(o)
              /\ UNCHANGED <<setting, lastPrice, walk, closed, calling, panicked>>
      BY <1>3, PlaceParts
    <2>2. lastPrice' = lastPrice /\ path' = path
      BY <2>1 DEF walk
    <2>3. o.priced => lastPrice # 0
      BY <2>1, Zenon
    <2>4. CASE Taker(o) /\ Take(o)
      <3>1. Open' = Open
        BY <2>4 DEF Take, books, Open
      <3> QED
        BY <1>2, <2>2, <3>1 DEF Uncrossed
    <2>5. CASE o.type # "MARKET" /\ ~IsLimitTaker(o) /\ o \in Waiting(o.side) /\ Rest(o)
      <3>1. Open' \subseteq Open \cup {o}
        BY <2>1, PlacedOpen
      <3>2. o.type = "LIMIT" /\ o.priced => Beyond(o, lastPrice, lastPrice)
        BY <1>1, <2>1, <2>3, <2>5 DEF IsLimitTaker, Beyond
      <3> QED
        BY <1>2, <2>2, <2>3, <3>1, <3>2 DEF Uncrossed
    <2> QED
      BY <2>1, <2>4, <2>5
  <1>4. CASE Cancel
    <2>1. PICK o \in Open : CancelOrder(o)
      BY <1>4 DEF Cancel
    <2>2. /\ ToSet(bidOrders') = {b \in ToSet(bidOrders) : b.id # o.id}
          /\ ToSet(askOrders') = {b \in ToSet(askOrders) : b.id # o.id}
      BY <2>1, CancelParts
    <2>3. Open' \subseteq Open
      BY <2>2 DEF Open
    <2>4. lastPrice' = lastPrice /\ path' = path
      BY <2>1 DEF CancelOrder, walk
    <2> QED
      BY <1>2, <2>3, <2>4 DEF Uncrossed
  <1>5. CASE Move
    <2> DEFINE move == Head(path)
    <2>1. path \in Seq(Moves) /\ path # <<>> /\ MoveTo(move) /\ path' = Tail(path)
      BY <1>5 DEF Types, Move
    <2>2. move \in Moves /\ Towards(lastPrice, move) /\ Directed(move.to, path')
      BY <1>2, <2>1, HeadTail, DirectedTail
    <2> HIDE DEF move
    <2>3. move.to \in Nat \ {0} /\ move.up \in BOOLEAN
      BY <2>2, MatchingAssumption DEF Moves
    <2>4. /\ ToSet(bidOrders') = {m \in {Moved(o, move) : o \in ToSet(bidOrders)} : ~m.filled}
          /\ ToSet(askOrders') = {m \in {Moved(o, move) : o \in ToSet(askOrders)} : ~m.filled}
          /\ lastPrice' = move.to
      BY <2>1, <2>2, MoveParts
    <2>5. ASSUME NEW m \in Open'
          PROVE  m.type = "LIMIT" /\ m.priced => Beyond(m, move.to, move.to)
      <3>1. PICK o \in Open : m = Moved(o, move) /\ ~m.filled
        BY <2>4 DEF Open
      <3>2. o \in Waiting(o.side) /\ o.side \in {"BUY", "SELL"} /\ o.price \in Nat
        BY <1>1
      <3>3. /\ m.priced => o.priced
            /\ m.side = o.side /\ m.price = o.price
            /\ m.type = "LIMIT" => (o.type = "LIMIT" /\ ~Reaches(o, move)) \/ ~TakerAt(o, move.to)
        BY <1>1, <2>2, <3>1, <3>2, MovedOpen
      <3> SUFFICES ASSUME m.type = "LIMIT", m.priced
                   PROVE  Beyond(o, move.to, move.to)
        BY <3>3 DEF Beyond
      <3>4. CASE o.type = "LIMIT" /\ ~Reaches(o, move)
        <4>1. Beyond(o, lastPrice, lastPrice)
          BY <1>2, <3>3, <3>4
        <4> QED
          BY <1>1, <2>2, <2>3, <3>2, <3>4, <4>1 DEF Beyond, Towards, Reaches
      <3>5. CASE ~TakerAt(o, move.to)
        BY <2>3, <3>2, <3>5 DEF Beyond, TakerAt
      <3> QED
        BY <3>3, <3>4, <3>5
    <2> QED
      BY <2>2, <2>3, <2>4, <2>5 DEF Uncrossed
  <1>6. CASE Execute
    <2>1. Open' = Open /\ lastPrice' = lastPrice /\ path' = path
      BY <1>6 DEF Execute, books, walk, Open
    <2> QED
      BY <1>2, <2>1 DEF Uncrossed
  <1>7. CASE ConsumeKLine \/ ProcessKLine \/ Panic \/ UNCHANGED vars
    <2>1. Directed(lastPrice', path') /\ Open' = Open /\ (lastPrice # 0 => lastPrice' = lastPrice)
      BY <1>2, <1>7, QuietParts DEF Open
    <2>2. \A o \in Open : o.priced => lastPrice' = lastPrice /\ lastPrice # 0
      BY <1>2, <2>1
    <2> QED
      BY <1>2, <2>1, <2>2 DEF Uncrossed
  <1> QED
    BY <1>3, <1>4, <1>5, <1>6, <1>7 DEF Next

(* The extremes of a K-line, towards which the orders of a side are filled. *)
Extreme(o, k) == IF o.side = "BUY" THEN Down(k.low) ELSE Up(k.high)

(* While a K-line that closes away from its open is walked, an order that was
   open before it and lies within its range has the move to its side's extreme
   still before it. *)
Walked ==
    busy => /\ kline # None
            /\ kline.close # kline.open =>
                   \A o \in Open : o.stop = 0 /\ o.id <= before =>
                       Beyond(o, kline.low, kline.high) \/ Extreme(o, kline) \in ToSet(path)

(* Walks of two and of three moves. *)
LEMMA TwoMoves ==
    ASSUME NEW m \in Moves, NEW n \in Moves
    PROVE  <<m>> \o <<n>> \in Seq(Moves) /\ ToSet(<<m>> \o <<n>>) = {m, n}
  <1> DEFINE one == <<m>>
             next == <<n>>
  <1>1. one \in Seq(Moves) /\ next \in Seq(Moves)
    OBVIOUS
  <1>2. DOMAIN one = {1} /\ one[1] = m /\ DOMAIN next = {1} /\ next[1] = n
    OBVIOUS
  <1> HIDE DEF one, next
  <1>3. ToSet(one) = {m} /\ ToSet(next) = {n}
    BY <1>2 DEF ToSet
  <1>4. one \o next \in Seq(Moves) /\ ToSet(one \o next) = ToSet(one) \cup ToSet(next)
    BY <1>1, ConcatElements
  <1>5. one \o next \in Seq(Moves) /\ ToSet(one \o next) = {m, n}
    BY <1>3, <1>4
  <1> QED
    BY <1>5 DEF one, next

LEMMA ThreeMoves ==
    ASSUME NEW m \in Moves, NEW n \in Moves, NEW r \in Moves
    PROVE  <<m>> \o <<n, r>> \in Seq(Moves) /\ ToSet(<<m>> \o <<n, r>>) = {m, n, r}
  <1> DEFINE one == <<m>>
             two == <<n, r>>
  <1>1. one \in Seq(Moves) /\ two \in Seq(Moves)
    OBVIOUS
  <1>2. DOMAIN one = {1} /\ one[1] = m /\ DOMAIN two = {1, 2} /\ two[1] = n /\ two[2] = r
    OBVIOUS
  <1> HIDE DEF one, two
  <1>3. ToSet(one) = {m} /\ ToSet(two) = {n, r}
    BY <1>2 DEF ToSet
  <1>4. one \o two \in Seq(Moves) /\ ToSet(one \o two) = ToSet(one) \cup ToSet(two)
    BY <1>1, ConcatElements
  <1>5. one \o two \in Seq(Moves) /\ ToSet(one \o two) = {m, n, r}
    BY <1>3, <1>4
  <1> QED
    BY <1>5 DEF one, two

LEMMA PathReaches ==
    ASSUME NEW k \in KLines, k.close # k.open
    PROVE  /\ Down(k.low) \in ToSet(Path(k)) /\ Up(k.high) \in ToSet(Path(k))
           /\ \A move \in Moves : /\ Down(k.low) \in ToSet(<<move>> \o Path(k))
                                  /\ Up(k.high) \in ToSet(<<move>> \o Path(k))
  <1>1. /\ k.open \in Prices /\ k.high \in Prices /\ k.low \in Prices /\ k.close \in Prices
        /\ Prices \subseteq Nat
    BY MatchingAssumption DEF KLine
  <1>2. k.low <= k.close /\ k.close <= k.high
    BY MatchingAssumption
  <1>3. k.open \in Nat /\ k.high \in Nat /\ k.low \in Nat /\ k.close \in Nat
    BY <1>1
  <1>4. /\ Up(k.high) \in Moves /\ Up(k.close) \in Moves
        /\ Down(k.low) \in Moves /\ Down(k.close) \in Moves
    BY <1>1 DEF Up, Down, Moves
  <1>5. Path(k) \in Seq(Moves) /\ Down(k.low) \in ToSet(Path(k)) /\ Up(k.high) \in ToSet(Path(k))
    <2>1. CASE k.close < k.open /\ k.low < k.close
      <3>1. Path(k) = <<Up(k.high)>> \o <<Down(k.low), Up(k.close)>>
        BY <2>1 DEF Path
      <3>2. /\ <<Up(k.high)>> \o <<Down(k.low), Up(k.close)>> \in Seq(Moves)
            /\ ToSet(<<Up(k.high)>> \o <<Down(k.low), Up(k.close)>>) = {Up(k.high), Down(k.low), Up(k.close)}
        BY <1>4, ThreeMoves
      <3> QED
        BY <3>1, <3>2
    <2>2. CASE k.close < k.open /\ ~(k.low < k.close)
      <3>1. Path(k) = <<Up(k.high)>> \o <<Down(k.close)>> /\ k.close = k.low
        BY <1>2, <1>3, <2>2 DEF Path
      <3>2. /\ <<Up(k.high)>> \o <<Down(k.close)>> \in Seq(Moves)
            /\ ToSet(<<Up(k.high)>> \o <<Down(k.close)>>) = {Up(k.high), Down(k.close)}
        BY <1>4, TwoMoves
      <3> QED
        BY <3>1, <3>2
    <2>3. CASE ~(k.close < k.open) /\ k.close > k.open /\ k.high > k.close
      <3>1. Path(k) = <<Down(k.low)>> \o <<Up(k.high), Down(k.close)>>
        BY <2>3 DEF Path
      <3>2. /\ <<Down(k.low)>> \o <<Up(k.high), Down(k.close)>> \in Seq(Moves)
            /\ ToSet(<<Down(k.low)>> \o <<Up(k.high), Down(k.close)>>) = {Down(k.low), Up(k.high), Down(k.close)}
        BY <1>4, ThreeMoves
      <3> QED
        BY <3>1, <3>2
    <2>4. CASE ~(k.close < k.open) /\ k.close > k.open /\ ~(k.high > k.close)
      <3>1. Path(k) = <<Down(k.low)>> \o <<Up(k.close)>> /\ k.close = k.high
        BY <1>2, <1>3, <2>4 DEF Path
      <3>2. /\ <<Down(k.low)>> \o <<Up(k.close)>> \in Seq(Moves)
            /\ ToSet(<<Down(k.low)>> \o <<Up(k.close)>>) = {Down(k.low), Up(k.close)}
        BY <1>4, TwoMoves
      <3> QED
        BY <3>1, <3>2
    <2> QED
      BY <1>3, <2>1, <2>2, <2>3, <2>4
  <1>6. ASSUME NEW move \in Moves
        PROVE  ToSet(Path(k)) \subseteq ToSet(<<move>> \o Path(k))
    <2> DEFINE first == <<move>>
               others == Path(k)
    <2>1. first \in Seq(Moves) /\ others \in Seq(Moves)
      BY <1>5
    <2> HIDE DEF first, others
    <2>2. ToSet(first \o others) = ToSet(first) \cup ToSet(others)
      BY <2>1, ConcatElements
    <2>3. ToSet(others) \subseteq ToSet(first \o others)
      BY <2>2
    <2> QED
      BY <2>3 DEF first, others
  <1> QED
    BY <1>5, <1>6

(* A move leaves an order that never was a stop order as it was, or fills it. *)
LEMMA MovedPlain ==
    ASSUME setting \in Settings, NEW side \in {"BUY", "SELL"}, NEW o \in Waiting(side), NEW move \in Moves,
           ~Moved(o, move).filled, Moved(o, move).stop = 0
    PROVE  /\ o.stop = 0 /\ Moved(o, move).id = o.id /\ Moved(o, move).side = o.side
           /\ Moved(o, move).price = o.price /\ ~Reaches(o, move)
  <1> DEFINE m == Moved(o, move)
  <1>1. /\ o \in Order /\ o.side = side /\ ~o.filled /\ (IsStop(o.type) => o.stop \in Prices)
        /\ 0 \notin Prices
    BY MatchingAssumption DEF Waiting
  <1>2. m.stop = o.stop
    BY <1>1 DEF Moved, Order
  <1>3. ~IsStop(o.type)
    BY <1>1, <1>2
  <1> DEFINE f == Reaches(o, move)
  <1>4. m = [o EXCEPT !.filled = f]
    BY <1>3 DEF Moved, IsStop
  <1> HIDE DEF m, f
  <1>5. m.id = o.id /\ m.side = o.side /\ m.price = o.price
    BY <1>1, <1>4 DEF Order
  <1>6. m.filled = f
    BY <1>1, <1>4 DEF Order
  <1>7. ~f
    BY <1>6, Zenon DEF m
  <1> QED
    BY <1>2, <1>5, <1>7 DEF m, f

LEMMA WalkedStep == Types /\ Walked /\ [Next]_vars => Walked'
  <1> SUFFICES ASSUME Types, Walked, [Next]_vars
               PROVE  Walked'
    OBVIOUS
  <1>1. /\ \A o \in Open : o \in Waiting(o.side) /\ o.side \in {"BUY", "SELL"} /\ o \in Order
        /\ setting \in Settings
        /\ \A o \in Order : o.price \in Nat
    BY OpenOrders
  <1>2. /\ kline \in KLines \cup {None} /\ path \in Seq(Moves) /\ before \in 0 .. placed /\ placed \in Nat
    BY <1>1, OrderFields DEF Types
  <1>3. CASE Place
    <2>1. PICK o \in Order :
              /\ o.id = placed + 1
              /\ o.side \in {"BUY", "SELL"}
              /\ \/ Taker(o) /\ Take(o)
                 \/ o.type # "MARKET" /\ ~IsLimitTaker(o) /\ o \in Waiting(o.side) /\ Rest(o)
              /\ UNCHANGED <<setting, lastPrice, walk, closed, calling, panicked>>
      BY <1>3, PlaceParts
    <2>2. UNCHANGED <<kline, path, busy, before>>
      BY <2>1 DEF walk
    <2>3. Open' \subseteq Open \cup {o}
      BY <2>1, PlacedOpen
    <2>4. ~(o.id <= before)
      BY <1>2, <2>1
    <2> QED
      BY <2>2, <2>3, <2>4 DEF Walked
  <1>4. CASE Cancel
    <2>1. PICK o \in Open : CancelOrder(o)
      BY <1>4 DEF Cancel
    <2>2. /\ ToSet(bidOrders') = {b \in ToSet(bidOrders) : b.id # o.id}
          /\ ToSet(askOrders') = {b \in ToSet(askOrders) : b.id # o.id}
      BY <2>1, CancelParts
    <2>3. Open' \subseteq Open
      BY <2>2 DEF Open
    <2>4. UNCHANGED <<kline, path, busy, before>>
      BY <2>1 DEF CancelOrder, walk
    <2> QED
      BY <2>3, <2>4 DEF Walked
  <1>5. CASE Move
    <2> DEFINE move == Head(path)
    <2>1. path # <<>> /\ MoveTo(move) /\ path' = Tail(path) /\ UNCHANGED <<kline, busy, before>>
      BY <1>5 DEF Move
    <2>2. move \in Moves /\ ToSet(path) = ToSet(path') \cup {move}
      BY <1>2, <2>1, HeadTail
    <2> HIDE DEF move
    <2>3. /\ ToSet(bidOrders') = {m \in {Moved(o, move) : o \in ToSet(bidOrders)} : ~m.filled}
          /\ ToSet(askOrders') = {m \in {Moved(o, move) : o \in ToSet(askOrders)} : ~m.filled}
      <3>1. path \in Seq(Moves) /\ bidOrders \in Seq(Waiting("BUY"))
        BY DEF Types
      <3> QED
        BY <2>1, <2>2, MoveParts
    <2>4. ASSUME busy, kline.close # kline.open, NEW m \in Open', m.stop = 0, m.id <= before
          PROVE  Beyond(m, kline.low, kline.high) \/ Extreme(m, kline) \in ToSet(path')
      <3>1. PICK o \in Open : m = Moved(o, move) /\ ~m.filled
        BY <2>3 DEF Open
      <3>2. /\ o.stop = 0 /\ m.id = o.id /\ m.side = o.side /\ m.price = o.price
            /\ ~Reaches(o, move)
        BY <1>1, <2>2, <2>4, <3>1, MovedPlain
      <3>3. Beyond(o, kline.low, kline.high) \/ Extreme(o, kline) \in ToSet(path)
        BY <2>4, <3>2 DEF Walked
      <3>4. CASE Beyond(o, kline.low, kline.high)
        BY <3>2, <3>4 DEF Beyond
      <3>5. CASE Extreme(o, kline) \in ToSet(path')
        BY <3>2, <3>5 DEF Extreme
      <3>6. CASE Extreme(o, kline) = move
        <4>1. kline \in KLines
          BY <1>2, <2>4 DEF Walked
        <4>2. kline.low \in Nat /\ kline.high \in Nat
          BY <4>1, MatchingAssumption DEF KLine
        <4>3. o.price \in Nat /\ o.side \in {"BUY", "SELL"}
          BY <1>1
        <4>4. Beyond(o, kline.low, kline.high)
          BY <3>2, <3>6, <4>2, <4>3 DEF Extreme, Down, Up, Reaches, Beyond
        <4> QED
          BY <3>2, <4>4 DEF Beyond
      <3> QED
        BY <2>2, <3>3, <3>4, <3>5, <3>6
    <2> QED
      BY <2>1, <2>4 DEF Walked
  <1>6. CASE Execute \/ Panic \/ UNCHANGED vars
    <2>1. UNCHANGED <<bidOrders, askOrders, kline, path, busy, before>>
      BY <1>6 DEF Execute, Panic, vars, books, walk
    <2> QED
      BY <2>1 DEF Walked, Open
  <1>7. CASE ConsumeKLine
    <2>1. PICK k \in KLines : FirstKLine(k) \/ CloseKLine(k)
      BY <1>7 DEF ConsumeKLine
    <2>2. CASE FirstKLine(k)
      BY <2>2 DEF FirstKLine, Walked
    <2>3. CASE CloseKLine(k)
      BY <2>3 DEF CloseKLine, Walked
    <2> QED
      BY <2>1, <2>2, <2>3
  <1>8. CASE ProcessKLine
    <2>1. /\ kline # None /\ UNCHANGED <<kline, books>>
          /\ path' = Path(kline) \/ path' = <<ToOpen(kline)>> \o Path(kline)
      BY <1>8 DEF ProcessKLine
    <2>2. kline \in KLines
      BY <1>2, <2>1
    <2>3. ToOpen(kline) \in Moves
      <3>1. kline.open \in Prices
        BY <2>2, MatchingAssumption DEF KLine
      <3> QED
        BY <3>1 DEF ToOpen, Up, Down, Moves
    <2>4. kline.close # kline.open => Down(kline.low) \in ToSet(path') /\ Up(kline.high) \in ToSet(path')
      <3> HIDE DEF Path, ToOpen
      <3> QED
        BY <2>1, <2>2, <2>3, PathReaches
    <2> QED
      BY <2>1, <2>4 DEF Walked, Extreme
  <1> QED
    BY <1>3, <1>4, <1>5, <1>6, <1>7, <1>8 DEF Next

(* No limit order is left behind the last price: the moves along a K-line lead
   in the direction they say, so an order one passes is among those it compares,
   an order that crosses the price is taken when it is placed, and a stop order
   that turns into a limit order is closed by the move that triggers it or waits
   beyond the new price.  And when a K-line that closes away from its open was
   walked, the orders that were open before it lie outside its range: the walk
   leads to its low and to its high. *)
THEOREM NoneLeftCrossedInvariant == Spec => []NoneLeftCrossed
  <1>1. Init => Uncrossed /\ Walked
    <2> SUFFICES ASSUME Init
                 PROVE  Uncrossed /\ Walked
      OBVIOUS
    <2>1. bidOrders = <<>> /\ askOrders = <<>> /\ path = <<>> /\ busy = FALSE
      BY DEF Init
    <2>2. Open = {}
      BY <2>1 DEF Open, ToSet
    <2> QED
      BY <2>1, <2>2 DEF Uncrossed, Directed, Walked
  <1>2. Uncrossed /\ Walked => NoneLeftCrossed
    <2> SUFFICES ASSUME Uncrossed, Walked
                 PROVE  NoneLeftCrossed
      OBVIOUS
    <2>1. path = <<>> => ToSet(path) = {}
      BY DEF ToSet
    <2> QED
      BY <2>1 DEF Uncrossed, Walked, NoneLeftCrossed, AtRest
  <1> QED
    BY <1>1, <1>2, UncrossedStep, WalkedStep, TypesHold, PTL DEF Spec


-----------------------------------------------------------------------------
(***************************************************************************)
(* What orders hold                                                        *)
(***************************************************************************)
LEMMA SeqFinite ==
    ASSUME NEW V, NEW s \in Seq(V)
    PROVE  IsFiniteSet(ToSet(s))
  <1> DEFINE n == Len(s)
             f == [i \in 1 .. n |-> s[i]]
  <1>1. n \in Nat /\ DOMAIN s = 1 .. n
    OBVIOUS
  <1>2. f \in Surjection(1 .. n, ToSet(s))
    BY <1>1 DEF Surjection, ToSet
  <1>3. IsFiniteSet(1 .. n)
    BY <1>1, FS_Interval
  <1> HIDE DEF f, n
  <1> QED
    BY <1>2, <1>3, FS_Surjection

(* What an order with a price holds of the currency it pays with. *)
Held(o) == IF o.side = "BUY" THEN o.quantity * o.price ELSE o.quantity

Weight(S) == SumFunctionOnSet([o \in S |-> Held(o)], S)

LEMMA WeightEmpty == Weight({}) = 0
  BY SumEmpty DEF Weight

LEMMA HeldNat ==
    ASSUME setting \in Settings
    PROVE  \A o \in Order : Held(o) \in Nat
  <1> SUFFICES ASSUME NEW o \in Order
               PROVE  Held(o) \in Nat
    OBVIOUS
  <1>1. o.quantity \in Nat /\ o.price \in Nat
    BY OrderFields
  <1>2. o.quantity * o.price \in Nat
    BY <1>1
  <1> QED
    BY <1>1, <1>2 DEF Held

LEMMA WeightAdd ==
    ASSUME setting \in Settings, NEW S \in SUBSET Order, IsFiniteSet(S), NEW o \in Order, o \notin S
    PROVE  Weight(S \cup {o}) = Weight(S) + Held(o)
  <1> DEFINE f == [x \in S \cup {o} |-> Held(x)]
             g == [x \in S |-> Held(x)]
  <1>1. \A x \in S \cup {o} : f[x] = Held(x) /\ f[x] \in Int
    BY HeldNat
  <1>2. \A x \in S : g[x] \in Int /\ g[x] = f[x]
    BY <1>1
  <1>3. Weight(S \cup {o}) = SumFunctionOnSet(f, S \cup {o}) /\ Weight(S) = SumFunctionOnSet(g, S)
    BY DEF Weight
  <1> HIDE DEF f, g
  <1>4. SumFunctionOnSet(f, S \cup {o}) = f[o] + SumFunctionOnSet(f, S)
    BY <1>1, SumAdd
  <1>5. SumFunctionOnSet(g, S) = SumFunctionOnSet(f, S)
    BY <1>2, SumAgree
  <1>6. SumFunctionOnSet(f, S) \in Int /\ f[o] = Held(o) /\ f[o] \in Int
    BY <1>1, SumType
  <1> QED
    BY <1>3, <1>4, <1>5, <1>6

LEMMA WeightNat ==
    ASSUME setting \in Settings, NEW S \in SUBSET Order, IsFiniteSet(S)
    PROVE  Weight(S) \in Nat
  <1> DEFINE Q == {T \in SUBSET S : Weight(T) \in Nat}
  <1>1. {} \in Q
    BY WeightEmpty
  <1>2. ASSUME NEW T \in SUBSET S, NEW x \in S \ T, T \in Q
        PROVE  T \cup {x} \in Q
    <2>1. T \cup {x} \in SUBSET S /\ T \in SUBSET Order /\ x \in Order /\ x \notin T
      OBVIOUS
    <2>2. IsFiniteSet(T)
      BY FS_Subset
    <2>3. Weight(T \cup {x}) = Weight(T) + Held(x)
      BY <2>1, <2>2, WeightAdd
    <2>4. Weight(T) \in Nat /\ Held(x) \in Nat
      BY <1>2, <2>1, HeldNat
    <2> QED
      BY <2>1, <2>3, <2>4
  <1> HIDE DEF Q
  <1>3. S \in Q
    BY <1>1, <1>2, FiniteSetInduction
  <1> QED
    BY <1>3 DEF Q

LEMMA WeightRemove ==
    ASSUME setting \in Settings, NEW S \in SUBSET Order, IsFiniteSet(S), NEW o \in S
    PROVE  /\ Weight(S \ {o}) = Weight(S) - Held(o)
           /\ Held(o) <= Weight(S) /\ Held(o) \in Nat /\ Weight(S) \in Nat
  <1> DEFINE R == S \ {o}
  <1>1. R \in SUBSET Order /\ o \notin R /\ o \in Order /\ R \cup {o} = S
    OBVIOUS
  <1>2. IsFiniteSet(R)
    BY FS_RemoveElement
  <1> HIDE DEF R
  <1>3. Weight(R \cup {o}) = Weight(R) + Held(o)
    BY <1>1, <1>2, WeightAdd
  <1>4. Weight(R) \in Nat /\ Held(o) \in Nat
    BY <1>1, <1>2, WeightNat, HeldNat
  <1>5. Weight(S) = Weight(R) + Held(o)
    BY <1>1, <1>3
  <1>6. Weight(R) = Weight(S) - Held(o) /\ Held(o) <= Weight(S) /\ Weight(S) \in Nat
    BY <1>4, <1>5
  <1> QED
    BY <1>4, <1>6 DEF R

(* Orders that change, but not their amounts, and stay apart. *)
LEMMA WeightImage ==
    ASSUME setting \in Settings, NEW S \in SUBSET Order, IsFiniteSet(S), NEW h \in [S -> Order],
           \A x, y \in S : h[x] = h[y] => x = y,
           \A x \in S : Held(h[x]) = Held(x)
    PROVE  Weight({h[x] : x \in S}) = Weight(S)
  <1> DEFINE Im(T) == {h[x] : x \in T}
             Q == {T \in SUBSET S : Weight(Im(T)) = Weight(T) /\ IsFiniteSet(Im(T))}
  <1>1. {} \in Q
    <2>1. Im({}) = {}
      OBVIOUS
    <2> HIDE DEF Im
    <2> QED
      BY <2>1, WeightEmpty, FS_EmptySet
  <1>2. ASSUME NEW T \in SUBSET S, NEW x \in S \ T, T \in Q
        PROVE  T \cup {x} \in Q
    <2>1. T \cup {x} \in SUBSET S /\ T \in SUBSET Order /\ x \in Order /\ x \notin T
      OBVIOUS
    <2>2. IsFiniteSet(T)
      BY FS_Subset
    <2>3. Weight(T \cup {x}) = Weight(T) + Held(x)
      BY <2>1, <2>2, WeightAdd
    <2>4. Im(T \cup {x}) = Im(T) \cup {h[x]}
      OBVIOUS
    <2>5. h[x] \notin Im(T) /\ h[x] \in Order /\ Im(T) \in SUBSET Order
      OBVIOUS
    <2>6. Weight(Im(T)) = Weight(T) /\ IsFiniteSet(Im(T))
      BY <1>2
    <2> HIDE DEF Im
    <2>7. Weight(Im(T) \cup {h[x]}) = Weight(Im(T)) + Held(h[x])
      BY <2>5, <2>6, WeightAdd
    <2>8. IsFiniteSet(Im(T) \cup {h[x]})
      BY <2>6, FS_AddElement
    <2>9. Weight(Im(T \cup {x})) = Weight(T \cup {x})
      BY <2>3, <2>4, <2>6, <2>7
    <2> QED
      BY <2>1, <2>4, <2>8, <2>9
  <1>3. S \in Q
    <2> HIDE DEF Q
    <2> QED
      BY <1>1, <1>2, FiniteSetInduction
  <1> QED
    BY <1>3

-----------------------------------------------------------------------------
(***************************************************************************)
(* Orders are told apart by their numbers                                  *)
(***************************************************************************)
All == Open \cup ToSet(closed)

Unique ==
    /\ DistinctIDs(bidOrders) /\ DistinctIDs(askOrders) /\ DistinctIDs(closed)
    /\ \A o, p \in All : o.id = p.id => o = p
    /\ \A o \in All : o.id <= placed

(* Without stop market orders no order is executed at another price than its
   own or, for a buy order, a lower one; without stop orders at its own. *)
Kinds ==
    /\ "STOP_MARKET" \notin setting.types =>
           \A o \in All : o.type \notin {"MARKET", "STOP_MARKET"} /\ (o.side = "BUY" => o.avg <= o.price)
    /\ Stops = {} => \A o \in All : ~IsStop(o.type) /\ o.avg = 0

LEMMA AllOrders ==
    ASSUME Types
    PROVE  /\ \A o \in All : o \in Order /\ o.side \in {"BUY", "SELL"} /\ o.id \in Nat /\ o.quantity \in Nat
           /\ \A o \in Open : o \in Waiting(o.side) /\ ~o.filled
           /\ \A o \in ToSet(closed) : o \in Done /\ o.filled
           /\ IsFiniteSet(All)
           /\ \A side : Pending(side) \in SUBSET Order /\ IsFiniteSet(Pending(side)) /\ Pending(side) = {o \in All : o.side = side}
           /\ setting \in Settings /\ placed \in Nat
  <1>1. /\ bidOrders \in Seq(Waiting("BUY")) /\ askOrders \in Seq(Waiting("SELL")) /\ closed \in Seq(Done)
        /\ setting \in Settings /\ placed \in 0 .. setting.orders /\ setting.orders \in Nat
    BY OrderFields DEF Types
  <1>2. /\ \A o \in Open : o \in Waiting(o.side) /\ o \in Order
        /\ \A o \in ToSet(closed) : o \in Done
    BY OpenOrders
  <1>3. \A o \in ToSet(closed) : o \in Order
    BY <1>2 DEF Done
  <1>4. \A o \in All : o \in Order
    BY <1>2, <1>3 DEF All
  <1>5. \A o \in Order : o.side \in {"BUY", "SELL"} /\ o.id \in Nat /\ o.quantity \in Nat
    BY <1>1, OrderFields
  <1>6. /\ \A o \in Open : ~o.filled
        /\ \A o \in ToSet(closed) : o.filled
    BY <1>2, Zenon DEF Waiting, Done
  <1>7. IsFiniteSet(ToSet(bidOrders)) /\ IsFiniteSet(ToSet(askOrders)) /\ IsFiniteSet(ToSet(closed))
    BY <1>1, SeqFinite
  <1>8. IsFiniteSet(All)
    BY <1>7, FS_Union DEF All, Open
  <1>9. ASSUME NEW side
        PROVE  Pending(side) \in SUBSET Order /\ IsFiniteSet(Pending(side)) /\ Pending(side) = {o \in All : o.side = side}
    <2>1. Pending(side) = {o \in All : o.side = side}
      BY DEF Pending, All
    <2>2. Pending(side) \in SUBSET All
      BY <2>1
    <2> QED
      BY <1>4, <1>8, <2>1, <2>2, FS_Subset
  <1>10. placed \in Nat
    BY <1>1
  <1> QED
    BY <1>1, <1>2, <1>4, <1>5, <1>6, <1>8, <1>9, <1>10

(* What is reserved is what the orders hold at their own prices. *)
LEMMA ReservedIs ==
    ASSUME Types, Kinds
    PROVE  /\ Reserved("SELL") = Weight(Pending("SELL"))
           /\ "STOP_MARKET" \notin setting.types => Reserved("BUY") = Weight(Pending("BUY"))
           /\ Weight(Pending("SELL")) \in Nat /\ Weight(Pending("BUY")) \in Nat
  <1>1. /\ setting \in Settings
        /\ \A side : Pending(side) \in SUBSET Order /\ IsFiniteSet(Pending(side)) /\ Pending(side) = {o \in All : o.side = side}
    BY AllOrders
  <1>2. Weight(Pending("SELL")) \in Nat /\ Weight(Pending("BUY")) \in Nat
    BY <1>1, WeightNat
  <1>3. ASSUME NEW side, \A o \in Pending(side) : Reserve(side, o.quantity, CheckedPrice(o)) = Held(o)
        PROVE  Reserved(side) = Weight(Pending(side))
    <2> DEFINE P == Pending(side)
               f == [o \in P |-> Reserve(side, o.quantity, CheckedPrice(o))]
               g == [o \in P |-> Held(o)]
    <2>1. \A o \in P : Held(o) \in Int
      BY <1>1, HeldNat
    <2>2. \A o \in P : f[o] \in Int /\ f[o] = g[o]
      BY <1>3, <2>1
    <2>3. Reserved(side) = SumFunctionOnSet(f, P) /\ Weight(P) = SumFunctionOnSet(g, P)
      BY DEF Reserved, Weight
    <2> HIDE DEF f, g, P
    <2>4. IsFiniteSet(P)
      BY <1>1 DEF P
    <2>5. SumFunctionOnSet(f, P) = SumFunctionOnSet(g, P)
      BY <2>2, <2>4, SumAgree
    <2> QED
      BY <2>3, <2>5 DEF P
  <1>4. Reserved("SELL") = Weight(Pending("SELL"))
    <2>1. \A o \in Pending("SELL") : Reserve("SELL", o.quantity, CheckedPrice(o)) = Held(o)
      BY DEF Pending, Reserve, Held
    <2> QED
      BY <1>3, <2>1
  <1>5. ASSUME "STOP_MARKET" \notin setting.types
        PROVE  Reserved("BUY") = Weight(Pending("BUY"))
    <2>1. \A o \in Pending("BUY") : o.side = "BUY" /\ o.type \notin {"MARKET", "STOP_MARKET"}
      BY <1>1, <1>5 DEF Kinds
    <2>2. \A o \in Pending("BUY") : Reserve("BUY", o.quantity, CheckedPrice(o)) = Held(o)
      BY <2>1 DEF Reserve, Held, CheckedPrice
    <2> QED
      BY <1>3, <2>2
  <1> QED
    BY <1>2, <1>4, <1>5

LEMMA DistinctAppend ==
    ASSUME NEW V, NEW s \in Seq(V), NEW v \in V, DistinctIDs(s), \A x \in ToSet(s) : x.id # v.id
    PROVE  DistinctIDs(Append(s, v))
  <1> DEFINE u == Append(s, v)
             n == Len(s) + 1
  <1>1. /\ DOMAIN u = 1 .. n /\ n \in Nat \ {0} /\ u[n] = v
        /\ \A i \in 1 .. n - 1 : u[i] = s[i] /\ i \in DOMAIN s
    BY AppendElements
  <1> HIDE DEF u, n
  <1>2. \A i \in 1 .. n - 1 : u[i].id # v.id
    <2>1. \A i \in 1 .. n - 1 : u[i] \in ToSet(s)
      BY <1>1, Elements
    <2> QED
      BY <2>1
  <1>3. ASSUME NEW i \in 1 .. n, NEW j \in 1 .. n, u[i].id = u[j].id
        PROVE  i = j
    <2>1. CASE i = n \/ j = n
      BY <1>1, <1>2, <1>3, <2>1
    <2>2. CASE i # n /\ j # n
      <3>1. i \in 1 .. n - 1 /\ j \in 1 .. n - 1
        BY <1>1, <2>2
      <3>2. s[i].id = s[j].id /\ i \in DOMAIN s /\ j \in DOMAIN s
        BY <1>1, <1>3, <3>1
      <3> QED
        BY <3>2 DEF DistinctIDs
    <2> QED
      BY <2>1, <2>2
  <1> QED
    BY <1>1, <1>3 DEF DistinctIDs, u

LEMMA DistinctConcat ==
    ASSUME NEW V, NEW s \in Seq(V), NEW t \in Seq(V), DistinctIDs(s), DistinctIDs(t),
           \A x \in ToSet(s) : \A y \in ToSet(t) : x.id # y.id
    PROVE  DistinctIDs(s \o t)
  <1> DEFINE m == Len(s)
             n == Len(t)
             u == s \o t
  <1>1. /\ m \in Nat /\ n \in Nat
        /\ DOMAIN s = 1 .. m /\ DOMAIN t = 1 .. n /\ DOMAIN u = 1 .. m + n
        /\ \A i \in 1 .. m + n : u[i] = IF i <= m THEN s[i] ELSE t[i - m]
    OBVIOUS
  <1>2. /\ \A i \in DOMAIN s : s[i] \in ToSet(s)
        /\ \A i \in DOMAIN t : t[i] \in ToSet(t)
    BY Elements
  <1> HIDE DEF m, n, u
  <1>3. ASSUME NEW i \in 1 .. m + n, NEW j \in 1 .. m + n, u[i].id = u[j].id
        PROVE  i = j
    <2>1. CASE i <= m /\ j <= m
      <3>1. i \in DOMAIN s /\ j \in DOMAIN s /\ s[i].id = s[j].id
        BY <1>1, <1>3, <2>1
      <3> QED
        BY <3>1 DEF DistinctIDs
    <2>2. CASE ~(i <= m) /\ ~(j <= m)
      <3>1. i - m \in DOMAIN t /\ j - m \in DOMAIN t /\ t[i - m].id = t[j - m].id
        BY ONLY <1>1, <1>3, <2>2
      <3>2. i - m = j - m
        BY <3>1 DEF DistinctIDs
      <3> QED
        BY <1>1, <3>2
    <2>3. CASE i <= m /\ ~(j <= m)
      <3>1. i \in DOMAIN s /\ j - m \in DOMAIN t /\ s[i].id = t[j - m].id
        BY <1>1, <1>3, <2>3
      <3> QED
        BY <1>2, <3>1
    <2>4. CASE ~(i <= m) /\ j <= m
      <3>1. j \in DOMAIN s /\ i - m \in DOMAIN t /\ s[j].id = t[i - m].id
        BY <1>1, <1>3, <2>4
      <3> QED
        BY <1>2, <3>1
    <2> QED
      BY <2>1, <2>2, <2>3, <2>4
  <1> QED
    BY <1>1, <1>3 DEF DistinctIDs, u

LEMMA DistinctTail ==
    ASSUME NEW V, NEW s \in Seq(V), s # <<>>, DistinctIDs(s)
    PROVE  DistinctIDs(Tail(s)) /\ ToSet(Tail(s)) = ToSet(s) \ {Head(s)}
  <1> DEFINE t == Tail(s)
             n == Len(s)
  <1>1. /\ Head(s) = s[1] /\ n \in Nat \ {0} /\ DOMAIN s = 1 .. n /\ DOMAIN t = 1 .. n - 1
        /\ \A i \in 1 .. n - 1 : t[i] = s[i + 1]
        /\ ToSet(s) = ToSet(t) \cup {Head(s)}
    BY HeadTail
  <1> HIDE DEF t, n
  <1>2. DistinctIDs(t)
    <2>1. ASSUME NEW i \in 1 .. n - 1, NEW j \in 1 .. n - 1, t[i].id = t[j].id
          PROVE  i = j
      <3>1. i + 1 \in DOMAIN s /\ j + 1 \in DOMAIN s /\ s[i + 1].id = s[j + 1].id
        BY <1>1, <2>1
      <3>2. i + 1 = j + 1
        BY <3>1 DEF DistinctIDs
      <3> QED
        BY <3>2
    <2> QED
      BY <1>1, <2>1 DEF DistinctIDs
  <1>3. ASSUME NEW i \in 1 .. n - 1
        PROVE  t[i] # Head(s)
    <2>1. i + 1 \in DOMAIN s /\ 1 \in DOMAIN s /\ i + 1 # 1 /\ t[i] = s[i + 1]
      BY <1>1
    <2>2. s[i + 1].id # s[1].id
      BY <2>1 DEF DistinctIDs
    <2> QED
      BY <1>1, <2>1, <2>2
  <1>4. Head(s) \notin ToSet(t)
    <2>1. ToSet(t) = {t[i] : i \in 1 .. n - 1}
      BY <1>1 DEF ToSet
    <2> QED
      BY <1>3, <2>1
  <1> QED
    BY <1>1, <1>2, <1>4 DEF t

LEMMA DistinctAfter ==
    ASSUME setting \in Settings, NEW side \in {"BUY", "SELL"}, NEW queue \in Seq(Waiting(side)),
           NEW move \in Moves, DistinctIDs(queue)
    PROVE  DistinctIDs(After(queue, move))
  <1> DEFINE A == After(queue, move)
  <1>1. DOMAIN A = DOMAIN queue /\ \A k \in DOMAIN queue : A[k] = Moved(queue[k], move)
    BY DEF After
  <1>2. \A k \in DOMAIN queue : queue[k] \in Waiting(side)
    BY Elements
  <1>3. \A k \in DOMAIN queue : A[k].id = queue[k].id
    BY <1>1, <1>2, MovedFields
  <1> HIDE DEF A
  <1> QED
    BY <1>1, <1>3 DEF DistinctIDs, A

(* A move keeps orders apart. *)
LEMMA MoveUnique ==
    ASSUME Types, Unique, NEW move \in Moves, MoveTo(move), closed = <<>>
    PROVE  /\ DistinctIDs(bidOrders') /\ DistinctIDs(askOrders') /\ DistinctIDs(closed')
           /\ All' = {Moved(o, move) : o \in Open}
           /\ All = Open
           /\ \A o \in Open : /\ Moved(o, move).id = o.id /\ Moved(o, move).side = o.side
                              /\ Moved(o, move).quantity = o.quantity /\ Moved(o, move) \in Order
  <1> DEFINE B == After(bidOrders, move)
             A == After(askOrders, move)
             Both == IF move.up THEN B \o A ELSE A \o B
             Left == {o \in ToSet(Both) : ~o.filled}
             Filled == {o \in ToSet(Both) : o.filled}
  <1>1. setting \in Settings /\ bidOrders \in Seq(Waiting("BUY")) /\ askOrders \in Seq(Waiting("SELL"))
    BY DEF Types
  <1>2. /\ bidOrders' = Filter(B, Left) /\ askOrders' = Filter(A, Left)
        /\ closed' = Filter(Both, Filled)
    BY DEF MoveTo, After, StaysOpen, IsFilled
  <1>3. /\ B \in Seq(Order) /\ ToSet(B) = {Moved(o, move) : o \in ToSet(bidOrders)} /\ DistinctIDs(B)
        /\ A \in Seq(Order) /\ ToSet(A) = {Moved(o, move) : o \in ToSet(askOrders)} /\ DistinctIDs(A)
    BY <1>1, AfterElements, DistinctAfter DEF Unique
  <1>4. ASSUME NEW o \in Open
        PROVE  /\ Moved(o, move).id = o.id /\ Moved(o, move).side = o.side
               /\ Moved(o, move).quantity = o.quantity /\ Moved(o, move) \in Order
    <2>1. o \in Waiting(o.side) /\ o.side \in {"BUY", "SELL"}
      BY OpenOrders
    <2> QED
      BY <1>1, <2>1, MovedFields
  <1>5. ASSUME NEW b \in ToSet(bidOrders), NEW a \in ToSet(askOrders)
        PROVE  b.id # a.id
    <2>1. b \in All /\ a \in All
      BY DEF All, Open
    <2>2. b.side = "BUY" /\ a.side = "SELL"
      BY OpenOrders DEF Waiting
    <2> QED
      BY <2>1, <2>2 DEF Unique
  <1>6. \A x \in ToSet(B) : \A y \in ToSet(A) : x.id # y.id /\ y.id # x.id
    BY <1>3, <1>4, <1>5 DEF Open
  <1> HIDE DEF B, A
  <1>7. DistinctIDs(Both) /\ Both \in Seq(Order)
    <2>1. DistinctIDs(B \o A) /\ DistinctIDs(A \o B)
      BY <1>3, <1>6, DistinctConcat
    <2>2. B \o A \in Seq(Order) /\ A \o B \in Seq(Order)
      BY <1>3, ConcatElements
    <2> QED
      BY <2>1, <2>2
  <1> HIDE DEF Both, Left, Filled
  <1>8. DistinctIDs(bidOrders') /\ DistinctIDs(askOrders') /\ DistinctIDs(closed')
    BY <1>2, <1>3, <1>7, FilterDistinct
  <1>9. ToSet(closed) = {}
    BY DEF ToSet
  <1>10. All = Open
    BY <1>9 DEF All
  <1>11. All' = {Moved(o, move) : o \in Open}
    <2> DEFINE bids == {Moved(o, move) : o \in ToSet(bidOrders)}
               asks == {Moved(o, move) : o \in ToSet(askOrders)}
    <2>1. /\ ToSet(bidOrders') = {m \in bids : ~m.filled}
          /\ ToSet(askOrders') = {m \in asks : ~m.filled}
          /\ ToSet(closed') = {m \in bids \cup asks : m.filled}
      BY MoveParts
    <2>2. bids \cup asks = {Moved(o, move) : o \in Open}
      BY DEF Open
    <2> HIDE DEF bids, asks
    <2>3. All' = bids \cup asks
      BY <2>1 DEF All, Open
    <2> QED
      BY <2>2, <2>3
  <1> QED
    BY <1>4, <1>8, <1>10, <1>11

LEMMA UniqueStep == Types /\ Unique /\ [Next]_vars => Unique'
  <1> SUFFICES ASSUME Types, Unique, [Next]_vars
               PROVE  Unique'
    OBVIOUS
  <1>1. /\ \A o \in All : o \in Order /\ o.id \in Nat
        /\ setting \in Settings /\ placed \in Nat
    BY AllOrders
  <1>2. /\ bidOrders \in Seq(Waiting("BUY")) /\ askOrders \in Seq(Waiting("SELL")) /\ closed \in Seq(Done)
        /\ account \in Accounts /\ lastPrice \in Prices \cup {0}
    BY DEF Types, Accounts
  <1>3. /\ DistinctIDs(bidOrders) /\ DistinctIDs(askOrders) /\ DistinctIDs(closed)
        /\ \A o, p \in All : o.id = p.id => o = p
        /\ \A o \in All : o.id <= placed
    BY DEF Unique
  <1>4. CASE Place
    <2>1. PICK o \in Order :
              /\ o.id = placed + 1
              /\ \/ Taker(o) /\ Take(o)
                 \/ o.type # "MARKET" /\ ~IsLimitTaker(o) /\ o \in Waiting(o.side) /\ Rest(o)
              /\ o.side \in {"BUY", "SELL"}
              /\ placed' = placed + 1
              /\ UNCHANGED <<setting, lastPrice, walk, closed, calling, panicked>>
      BY <1>4, PlaceParts
    <2>2. CASE Taker(o) /\ Take(o)
      <3>1. bidOrders' = bidOrders /\ askOrders' = askOrders /\ closed' = closed
        BY <2>1, <2>2 DEF Take, books
      <3>2. \A p \in All : p.id <= placed'
        BY <1>1, <1>3, <2>1
      <3> QED
        BY <1>3, <3>1, <3>2 DEF Unique, All, Open
    <2>3. CASE o.type # "MARKET" /\ ~IsLimitTaker(o) /\ o \in Waiting(o.side) /\ Rest(o)
      <3>1. \/ bidOrders' = Append(bidOrders, o) /\ askOrders' = askOrders /\ o \in Waiting("BUY")
            \/ askOrders' = Append(askOrders, o) /\ bidOrders' = bidOrders /\ o \in Waiting("SELL")
        BY <1>1, <1>2, <2>1, <2>3, RestParts
      <3>2. \A p \in All : p.id # o.id
        BY <1>1, <1>3, <2>1
      <3>3. /\ DistinctIDs(bidOrders') /\ DistinctIDs(askOrders') /\ All' = All \cup {o}
        <4>1. CASE bidOrders' = Append(bidOrders, o) /\ askOrders' = askOrders /\ o \in Waiting("BUY")
          <5>1. ToSet(bidOrders') = ToSet(bidOrders) \cup {o}
            BY <1>2, <4>1, AppendElements
          <5>2. \A p \in ToSet(bidOrders) : p.id # o.id
            BY <3>2 DEF All, Open
          <5>3. DistinctIDs(bidOrders')
            BY <1>2, <1>3, <4>1, <5>2, DistinctAppend
          <5> QED
            BY <1>3, <2>1, <4>1, <5>1, <5>3 DEF All, Open
        <4>2. CASE askOrders' = Append(askOrders, o) /\ bidOrders' = bidOrders /\ o \in Waiting("SELL")
          <5>1. ToSet(askOrders') = ToSet(askOrders) \cup {o}
            BY <1>2, <4>2, AppendElements
          <5>2. \A p \in ToSet(askOrders) : p.id # o.id
            BY <3>2 DEF All, Open
          <5>3. DistinctIDs(askOrders')
            BY <1>2, <1>3, <4>2, <5>2, DistinctAppend
          <5> QED
            BY <1>3, <2>1, <4>2, <5>1, <5>3 DEF All, Open
        <4> QED
          BY <3>1, <4>1, <4>2
      <3>4. \A p \in All' : p.id <= placed'
        BY <1>1, <1>3, <2>1, <3>3
      <3>5. \A p, q \in All' : p.id = q.id => p = q
        BY <1>3, <3>2, <3>3
      <3>6. closed' = closed
        BY <2>1
      <3> QED
        BY <1>3, <3>3, <3>4, <3>5, <3>6 DEF Unique
    <2> QED
      BY <2>1, <2>2, <2>3
  <1>5. CASE Cancel
    <2>1. PICK o \in Open : CancelOrder(o)
      BY <1>5 DEF Cancel
    <2>2. /\ ToSet(bidOrders') = {b \in ToSet(bidOrders) : b.id # o.id}
          /\ ToSet(askOrders') = {b \in ToSet(askOrders) : b.id # o.id}
      BY <2>1, CancelParts
    <2>3. /\ bidOrders' = Without(bidOrders, o) /\ askOrders' = Without(askOrders, o)
          /\ closed' = closed /\ placed' = placed
      BY <2>1 DEF CancelOrder
    <2>4. DistinctIDs(bidOrders') /\ DistinctIDs(askOrders')
      BY <1>2, <1>3, <2>3, FilterDistinct DEF Without
    <2>5. All' \subseteq All
      BY <2>2, <2>3 DEF All, Open
    <2> QED
      BY <1>3, <2>3, <2>4, <2>5 DEF Unique
  <1>6. CASE Move
    <2> DEFINE move == Head(path)
    <2>1. path \in Seq(Moves) /\ path # <<>> /\ MoveTo(move) /\ closed = <<>> /\ placed' = placed
      BY <1>6 DEF Types, Move
    <2>2. move \in Moves
      BY <2>1, HeadTail
    <2> HIDE DEF move
    <2>3. /\ DistinctIDs(bidOrders') /\ DistinctIDs(askOrders') /\ DistinctIDs(closed')
          /\ All' = {Moved(o, move) : o \in Open} /\ All = Open
          /\ \A o \in Open : Moved(o, move).id = o.id
      BY <2>1, <2>2, MoveUnique
    <2>4. \A p, q \in All' : p.id = q.id => p = q
      BY <1>3, <2>3
    <2>5. \A p \in All' : p.id <= placed'
      BY <1>3, <2>1, <2>3
    <2> QED
      BY <2>3, <2>4, <2>5 DEF Unique
  <1>7. CASE Execute
    <2>1. closed # <<>> /\ closed' = Tail(closed) /\ UNCHANGED <<bidOrders, askOrders, placed>>
      BY <1>7 DEF Execute, books
    <2>2. DistinctIDs(closed') /\ ToSet(closed') = ToSet(closed) \ {Head(closed)}
      BY <1>2, <1>3, <2>1, DistinctTail
    <2>3. All' \subseteq All
      BY <2>1, <2>2 DEF All, Open
    <2> QED
      BY <1>3, <2>1, <2>2, <2>3 DEF Unique
  <1>8. CASE ConsumeKLine \/ ProcessKLine \/ Panic \/ UNCHANGED vars
    <2>1. UNCHANGED <<bidOrders, askOrders, closed, placed>>
      BY <1>8, QuietParts
    <2> QED
      BY <1>3, <2>1 DEF Unique, All, Open
  <1> QED
    BY <1>4, <1>5, <1>6, <1>7, <1>8 DEF Next

(* Only a stop market order changes its price with a move, and only a stop
   limit order that is a taker is executed at another one. *)
LEMMA MovedKind ==
    ASSUME setting \in Settings, NEW side \in {"BUY", "SELL"}, NEW o \in Waiting(side), NEW move \in Moves
    PROVE  LET m == Moved(o, move)
           IN  /\ o.type # "STOP_MARKET" =>
                      /\ m.price = o.price /\ m.type \notin {"MARKET", "STOP_MARKET"}
                      /\ m.avg = o.avg \/ (m.avg = move.to /\ TakerAt(o, move.to))
               /\ ~IsStop(o.type) => m.type = o.type /\ m.avg = o.avg
  <1>1. o \in Order /\ o.type \in OrderType \ {"MARKET"} /\ move.to \in Prices
    BY OrderFields DEF Waiting, Moves
  <1> DEFINE m == Moved(o, move)
  <1>2. CASE IsStop(o.type) /\ ~Triggered(o, move)
    <2>1. m = o
      BY <1>2 DEF Moved
    <2> QED
      BY <1>1, <1>2, <2>1
  <1>3. CASE o.type = "STOP_MARKET"
    BY <1>3 DEF IsStop
  <1>4. CASE o.type = "STOP_LIMIT" /\ Triggered(o, move)
    <2>1. m = IF TakerAt(o, move.to)
              THEN [o EXCEPT !.type = "LIMIT", !.avg = move.to, !.filled = TRUE]
              ELSE [o EXCEPT !.type = "LIMIT"]
      BY <1>4 DEF Moved, IsStop
    <2>2. "LIMIT" \in OrderType
      BY DEF OrderType
    <2>3. CASE TakerAt(o, move.to)
      <3> DEFINE m1 == [o EXCEPT !.type = "LIMIT"]
                 m2 == [m1 EXCEPT !.avg = move.to]
      <3>1. m = [m2 EXCEPT !.filled = TRUE]
        BY <2>1, <2>3
      <3>2. m1 \in Order /\ m1.price = o.price /\ m1.type = "LIMIT"
        BY <1>1, <2>2, OrderWith
      <3> HIDE DEF m1
      <3>3. m2 \in Order /\ m2.price = o.price /\ m2.type = "LIMIT" /\ m2.avg = move.to
        BY <1>1, <3>2, OrderWith
      <3> HIDE DEF m2, m
      <3>4. m.price = m2.price /\ m.type = m2.type /\ m.avg = m2.avg
        BY <3>1, <3>3, OrderWith
      <3> QED
        BY <1>4, <2>3, <3>3, <3>4 DEF m, IsStop
    <2>4. CASE ~TakerAt(o, move.to)
      <3>1. m = [o EXCEPT !.type = "LIMIT"]
        BY <2>1, <2>4
      <3> HIDE DEF m
      <3>2. m.price = o.price /\ m.type = "LIMIT" /\ m.avg = o.avg
        BY <1>1, <2>2, <3>1, OrderWith
      <3> QED
        BY <1>4, <3>2 DEF m, IsStop
    <2> QED
      BY <2>3, <2>4
  <1>5. CASE ~IsStop(o.type)
    <2> DEFINE f == Reaches(o, move)
    <2>1. m = [o EXCEPT !.filled = f] /\ f \in BOOLEAN
      BY <1>5 DEF Moved, IsStop, Reaches, Moves
    <2> HIDE DEF m, f
    <2>2. m.price = o.price /\ m.type = o.type /\ m.avg = o.avg
      BY <1>1, <2>1 DEF Order
    <2> QED
      BY <1>1, <1>5, <2>2 DEF m, IsStop
  <1> QED
    BY <1>1, <1>2, <1>3, <1>4, <1>5 DEF IsStop, OrderType

LEMMA KindsStep == Types /\ Unique /\ Kinds /\ [Next]_vars => Kinds'
  <1> SUFFICES ASSUME Types, Unique, Kinds, [Next]_vars
               PROVE  Kinds'
    OBVIOUS
  <1>1. /\ \A o \in All : o \in Order
        /\ \A o \in Open : o \in Waiting(o.side)
        /\ setting \in Settings
    BY AllOrders
  <1>2. /\ bidOrders \in Seq(Waiting("BUY")) /\ askOrders \in Seq(Waiting("SELL")) /\ closed \in Seq(Done)
        /\ account \in Accounts /\ lastPrice \in Prices \cup {0}
    BY DEF Types, Accounts
  <1>3. /\ "STOP_MARKET" \notin setting.types =>
               \A o \in All : o.type \notin {"MARKET", "STOP_MARKET"} /\ (o.side = "BUY" => o.avg <= o.price)
        /\ Stops = {} => \A o \in All : ~IsStop(o.type) /\ o.avg = 0
    BY DEF Kinds
  <1>4. ASSUME setting' = setting, All' \subseteq All
        PROVE  Kinds'
    <2>1. Stops' = Stops
      BY <1>4 DEF Stops
    <2> QED
      BY <1>3, <1>4, <2>1 DEF Kinds
  <1>5. CASE Place
    <2>1. PICK o \in Order :
              /\ o.avg = 0 /\ o.type \in setting.types
              /\ \/ Taker(o) /\ Take(o)
                 \/ o.type # "MARKET" /\ ~IsLimitTaker(o) /\ o \in Waiting(o.side) /\ Rest(o)
              /\ UNCHANGED <<setting, lastPrice, walk, closed, calling, panicked>>
      BY <1>5, PlaceParts
    <2>2. CASE Taker(o) /\ Take(o)
      <3>1. bidOrders' = bidOrders /\ askOrders' = askOrders /\ closed' = closed
        BY <2>1, <2>2 DEF Take, books
      <3> QED
        BY <1>4, <2>1, <3>1 DEF All, Open
    <2>3. CASE o.type # "MARKET" /\ ~IsLimitTaker(o) /\ o \in Waiting(o.side) /\ Rest(o)
      <3>1. \/ bidOrders' = Append(bidOrders, o) /\ askOrders' = askOrders /\ o \in Waiting("BUY")
            \/ askOrders' = Append(askOrders, o) /\ bidOrders' = bidOrders /\ o \in Waiting("SELL")
        <4>1. o.side \in {"BUY", "SELL"}
          BY <1>1, OrderFields
        <4> QED
          BY <1>1, <1>2, <2>1, <2>3, <4>1, RestParts
      <3>2. All' = All \cup {o}
        <4>1. CASE bidOrders' = Append(bidOrders, o) /\ askOrders' = askOrders /\ o \in Waiting("BUY")
          <5>1. ToSet(bidOrders') = ToSet(bidOrders) \cup {o}
            BY <1>2, <4>1, AppendElements
          <5> QED
            BY <2>1, <4>1, <5>1 DEF All, Open
        <4>2. CASE askOrders' = Append(askOrders, o) /\ bidOrders' = bidOrders /\ o \in Waiting("SELL")
          <5>1. ToSet(askOrders') = ToSet(askOrders) \cup {o}
            BY <1>2, <4>2, AppendElements
          <5> QED
            BY <2>1, <4>2, <5>1 DEF All, Open
        <4> QED
          BY <3>1, <4>1, <4>2
      <3>3. o.price \in Nat
        BY <1>1, OrderFields
      <3>4. "STOP_MARKET" \notin setting.types => o.type \notin {"MARKET", "STOP_MARKET"} /\ o.avg <= o.price
        BY <2>1, <2>3, <3>3
      <3>5. Stops = {} => ~IsStop(o.type) /\ o.avg = 0
        BY <2>1 DEF Stops
      <3>6. setting' = setting /\ Stops' = Stops
        BY <2>1 DEF Stops
      <3> QED
        BY <1>3, <3>2, <3>4, <3>5, <3>6 DEF Kinds
    <2> QED
      BY <2>1, <2>2, <2>3
  <1>6. CASE Cancel
    <2>1. PICK o \in Open : CancelOrder(o)
      BY <1>6 DEF Cancel
    <2>2. /\ ToSet(bidOrders') = {b \in ToSet(bidOrders) : b.id # o.id}
          /\ ToSet(askOrders') = {b \in ToSet(askOrders) : b.id # o.id}
      BY <2>1, CancelParts
    <2>3. closed' = closed /\ setting' = setting
      BY <2>1 DEF CancelOrder
    <2>4. All' \subseteq All
      BY <2>2, <2>3 DEF All, Open
    <2> QED
      BY <1>4, <2>3, <2>4
  <1>7. CASE Move
    <2> DEFINE move == Head(path)
    <2>1. path \in Seq(Moves) /\ path # <<>> /\ MoveTo(move) /\ closed = <<>> /\ setting' = setting
      BY <1>7 DEF Types, Move
    <2>2. move \in Moves
      BY <2>1, HeadTail
    <2> HIDE DEF move
    <2>3. /\ All' = {Moved(o, move) : o \in Open} /\ All = Open
          /\ \A o \in Open : Moved(o, move).side = o.side
      BY <2>1, <2>2, MoveUnique
    <2>4. ASSUME NEW o \in Open
          PROVE  /\ o.type # "STOP_MARKET" =>
                        /\ Moved(o, move).price = o.price /\ Moved(o, move).type \notin {"MARKET", "STOP_MARKET"}
                        /\ Moved(o, move).avg = o.avg \/ (Moved(o, move).avg = move.to /\ TakerAt(o, move.to))
                 /\ ~IsStop(o.type) => Moved(o, move).type = o.type /\ Moved(o, move).avg = o.avg
      <3>1. o \in Waiting(o.side) /\ o.side \in {"BUY", "SELL"}
        BY OpenOrders
      <3> QED
        BY <1>1, <2>2, <3>1, MovedKind
    <2>5. ASSUME "STOP_MARKET" \notin setting.types, NEW o \in Open
          PROVE  LET m == Moved(o, move)
                 IN  m.type \notin {"MARKET", "STOP_MARKET"} /\ (m.side = "BUY" => m.avg <= m.price)
      <3>1. o.type \notin {"MARKET", "STOP_MARKET"} /\ (o.side = "BUY" => o.avg <= o.price)
        BY <1>3, <2>3, <2>5
      <3>2. o.side = "BUY" /\ TakerAt(o, move.to) => move.to <= o.price
        <4>1. o.price \in Nat /\ move.to \in Nat
          BY <1>1, <2>2, <2>3, OpenOrders, MatchingAssumption DEF Moves
        <4> QED
          BY <4>1 DEF TakerAt
      <3> QED
        BY <2>3, <2>4, <3>1, <3>2
    <2>6. ASSUME Stops = {}, NEW o \in Open
          PROVE  ~IsStop(Moved(o, move).type) /\ Moved(o, move).avg = 0
      <3>1. ~IsStop(o.type) /\ o.avg = 0
        BY <1>3, <2>3, <2>6
      <3> QED
        BY <2>4, <3>1
    <2>7. Stops' = Stops
      BY <2>1 DEF Stops
    <2> QED
      BY <2>1, <2>3, <2>5, <2>6, <2>7 DEF Kinds
  <1>8. CASE Execute
    <2>1. closed # <<>> /\ closed' = Tail(closed) /\ UNCHANGED <<bidOrders, askOrders, setting>>
      BY <1>8 DEF Execute, books
    <2>2. ToSet(closed') = ToSet(closed) \ {Head(closed)}
      BY <1>2, <2>1, DistinctTail DEF Unique
    <2>3. All' \subseteq All
      BY <2>1, <2>2 DEF All, Open
    <2> QED
      BY <1>4, <2>1, <2>3
  <1>9. CASE ConsumeKLine \/ ProcessKLine \/ Panic \/ UNCHANGED vars
    <2>1. UNCHANGED <<setting, bidOrders, askOrders, closed>>
      BY <1>9, QuietParts
    <2> QED
      BY <1>4, <2>1 DEF All, Open
  <1> QED
    BY <1>5, <1>6, <1>7, <1>8, <1>9 DEF Next

-----------------------------------------------------------------------------
(***************************************************************************)
(* The locked balances are what the orders reserved                        *)
(***************************************************************************)
Locked ==
    /\ account.BASE.locked = Weight(Pending("SELL"))
    /\ Stops = {} => account.QUOTE.locked = Weight(Pending("BUY"))
    /\ "STOP_MARKET" \notin setting.types => account.QUOTE.locked >= Weight(Pending("BUY")) /\ ~panicked

LEMMA LockedPlace == Types /\ Unique /\ Kinds /\ Locked /\ Place => Locked'
  <1> SUFFICES ASSUME Types, Unique, Kinds, Locked, Place
               PROVE  Locked'
    OBVIOUS
  <1>1. /\ \A o \in All : o \in Order /\ o.id \in Nat
        /\ \A side : Pending(side) \in SUBSET Order /\ IsFiniteSet(Pending(side)) /\ Pending(side) = {o \in All : o.side = side}
        /\ setting \in Settings /\ placed \in Nat
    BY AllOrders
  <1>2. /\ bidOrders \in Seq(Waiting("BUY")) /\ askOrders \in Seq(Waiting("SELL"))
        /\ account \in Accounts /\ lastPrice \in Prices \cup {0}
    BY DEF Types, Accounts
  <1>3. /\ account.BASE.locked = Weight(Pending("SELL"))
        /\ Stops = {} => account.QUOTE.locked = Weight(Pending("BUY"))
        /\ "STOP_MARKET" \notin setting.types => account.QUOTE.locked >= Weight(Pending("BUY")) /\ ~panicked
    BY DEF Locked
  <1>4. PICK o \in Order :
            /\ o.id = placed + 1 /\ o.type \in setting.types
            /\ o.side \in {"BUY", "SELL"}
            /\ \/ Taker(o) /\ Take(o)
               \/ o.type # "MARKET" /\ ~IsLimitTaker(o) /\ o \in Waiting(o.side) /\ Rest(o)
            /\ UNCHANGED <<setting, lastPrice, walk, closed, calling, panicked>>
    BY PlaceParts
  <1>5. setting' = setting /\ Stops' = Stops /\ panicked' = panicked /\ closed' = closed
    BY <1>4 DEF Stops
  <1>6. CASE Taker(o) /\ Take(o)
    <2>1. account'.BASE.locked = account.BASE.locked /\ account'.QUOTE.locked = account.QUOTE.locked
      BY <1>1, <1>2, <1>6, TakeAccount
    <2>2. bidOrders' = bidOrders /\ askOrders' = askOrders
      BY <1>6 DEF Take, books
    <2>3. Pending("SELL")' = Pending("SELL") /\ Pending("BUY")' = Pending("BUY")
      BY <1>5, <2>2 DEF Pending, Open
    <2>4. Weight(Pending("SELL"))' = Weight(Pending("SELL")) /\ Weight(Pending("BUY"))' = Weight(Pending("BUY"))
      BY <2>3 DEF Weight
    <2> QED
      BY <1>3, <1>5, <2>1, <2>4 DEF Locked
  <1>7. CASE o.type # "MARKET" /\ ~IsLimitTaker(o) /\ o \in Waiting(o.side) /\ Rest(o)
    <2> DEFINE fund == Reserve(o.side, o.quantity, CheckedPrice(o))
    <2>1. /\ fund \in Nat
          /\ o.side = "BUY" => /\ bidOrders' = Append(bidOrders, o) /\ askOrders' = askOrders
                               /\ account'.QUOTE.locked = account.QUOTE.locked + fund
                               /\ account'.BASE = account.BASE
          /\ o.side = "SELL" => /\ askOrders' = Append(askOrders, o) /\ bidOrders' = bidOrders
                                /\ account'.BASE.locked = account.BASE.locked + fund
                                /\ account'.QUOTE = account.QUOTE
      BY <1>1, <1>2, <1>7, RestParts
    <2>2. o \notin All
      <3>1. \A p \in All : p.id <= placed
        BY DEF Unique
      <3> QED
        BY <1>1, <1>4, <3>1
    <2>3. o \notin Pending("BUY") /\ o \notin Pending("SELL")
      BY <1>1, <2>2
    <2>4. CASE o.side = "BUY"
      <3>1. ToSet(bidOrders') = ToSet(bidOrders) \cup {o}
        <4>1. o \in Waiting("BUY") /\ bidOrders' = Append(bidOrders, o)
          BY <1>7, <2>1, <2>4
        <4> QED
          BY <1>2, <4>1, AppendElements
      <3>2. Pending("SELL")' = Pending("SELL") /\ Pending("BUY")' = Pending("BUY") \cup {o}
        BY <1>5, <2>1, <2>4, <3>1 DEF Pending, Open
      <3>3. Weight(Pending("SELL"))' = Weight(Pending("SELL"))
        BY <3>2 DEF Weight
      <3>4. Weight(Pending("BUY"))' = Weight(Pending("BUY")) + Held(o)
        <4>1. Weight(Pending("BUY") \cup {o}) = Weight(Pending("BUY")) + Held(o)
          BY <1>1, <2>3, WeightAdd
        <4>2. Weight(Pending("BUY"))' = Weight(Pending("BUY") \cup {o})
          BY <3>2 DEF Weight
        <4> QED
          BY <4>1, <4>2
      <3>5. "STOP_MARKET" \notin setting.types => fund = Held(o)
        BY <1>4, <1>7, <2>4 DEF Reserve, CheckedPrice, Held
      <3>6. Stops = {} => "STOP_MARKET" \notin setting.types
        BY DEF Stops, IsStop
      <3>7. Weight(Pending("BUY")) \in Nat /\ account.QUOTE.locked \in Nat
        BY <1>1, <1>2, WeightNat, Balances
      <3> HIDE DEF fund
      <3>8. Stops = {} => account'.QUOTE.locked = Weight(Pending("BUY"))'
        BY <1>3, <2>1, <2>4, <3>4, <3>5, <3>6
      <3>9. "STOP_MARKET" \notin setting.types => account'.QUOTE.locked >= Weight(Pending("BUY"))'
        BY <1>3, <2>1, <2>4, <3>4, <3>5, <3>7
      <3> QED
        BY <1>3, <1>5, <2>1, <2>4, <3>3, <3>8, <3>9 DEF Locked
    <2>5. CASE o.side = "SELL"
      <3>1. ToSet(askOrders') = ToSet(askOrders) \cup {o}
        <4>1. o \in Waiting("SELL") /\ askOrders' = Append(askOrders, o)
          BY <1>7, <2>1, <2>5
        <4> QED
          BY <1>2, <4>1, AppendElements
      <3>2. Pending("BUY")' = Pending("BUY") /\ Pending("SELL")' = Pending("SELL") \cup {o}
        BY <1>5, <2>1, <2>5, <3>1 DEF Pending, Open
      <3>3. Weight(Pending("BUY"))' = Weight(Pending("BUY"))
        BY <3>2 DEF Weight
      <3>4. Weight(Pending("SELL"))' = Weight(Pending("SELL")) + Held(o)
        <4>1. Weight(Pending("SELL") \cup {o}) = Weight(Pending("SELL")) + Held(o)
          BY <1>1, <2>3, WeightAdd
        <4>2. Weight(Pending("SELL"))' = Weight(Pending("SELL") \cup {o})
          BY <3>2 DEF Weight
        <4> QED
          BY <4>1, <4>2
      <3>5. fund = Held(o)
        BY <2>5 DEF Reserve, Held
      <3>6. account'.QUOTE.locked = account.QUOTE.locked
        BY <2>1, <2>5
      <3> HIDE DEF fund
      <3>7. account'.BASE.locked = Weight(Pending("SELL"))'
        BY <1>3, <2>1, <2>5, <3>4, <3>5
      <3> QED
        BY <1>3, <1>5, <3>3, <3>6, <3>7 DEF Locked
    <2> QED
      BY <1>4, <2>4, <2>5
  <1> QED
    BY <1>4, <1>6, <1>7

LEMMA LockedCancel == Types /\ Unique /\ Kinds /\ Locked /\ Cancel => Locked'
  <1> SUFFICES ASSUME Types, Unique, Kinds, Locked, NEW o \in Open, CancelOrder(o)
               PROVE  Locked'
    BY DEF Cancel
  <1>1. /\ \A p \in All : p \in Order
        /\ \A side : Pending(side) \in SUBSET Order /\ IsFiniteSet(Pending(side)) /\ Pending(side) = {p \in All : p.side = side}
        /\ setting \in Settings
        /\ \A p \in Open : ~p.filled
        /\ \A p \in ToSet(closed) : p.filled
    BY AllOrders
  <1>2. /\ account.BASE.locked = Weight(Pending("SELL"))
        /\ Stops = {} => account.QUOTE.locked = Weight(Pending("BUY"))
        /\ "STOP_MARKET" \notin setting.types => account.QUOTE.locked >= Weight(Pending("BUY")) /\ ~panicked
    BY DEF Locked
  <1>3. UNCHANGED <<setting, closed, panicked>> /\ Stops' = Stops
    BY DEF CancelOrder, Stops
  <1> DEFINE fund == Reserve(o.side, o.quantity, o.price)
  <1>4. /\ fund \in Nat /\ o \in Order /\ o.side \in {"BUY", "SELL"}
        /\ o.side = "BUY" =>
               /\ account'.BASE = account.BASE
               /\ IF fund <= account.QUOTE.locked
                  THEN account'.QUOTE.locked = account.QUOTE.locked - fund
                  ELSE account'.QUOTE = account.QUOTE
        /\ o.side = "SELL" =>
               /\ account'.QUOTE = account.QUOTE
               /\ IF fund <= account.BASE.locked
                  THEN account'.BASE.locked = account.BASE.locked - fund
                  ELSE account'.BASE = account.BASE
        /\ ToSet(bidOrders') = {b \in ToSet(bidOrders) : b.id # o.id}
        /\ ToSet(askOrders') = {b \in ToSet(askOrders) : b.id # o.id}
    BY CancelParts
  <1>5. fund = Held(o)
    BY DEF Reserve, Held
  <1>6. All' = All \ {o}
    <2>1. o \in All
      BY DEF All
    <2>2. \A p \in All : p.id # o.id <=> p # o
      BY <2>1 DEF Unique
    <2>3. o \notin ToSet(closed)
      BY <1>1, Zenon
    <2>4. \A p : p \in All => (p \in ToSet(bidOrders) \/ p \in ToSet(askOrders) \/ p \in ToSet(closed))
      BY DEF All, Open
    <2> QED
      BY <1>3, <1>4, <2>2, <2>3, <2>4 DEF All, Open
  <1>7. \A side : Pending(side)' = {p \in All' : p.side = side}
    BY DEF Pending, All
  <1>8. Pending("SELL") \in SUBSET Order /\ IsFiniteSet(Pending("SELL")) /\ Pending("BUY") \in SUBSET Order /\ IsFiniteSet(Pending("BUY"))
    BY <1>1
  <1>9. Weight(Pending("SELL")) \in Nat /\ Weight(Pending("BUY")) \in Nat
    BY <1>1, <1>8, WeightNat
  <1>10. account.BASE.locked \in Nat /\ account.QUOTE.locked \in Nat
    <2>1. account \in Accounts
      BY DEF Types, Accounts
    <2> QED
      BY <2>1, Balances
  <1>11. Stops = {} => "STOP_MARKET" \notin setting.types
    BY DEF Stops, IsStop
  <1> HIDE DEF fund
  <1>12. CASE o.side = "BUY"
    <2>1. Pending("SELL")' = Pending("SELL") /\ Pending("BUY")' = Pending("BUY") \ {o} /\ o \in Pending("BUY")
      BY <1>1, <1>6, <1>7, <1>12 DEF All
    <2>2. Weight(Pending("SELL"))' = Weight(Pending("SELL"))
      BY <2>1 DEF Weight
    <2>3. Weight(Pending("BUY") \ {o}) = Weight(Pending("BUY")) - Held(o) /\ Held(o) <= Weight(Pending("BUY"))
      BY <1>1, <1>8, <2>1, WeightRemove
    <2>4. Weight(Pending("BUY"))' = Weight(Pending("BUY")) - Held(o)
      BY <2>1, <2>3 DEF Weight
    <2>5. "STOP_MARKET" \notin setting.types =>
              /\ account'.QUOTE.locked = account.QUOTE.locked - Held(o)
              /\ account'.QUOTE.locked >= Weight(Pending("BUY"))'
      BY <1>2, <1>4, <1>5, <1>9, <1>10, <1>12, <2>3, <2>4
    <2>6. Stops = {} => account'.QUOTE.locked = Weight(Pending("BUY"))'
      BY <1>2, <1>11, <2>4, <2>5
    <2> QED
      BY <1>2, <1>3, <1>4, <1>12, <2>2, <2>5, <2>6 DEF Locked
  <1>13. CASE o.side = "SELL"
    <2>1. Pending("BUY")' = Pending("BUY") /\ Pending("SELL")' = Pending("SELL") \ {o} /\ o \in Pending("SELL")
      BY <1>1, <1>6, <1>7, <1>13 DEF All
    <2>2. Weight(Pending("BUY"))' = Weight(Pending("BUY"))
      BY <2>1 DEF Weight
    <2>3. Weight(Pending("SELL") \ {o}) = Weight(Pending("SELL")) - Held(o) /\ Held(o) <= Weight(Pending("SELL"))
      BY <1>1, <1>8, <2>1, WeightRemove
    <2>4. Weight(Pending("SELL"))' = Weight(Pending("SELL")) - Held(o)
      BY <2>1, <2>3 DEF Weight
    <2>5. account'.BASE.locked = Weight(Pending("SELL"))'
      BY <1>2, <1>4, <1>5, <1>13, <2>3, <2>4
    <2>6. account'.QUOTE = account.QUOTE
      BY <1>4, <1>13
    <2> QED
      BY <1>2, <1>3, <2>2, <2>5, <2>6 DEF Locked
  <1> QED
    BY <1>4, <1>12, <1>13

LEMMA LockedMove == Types /\ Unique /\ Kinds /\ Locked /\ Move => Locked'
  <1> SUFFICES ASSUME Types, Unique, Kinds, Locked, Move
               PROVE  Locked'
    OBVIOUS
  <1> DEFINE move == Head(path)
  <1>1. /\ path \in Seq(Moves) /\ path # <<>> /\ MoveTo(move) /\ closed = <<>>
        /\ UNCHANGED <<setting, account, panicked>> /\ Stops' = Stops
    BY DEF Types, Move, Stops
  <1>2. move \in Moves
    BY <1>1, HeadTail
  <1> HIDE DEF move
  <1>3. /\ All' = {Moved(o, move) : o \in Open} /\ All = Open
        /\ \A o \in Open : /\ Moved(o, move).id = o.id /\ Moved(o, move).side = o.side
                           /\ Moved(o, move).quantity = o.quantity /\ Moved(o, move) \in Order
    BY <1>1, <1>2, MoveUnique
  <1>4. /\ \A side : Pending(side) \in SUBSET Order /\ IsFiniteSet(Pending(side)) /\ Pending(side) = {p \in All : p.side = side}
        /\ setting \in Settings
        /\ \A o \in Open : o \in Waiting(o.side) /\ o.side \in {"BUY", "SELL"}
    BY AllOrders, OpenOrders
  <1>5. \A side : Pending(side)' = {p \in All' : p.side = side}
    BY DEF Pending, All
  <1>6. \A o, p \in Open : o.id = p.id => o = p
    BY <1>3 DEF Unique
  <1>7. ASSUME NEW side, \A o \in Pending(side) : Held(Moved(o, move)) = Held(o)
        PROVE  Weight(Pending(side))' = Weight(Pending(side))
    <2> DEFINE S == Pending(side)
               h == [o \in S |-> Moved(o, move)]
    <2>1. \A o \in S : o \in Open /\ o.side = side
      BY <1>3, <1>4
    <2>2. Pending(side)' = {Moved(o, move) : o \in S}
      BY <1>3, <1>4, <1>5
    <2>3. {Moved(o, move) : o \in S} = {h[o] : o \in S}
      OBVIOUS
    <2>4. h \in [S -> Order] /\ \A o \in S : h[o] = Moved(o, move) /\ h[o].id = o.id
      BY <1>3, <2>1
    <2>5. S \in SUBSET Order /\ IsFiniteSet(S)
      BY <1>4
    <2>6. \A o \in S : Held(h[o]) = Held(o)
      BY <1>7, <2>4
    <2> HIDE DEF h, S
    <2>7. \A x, y \in S : h[x] = h[y] => x = y
      BY <1>6, <2>1, <2>4
    <2>8. Weight({h[o] : o \in S}) = Weight(S)
      BY <1>4, <2>4, <2>5, <2>6, <2>7, WeightImage
    <2>9. Weight(Pending(side))' = Weight({h[o] : o \in S})
      BY <2>2, <2>3 DEF Weight
    <2> QED
      BY <2>8, <2>9 DEF S
  <1>8. Weight(Pending("SELL"))' = Weight(Pending("SELL"))
    <2>1. \A o \in Pending("SELL") : Held(Moved(o, move)) = Held(o)
      BY <1>3, <1>4 DEF Held
    <2> QED
      BY <1>7, <2>1
  <1>9. "STOP_MARKET" \notin setting.types => Weight(Pending("BUY"))' = Weight(Pending("BUY"))
    <2> SUFFICES ASSUME "STOP_MARKET" \notin setting.types
                 PROVE  Weight(Pending("BUY"))' = Weight(Pending("BUY"))
      OBVIOUS
    <2>1. ASSUME NEW o \in Pending("BUY")
          PROVE  Held(Moved(o, move)) = Held(o)
      <3>1. o \in Open /\ o.type # "STOP_MARKET"
        BY <1>3, <1>4 DEF Kinds
      <3>2. Moved(o, move).price = o.price
        BY <1>2, <1>4, <3>1, MovedKind
      <3> QED
        BY <1>3, <3>1, <3>2 DEF Held
    <2> QED
      BY <1>7, <2>1
  <1>10. Stops = {} => "STOP_MARKET" \notin setting.types
    BY DEF Stops, IsStop
  <1> QED
    BY <1>1, <1>8, <1>9, <1>10 DEF Locked

(* An order is executed at its price or, for a buy order, a lower one. *)
LEMMA ClosedPrice ==
    ASSUME Types, Kinds, closed # <<>>
    PROVE  LET o == Head(closed)
               price == ExecutedPrice(o)
           IN  /\ o \in Done /\ o \in Order /\ o \in All /\ o \in ToSet(closed)
               /\ "STOP_MARKET" \notin setting.types /\ o.side = "BUY" => o.quantity * price <= Held(o)
               /\ Stops = {} /\ o.side = "BUY" => o.quantity * price = Held(o)
               /\ o.side = "SELL" => o.quantity = Held(o)
               /\ o.quantity * price \in Nat /\ Held(o) \in Nat /\ o.quantity \in Nat /\ price \in Nat
  <1> DEFINE o == Head(closed)
             price == ExecutedPrice(o)
  <1>1. closed \in Seq(Done) /\ setting \in Settings
    BY DEF Types
  <1>2. o \in Done /\ o \in ToSet(closed)
    BY <1>1, HeadTail
  <1> HIDE DEF o
  <1>3. o \in Order /\ o \in All
    BY <1>2 DEF Done, All
  <1>4. o.quantity \in Nat /\ o.price \in Nat /\ o.avg \in Nat /\ Held(o) \in Nat
    BY <1>1, <1>3, OrderFields, HeldNat
  <1>5. price = (IF o.avg # 0 THEN o.avg ELSE o.price) /\ price \in Nat
    BY <1>4 DEF ExecutedPrice
  <1>6. \A m, n \in Nat : m <= n => o.quantity * m <= o.quantity * n
    BY <1>4
  <1>7. o.quantity * price \in Nat
    BY <1>4, <1>5
  <1>8. "STOP_MARKET" \notin setting.types /\ o.side = "BUY" => o.quantity * price <= Held(o)
    <2> SUFFICES ASSUME "STOP_MARKET" \notin setting.types, o.side = "BUY"
                 PROVE  o.quantity * price <= o.quantity * o.price
      BY DEF Held
    <2>1. o.avg <= o.price
      BY <1>3 DEF Kinds
    <2>2. price <= o.price
      BY <1>4, <1>5, <2>1
    <2> HIDE DEF price
    <2> QED
      BY <1>4, <1>5, <1>6, <2>2
  <1>9. Stops = {} /\ o.side = "BUY" => o.quantity * price = Held(o)
    <2> SUFFICES ASSUME Stops = {}, o.side = "BUY"
                 PROVE  o.quantity * price = o.quantity * o.price
      BY DEF Held
    <2>1. o.avg = 0
      BY <1>3 DEF Kinds
    <2> QED
      BY <1>5, <2>1
  <1>10. o.side = "SELL" => o.quantity = Held(o)
    BY DEF Held
  <1> QED
    BY <1>2, <1>3, <1>4, <1>5, <1>7, <1>8, <1>9, <1>10 DEF o

LEMMA LockedExecute == Types /\ Unique /\ Kinds /\ Locked /\ Execute => Locked'
  <1> SUFFICES ASSUME Types, Unique, Kinds, Locked, Execute
               PROVE  Locked'
    OBVIOUS
  <1> DEFINE o == Head(closed)
             used == o.quantity * ExecutedPrice(o)
  <1>1. /\ \A side : Pending(side) \in SUBSET Order /\ IsFiniteSet(Pending(side)) /\ Pending(side) = {p \in All : p.side = side}
        /\ setting \in Settings
        /\ \A p \in Open : ~p.filled
        /\ \A p \in ToSet(closed) : p.filled
    BY AllOrders
  <1>2. /\ account.BASE.locked = Weight(Pending("SELL"))
        /\ Stops = {} => account.QUOTE.locked = Weight(Pending("BUY"))
        /\ "STOP_MARKET" \notin setting.types => account.QUOTE.locked >= Weight(Pending("BUY")) /\ ~panicked
    BY DEF Locked
  <1>3. /\ closed # <<>> /\ closed' = Tail(closed) /\ UNCHANGED <<bidOrders, askOrders, setting, panicked>>
        /\ Stops' = Stops
    BY DEF Execute, books, Stops
  <1>4. /\ o.side \in {"BUY", "SELL"}
        /\ o.side = "BUY" =>
               /\ account'.QUOTE.locked = account.QUOTE.locked - used
               /\ account'.BASE.locked = account.BASE.locked
        /\ o.side = "SELL" =>
               /\ account'.QUOTE.locked = account.QUOTE.locked
               /\ account'.BASE.locked = account.BASE.locked - o.quantity
    <2> HIDE DEF o
    <2> QED
      BY ExecuteParts DEF o
  <1>5. /\ o \in All /\ o \in ToSet(closed)
        /\ "STOP_MARKET" \notin setting.types /\ o.side = "BUY" => used <= Held(o)
        /\ Stops = {} /\ o.side = "BUY" => used = Held(o)
        /\ o.side = "SELL" => o.quantity = Held(o)
        /\ used \in Nat
    <2> HIDE DEF o
    <2> QED
      BY <1>3, ClosedPrice DEF o
  <1>6. ToSet(closed') = ToSet(closed) \ {o}
    <2>1. closed \in Seq(Done) /\ DistinctIDs(closed)
      BY DEF Types, Unique
    <2> QED
      BY <1>3, <2>1, DistinctTail
  <1> HIDE DEF o, used
  <1>7. o \notin Open
    BY <1>1, <1>5, Zenon
  <1>8. All' = All \ {o}
    BY <1>3, <1>6, <1>7 DEF All, Open
  <1>9. \A side : Pending(side)' = {p \in All' : p.side = side}
    BY DEF Pending, All
  <1>10. Pending("SELL") \in SUBSET Order /\ IsFiniteSet(Pending("SELL")) /\ Pending("BUY") \in SUBSET Order /\ IsFiniteSet(Pending("BUY"))
    BY <1>1
  <1>11. account.BASE.locked \in Nat /\ account.QUOTE.locked \in Nat
    <2>1. account \in Accounts
      BY DEF Types, Accounts
    <2> QED
      BY <2>1, Balances
  <1>12. CASE o.side = "BUY"
    <2>1. Pending("SELL")' = Pending("SELL") /\ Pending("BUY")' = Pending("BUY") \ {o} /\ o \in Pending("BUY")
      BY <1>1, <1>5, <1>8, <1>9, <1>12
    <2>2. Weight(Pending("SELL"))' = Weight(Pending("SELL"))
      BY <2>1 DEF Weight
    <2>3. /\ Weight(Pending("BUY") \ {o}) = Weight(Pending("BUY")) - Held(o)
          /\ Held(o) \in Nat /\ Weight(Pending("BUY")) \in Nat
      BY <1>1, <1>10, <2>1, WeightRemove
    <2>4. Weight(Pending("BUY"))' = Weight(Pending("BUY")) - Held(o)
      BY <2>1, <2>3 DEF Weight
    <2>5. "STOP_MARKET" \notin setting.types => account'.QUOTE.locked >= Weight(Pending("BUY"))'
      BY <1>2, <1>4, <1>5, <1>11, <1>12, <2>3, <2>4
    <2>6. Stops = {} => account'.QUOTE.locked = Weight(Pending("BUY"))'
      BY <1>2, <1>4, <1>5, <1>12, <2>4
    <2>7. account'.BASE.locked = account.BASE.locked
      BY <1>4, <1>12
    <2> QED
      BY <1>2, <1>3, <2>2, <2>5, <2>6, <2>7 DEF Locked
  <1>13. CASE o.side = "SELL"
    <2>1. Pending("BUY")' = Pending("BUY") /\ Pending("SELL")' = Pending("SELL") \ {o} /\ o \in Pending("SELL")
      BY <1>1, <1>5, <1>8, <1>9, <1>13
    <2>2. Weight(Pending("BUY"))' = Weight(Pending("BUY"))
      BY <2>1 DEF Weight
    <2>3. Weight(Pending("SELL") \ {o}) = Weight(Pending("SELL")) - Held(o)
      BY <1>1, <1>10, <2>1, WeightRemove
    <2>4. Weight(Pending("SELL"))' = Weight(Pending("SELL")) - Held(o)
      BY <2>1, <2>3 DEF Weight
    <2>5. account'.BASE.locked = Weight(Pending("SELL"))' /\ account'.QUOTE.locked = account.QUOTE.locked
      BY <1>2, <1>4, <1>5, <1>13, <2>4
    <2> QED
      BY <1>2, <1>3, <2>2, <2>5 DEF Locked
  <1> QED
    BY <1>4, <1>12, <1>13

(* Without stop market orders every closed order can be executed. *)
LEMMA NoPanic ==
    ASSUME Types, Unique, Kinds, Locked, "STOP_MARKET" \notin setting.types
    PROVE  ~Panic
  <1> SUFFICES ASSUME Panic
               PROVE  FALSE
    OBVIOUS
  <1> DEFINE o == Head(closed)
             used == o.quantity * ExecutedPrice(o)
  <1>1. closed # <<>> /\ ~Executable(account, NewTradeFromOrder(o, ExecutedPrice(o)))
    BY DEF Panic
  <1>2. /\ o \in Order /\ o \in All
        /\ o.side = "BUY" => used <= Held(o)
        /\ o.side = "SELL" => o.quantity = Held(o)
        /\ used \in Nat /\ Held(o) \in Nat
    <2> HIDE DEF o
    <2> QED
      BY <1>1, ClosedPrice DEF o
  <1> HIDE DEF o
  <1>3. /\ o.side \in {"BUY", "SELL"} /\ setting \in Settings
        /\ \A side : Pending(side) \in SUBSET Order /\ IsFiniteSet(Pending(side)) /\ Pending(side) = {p \in All : p.side = side}
    BY <1>2, AllOrders
  <1>4. o \in Pending(o.side)
    BY <1>2, <1>3
  <1>5. Held(o) <= Weight(Pending(o.side)) /\ Weight(Pending(o.side)) \in Nat
    BY <1>3, <1>4, WeightRemove
  <1>6. /\ account.BASE.locked = Weight(Pending("SELL"))
        /\ account.QUOTE.locked >= Weight(Pending("BUY"))
    BY DEF Locked
  <1>7. account.BASE.locked \in Nat /\ account.QUOTE.locked \in Nat
    <2>1. account \in Accounts
      BY DEF Types, Accounts
    <2> QED
      BY <2>1, Balances
  <1> DEFINE t == NewTradeFromOrder(o, ExecutedPrice(o))
  <1>8. t.side = o.side /\ t.quantity = o.quantity /\ t.quoteQuantity = used
    BY DEF NewTradeFromOrder
  <1> HIDE DEF used, t
  <1>9. CASE o.side = "BUY"
    <2>1. account.QUOTE.locked >= used
      BY <1>2, <1>5, <1>6, <1>7, <1>9
    <2>2. Executable(account, t)
      BY <1>8, <1>9, <2>1 DEF Executable, CanUse
    <2> QED
      BY <1>1, <2>2 DEF t
  <1>10. CASE o.side = "SELL"
    <2>1. account.BASE.locked >= o.quantity
      BY <1>2, <1>5, <1>6, <1>7, <1>10
    <2>2. Executable(account, t)
      BY <1>8, <1>10, <2>1 DEF Executable, CanUse
    <2> QED
      BY <1>1, <2>2 DEF t
  <1> QED
    BY <1>3, <1>9, <1>10

LEMMA LockedStep == Types /\ Unique /\ Kinds /\ Locked /\ [Next]_vars => Locked'
  <1> SUFFICES ASSUME Types, Unique, Kinds, Locked, [Next]_vars
               PROVE  Locked'
    OBVIOUS
  <1>1. CASE ConsumeKLine \/ ProcessKLine \/ Panic \/ UNCHANGED vars
    <2>1. UNCHANGED <<setting, bidOrders, askOrders, closed, account>>
      BY <1>1, QuietParts
    <2>2. Pending("SELL")' = Pending("SELL") /\ Pending("BUY")' = Pending("BUY") /\ Stops' = Stops
      BY <2>1 DEF Pending, Open, Stops
    <2>3. Weight(Pending("SELL"))' = Weight(Pending("SELL")) /\ Weight(Pending("BUY"))' = Weight(Pending("BUY"))
      BY <2>2 DEF Weight
    <2>4. ~Panic => panicked' = panicked
      BY <1>1 DEF ConsumeKLine, FirstKLine, CloseKLine, ProcessKLine, vars
    <2>5. "STOP_MARKET" \notin setting.types => panicked' = panicked
      BY <2>4, NoPanic
    <2> QED
      BY <2>1, <2>2, <2>3, <2>5 DEF Locked
  <1> QED
    BY <1>1, LockedPlace, LockedCancel, LockedMove, LockedExecute DEF Next

LEMMA LockedInit == Init => Unique /\ Kinds /\ Locked
  <1> SUFFICES ASSUME Init
               PROVE  Unique /\ Kinds /\ Locked
    OBVIOUS
  <1>1. bidOrders = <<>> /\ askOrders = <<>> /\ closed = <<>>
    BY DEF Init
  <1>2. ToSet(<<>>) = {} /\ DistinctIDs(<<>>)
    BY DEF ToSet, DistinctIDs
  <1>3. All = {} /\ \A side : Pending(side) = {}
    BY <1>1, <1>2 DEF All, Open, Pending
  <1>4. Weight(Pending("SELL")) = 0 /\ Weight(Pending("BUY")) = 0
    BY <1>3, WeightEmpty
  <1>5. account.BASE = NewBalance(BaseFund) /\ account.QUOTE = NewBalance(QuoteFund) /\ ~panicked
    BY DEF Init
  <1>6. account.BASE.locked = 0 /\ account.QUOTE.locked = 0
    BY <1>5 DEF NewBalance
  <1> QED
    BY <1>1, <1>2, <1>3, <1>4, <1>5, <1>6 DEF Unique, Kinds, Locked

(* The base currency that is locked is exactly what the open sell orders and
   those closed but not yet executed reserved, and without stop orders the
   quote currency that is locked is what the buy orders did; a stop limit order
   may leave some locked for good, but what the other orders reserved is there
   when they are executed, and without stop market orders the exchange never
   panics.  Orders placed and cancelled between the execution of two orders
   that one move closed change nothing of this, since every order keeps its
   number and the books, what is closed and what is locked go together. *)
THEOREM LockedIsReservedInvariant == Spec => []LockedIsReserved
  <1> DEFINE Inv == Types /\ Unique /\ Kinds /\ Locked
  <1>1. Init => Inv
    BY InitTypes, LockedInit
  <1>2. Inv /\ [Next]_vars => Inv'
    BY TypesStep, UniqueStep, KindsStep, LockedStep
  <1>3. Inv => LockedIsReserved
    <2> SUFFICES ASSUME Types, Kinds, Locked
                 PROVE  LockedIsReserved
      OBVIOUS
    <2>1. /\ Reserved("SELL") = Weight(Pending("SELL"))
          /\ "STOP_MARKET" \notin setting.types => Reserved("BUY") = Weight(Pending("BUY"))
      BY ReservedIs
    <2>2. /\ "STOP_MARKET" \notin Stops => "STOP_MARKET" \notin setting.types
          /\ Stops = {} => "STOP_MARKET" \notin setting.types
      BY DEF Stops, IsStop
    <2> QED
      BY <2>1, <2>2 DEF Locked, LockedIsReserved
  <1> HIDE DEF Inv
  <1> QED
    BY <1>1, <1>2, <1>3, PTL DEF Spec

-----------------------------------------------------------------------------
(***************************************************************************)
(* The TWAP executor                                                       *)
(***************************************************************************)
(* An order as the exchange has it, and what the stream reports of it. *)
MadeOrder == [qty : Nat, open : BOOLEAN, executed : Nat]

Event == [kind : {"trade", "update"}, order : Nat, qty : Nat]

TwapTypes ==
    /\ execution \in Twap!Execution
    /\ made \in Seq(MadeOrder)
    /\ reports \in Seq(Event)
    /\ traded \in Nat
    /\ blind \in BOOLEAN
    /\ updater \in {"select", "check", "place", "add", "store", "cleanup", "stopped"}
    /\ updater = "add" => created \in Twap!IDs

(* An order that has traded its quantity is closed, *)
OrdersOK == \A i \in Twap!IDs : made[i].executed <= made[i].qty /\ (made[i].open => Twap!Left(i) > 0)

(* nobody hears of more than it has traded: an order that is reported as filled
   is, *)
HeardOK ==
    /\ \A k \in DOMAIN reports :
          /\ reports[k].order \in Twap!IDs
          /\ reports[k].kind = "update" => reports[k].qty <= made[reports[k].order].executed
    /\ DOMAIN pending \subseteq Twap!IDs
    /\ \A i \in DOMAIN pending : pending[i] \in Nat /\ pending[i] <= made[i].executed

(* so an open order stays among the active ones, once it is there: until then
   the updater has it in hand, unless the answer to its creation was lost. *)
Followed == Twap!OpenIDs \subseteq DOMAIN followed \cup lost \cup (IF updater = "add" THEN {created} ELSE {})

(* An order is made when none is active. *)
NoneBeside == updater = "place" => DOMAIN followed = {}

TwapInv == TwapTypes /\ OrdersOK /\ HeardOK /\ Followed /\ NoneBeside /\ Twap!TargetKept

-----------------------------------------------------------------------------
(***************************************************************************)
(* Quantities                                                              *)
(***************************************************************************)
(* The larger and the smaller of two numbers. *)
LEMMA MaxOfTwo ==
    ASSUME NEW a \in Nat, NEW b \in Nat
    PROVE  Twap!Max({a, b}) = IF a >= b THEN a ELSE b
  <1>1. \E x \in {a, b} : \A y \in {a, b} : x >= y
    OBVIOUS
  <1>2. Twap!Max({a, b}) \in {a, b} /\ \A y \in {a, b} : Twap!Max({a, b}) >= y
    BY <1>1, Zenon DEF Twap!Max
  <1> QED
    BY <1>2

LEMMA MinOfTwo ==
    ASSUME NEW a \in Nat, NEW b \in Nat
    PROVE  Twap!Min({a, b}) = IF a <= b THEN a ELSE b
  <1>1. \E x \in {a, b} : \A y \in {a, b} : x <= y
    OBVIOUS
  <1>2. Twap!Min({a, b}) \in {a, b} /\ \A y \in {a, b} : Twap!Min({a, b}) <= y
    BY <1>1, Zenon DEF Twap!Min
  <1> QED
    BY <1>2

(* A new order is of the rest, or of what the minimal notional raises it to. *)
LEMMA NewOrderWithinRest ==
    ASSUME TwapTypes, ~Twap!TargetFilled, Twap!RestQuantity >= execution.minQuantity
    PROVE  /\ Twap!NewOrder.qty \in Nat \ {0}
           /\ Twap!NewOrder.qty <= Twap!RestQuantity + Twap!Excess
           /\ Twap!NewOrder.type = "MARKET" => Twap!NewOrder.qty = Twap!RestQuantity
  <1> DEFINE rest == Twap!RestQuantity
  <1>1. /\ rest \in Nat \ {0} /\ rest >= execution.minQuantity
        /\ execution.slice \in Nat \ {0} /\ execution.minQuantity \in Nat \ {0}
        /\ execution.minNotional \in Nat
    BY DEF TwapTypes, Twap!Execution, Twap!TargetFilled, Twap!RestQuantity
  <1> HIDE DEF rest
  <1>2. Twap!SliceOf(rest) \in Nat \ {0} /\ Twap!SliceOf(rest) <= rest
    BY <1>1, MinOfTwo DEF Twap!SliceOf
  <1>3. /\ Twap!Max({Twap!SliceOf(rest), execution.minNotional}) \in Nat \ {0}
        /\ Twap!Max({Twap!SliceOf(rest), execution.minNotional}) <= rest + Twap!Excess
    BY <1>1, <1>2, MaxOfTwo DEF Twap!Excess
  <1>4. Twap!Excess \in Nat
    BY <1>1 DEF Twap!Excess
  <1>5. CASE expired
    BY <1>1, <1>4, <1>5 DEF Twap!NewOrder, rest
  <1>6. CASE ~expired
    BY <1>3, <1>6 DEF Twap!NewOrder, rest
  <1> QED
    BY <1>5, <1>6

-----------------------------------------------------------------------------
(* The sums of the module are sums over a set. *)
LEMMA SameSums ==
    /\ Twap!Traded = SumFunctionOnSet([i \in Twap!IDs |-> made[i].executed], Twap!IDs)
    /\ Twap!TargetKept <=> blind \/ SumFunctionOnSet(Twap!Committed, Twap!IDs) <= execution.target + Twap!Excess
    /\ Twap!TargetKept' <=> blind' \/ SumFunctionOnSet(Twap!Committed', Twap!IDs') <= execution'.target + Twap!Excess'
  <1>1. \A f, S : Twap!SumFunctionOnSet(f, S) = SumFunctionOnSet(f, S)
    BY DEF Twap!SumFunctionOnSet, SumFunctionOnSet, Twap!FoldFunctionOnSet, FoldFunctionOnSet,
           Twap!MapThenFoldSet, MapThenFoldSet
  <1> QED
    BY <1>1, Zenon DEF Twap!Traded, Twap!TargetKept

(* What is committed is a sum of natural numbers. *)
LEMMA CommittedType ==
    ASSUME TwapTypes
    PROVE  /\ IsFiniteSet(Twap!IDs)
           /\ \A i \in Twap!IDs : made[i] \in MadeOrder
           /\ \A i \in Twap!IDs : Twap!Committed[i] \in Nat
           /\ SumFunctionOnSet(Twap!Committed, Twap!IDs) \in Int
           /\ Twap!Traded \in Int
  <1>1. IsFiniteSet(Twap!IDs)
    <2>1. Twap!IDs = 1 .. Len(made) /\ Len(made) \in Nat
      BY DEF TwapTypes, Twap!IDs
    <2> QED
      BY <2>1, FS_Interval
  <1>2. \A i \in Twap!IDs : made[i] \in MadeOrder
    BY DEF TwapTypes, Twap!IDs
  <1>3. \A i \in Twap!IDs : Twap!Committed[i] \in Nat
    BY <1>2 DEF Twap!Committed, MadeOrder
  <1>4. \A i \in Twap!IDs : [j \in Twap!IDs |-> made[j].executed][i] \in Int
    BY <1>2 DEF MadeOrder
  <1> QED
    BY <1>1, <1>2, <1>3, <1>4, SumType, SameSums

(* Nothing more is committed than before: the target is kept. *)
LEMMA CommittedKept ==
    ASSUME TwapTypes, TwapTypes', Twap!TargetKept,
           Twap!IDs' = Twap!IDs, \A i \in Twap!IDs : Twap!Committed'[i] <= Twap!Committed[i],
           execution' = execution, blind' = blind
    PROVE  Twap!TargetKept'
  <1> DEFINE earlier == SumFunctionOnSet(Twap!Committed, Twap!IDs)
             after == SumFunctionOnSet(Twap!Committed', Twap!IDs')
  <1>1. IsFiniteSet(Twap!IDs) /\ earlier \in Int /\ \A i \in Twap!IDs : Twap!Committed[i] \in Int
    BY CommittedType
  <1>2. \A i \in Twap!IDs : Twap!Committed'[i] \in Int
    <2>1. \A i \in Twap!IDs : made'[i] \in MadeOrder
      BY DEF TwapTypes, Twap!IDs
    <2> QED
      BY <2>1 DEF Twap!Committed, MadeOrder
  <1>3. SumFunctionOnSet(Twap!Committed', Twap!IDs) \in Int
    BY <1>1, <1>2, SumType
  <1>4. SumFunctionOnSet(Twap!Committed', Twap!IDs) <= earlier
    BY <1>1, <1>2, SumMonotone
  <1>5. after = SumFunctionOnSet(Twap!Committed', Twap!IDs)
    OBVIOUS
  <1>6. execution.target \in Int /\ Twap!Excess \in Int /\ Twap!Excess' = Twap!Excess
    BY DEF TwapTypes, Twap!Execution, Twap!Excess
  <1>7. Twap!TargetKept <=> blind \/ earlier <= execution.target + Twap!Excess
    BY SameSums
  <1>8. Twap!TargetKept' <=> blind \/ after <= execution.target + Twap!Excess
    BY <1>6, SameSums
  <1> HIDE DEF earlier, after
  <1> QED
    BY <1>1, <1>3, <1>4, <1>5, <1>6, <1>7, <1>8

-----------------------------------------------------------------------------
(***************************************************************************)
(* The exchange and the stream                                             *)
(***************************************************************************)
(* What the exchange puts on the stream about an order. *)
Reports(i, executed) == {e \in Event : e.order = i /\ (e.kind = "update" => e.qty = executed)}

LEMMA ReportType ==
    ASSUME NEW i \in Nat, NEW qty \in Nat, NEW executed \in Nat
    PROVE  Twap!Report(i, qty, executed) \in Seq(Reports(i, executed))
  <1> DEFINE trade == [kind |-> "trade", order |-> i, qty |-> qty]
             update == [kind |-> "update", order |-> i, qty |-> executed]
  <1>1. trade \in Reports(i, executed) /\ update \in Reports(i, executed)
    BY DEF Event, Reports
  <1>2. Twap!Report(i, qty, executed) = IF execution.tradeFirst THEN <<trade, update>> ELSE <<update, trade>>
    BY DEF Twap!Report
  <1> HIDE DEF trade, update
  <1> QED
    BY <1>1, <1>2

(* A report added to the stream says what is true already. *)
LEMMA ReportsGrow ==
    ASSUME NEW i \in Nat, NEW executed \in Nat, reports \in Seq(Event), NEW r \in Seq(Reports(i, executed))
    PROVE  /\ reports \o r \in Seq(Event)
           /\ \A k \in DOMAIN (reports \o r) :
                 \/ k \in DOMAIN reports /\ (reports \o r)[k] = reports[k]
                 \/ (reports \o r)[k] \in Reports(i, executed)
  <1> DEFINE s == reports \o r
  <1>1. r \in Seq(Event)
    <2>1. \A k \in 1 .. Len(r) : r[k] \in Event
      BY Elements DEF Reports
    <2> QED
      BY <2>1, Elements
  <1>2. /\ s \in Seq(Event) /\ Len(s) = Len(reports) + Len(r)
        /\ \A k \in 1 .. Len(reports) + Len(r) : s[k] = IF k <= Len(reports) THEN reports[k] ELSE r[k - Len(reports)]
    BY <1>1, ConcatProperties
  <1> HIDE DEF s
  <1>3. /\ DOMAIN s = 1 .. Len(s) /\ DOMAIN reports = 1 .. Len(reports) /\ DOMAIN r = 1 .. Len(r)
        /\ Len(reports) \in Nat /\ Len(r) \in Nat
        /\ \A k \in DOMAIN r : r[k] \in Reports(i, executed)
    BY <1>2, Elements
  <1>4. ASSUME NEW k \in DOMAIN s
        PROVE  \/ k \in DOMAIN reports /\ s[k] = reports[k]
               \/ s[k] \in Reports(i, executed)
    <2>1. CASE k <= Len(reports)
      BY <1>2, <1>3, <2>1
    <2>2. CASE ~(k <= Len(reports))
      <3>1. s[k] = r[k - Len(reports)] /\ k - Len(reports) \in 1 .. Len(r)
        BY <1>2, <1>3, <2>2
      <3> QED
        BY <1>3, <3>1
    <2> QED
      BY <2>1, <2>2
  <1> QED
    BY <1>2, <1>4 DEF s

(* Orders that went on executing: what was heard of them still is so. *)
LEMMA HeardStays ==
    ASSUME TwapTypes, HeardOK, TwapTypes', Twap!IDs \subseteq Twap!IDs', pending' = pending,
           \A j \in Twap!IDs : made[j].executed <= made'[j].executed,
           \A k \in DOMAIN reports' :
              \/ k \in DOMAIN reports /\ reports'[k] = reports[k]
              \/ /\ reports'[k].order \in Twap!IDs'
                 /\ reports'[k].kind = "update" => reports'[k].qty <= made'[reports'[k].order].executed
    PROVE  HeardOK'
  <1>1. \A j \in Twap!IDs : made[j].executed \in Nat /\ made'[j].executed \in Nat
    <2>1. made \in Seq(MadeOrder) /\ made' \in Seq(MadeOrder)
      BY DEF TwapTypes
    <2>2. \A j \in Twap!IDs : made[j] \in MadeOrder /\ made'[j] \in MadeOrder
      BY <2>1, Elements DEF Twap!IDs
    <2> QED
      BY <2>2 DEF MadeOrder
  <1>2. ASSUME NEW k \in DOMAIN reports'
        PROVE  /\ reports'[k].order \in Twap!IDs'
               /\ reports'[k].kind = "update" => reports'[k].qty <= made'[reports'[k].order].executed
    <2>1. CASE k \in DOMAIN reports /\ reports'[k] = reports[k]
      <3>1. reports[k].qty \in Nat /\ reports[k].order \in Twap!IDs
        <4>1. reports \in Seq(Event)
          BY DEF TwapTypes
        <4>2. reports[k] \in Event
          BY <2>1, <4>1, Elements
        <4> QED
          BY <2>1, <4>2 DEF HeardOK, Event
      <3>2. reports[k].kind = "update" => reports[k].qty <= made[reports[k].order].executed
        BY <2>1 DEF HeardOK
      <3> QED
        BY <1>1, <2>1, <3>1, <3>2
    <2> QED
      BY <2>1
  <1>3. ASSUME NEW j \in DOMAIN pending
        PROVE  pending[j] \in Nat /\ j \in Twap!IDs' /\ pending[j] <= made'[j].executed
    <2>1. j \in Twap!IDs /\ pending[j] \in Nat /\ pending[j] <= made[j].executed
      BY DEF HeardOK
    <2> QED
      BY <1>1, <2>1
  <1> QED
    BY <1>2, <1>3 DEF HeardOK

LEMMA FillKeeps ==
    ASSUME TwapInv, NEW i \in Twap!IDs, NEW qty \in 1 .. Twap!Left(i), Twap!Fill(i, qty)
    PROVE  TwapInv'
  <1> DEFINE o == [[made[i] EXCEPT !.executed = @ + qty] EXCEPT !.open = qty < Twap!Left(i)]
  <1>1. /\ TwapTypes /\ OrdersOK /\ HeardOK /\ Followed /\ NoneBeside /\ Twap!TargetKept
        /\ \A j \in Twap!IDs : made[j] \in MadeOrder
        /\ Twap!IDs = 1 .. Len(made) /\ made \in Seq(MadeOrder)
    BY CommittedType DEF TwapInv, TwapTypes, Twap!IDs
  <1>2. /\ made[i].qty \in Nat /\ made[i].executed \in Nat /\ made[i].open
        /\ qty \in Nat \ {0} /\ made[i].executed + qty <= made[i].qty
        /\ Twap!Left(i) = made[i].qty - made[i].executed
    BY <1>1 DEF MadeOrder, Twap!Left, Twap!Fill, Twap!OpenIDs
  <1>3. made' = [made EXCEPT ![i] = o]
    <2>1. made' = [made EXCEPT ![i].executed = @ + qty, ![i].open = qty < Twap!Left(i)]
      BY DEF Twap!Fill
    <2>2. [made EXCEPT ![i].executed = @ + qty, ![i].open = qty < Twap!Left(i)]
              = [made EXCEPT ![i] = [[made[i] EXCEPT !.executed = @ + qty] EXCEPT !.open = qty < Twap!Left(i)]]
      BY <1>1 DEF Twap!IDs
    <2> QED
      BY <2>1, <2>2
  <1>4. o \in MadeOrder
    <2>1. made[i] \in MadeOrder /\ made[i].executed + qty \in Nat
      BY <1>1, <1>2
    <2>2. [made[i] EXCEPT !.executed = @ + qty] \in MadeOrder
      BY <2>1 DEF MadeOrder
    <2>3. \A p \in MadeOrder : \A b \in BOOLEAN : [p EXCEPT !.open = b] \in MadeOrder
      BY DEF MadeOrder
    <2>4. (qty < Twap!Left(i)) \in BOOLEAN
      OBVIOUS
    <2> QED
      BY <2>2, <2>3, <2>4
  <1>5. /\ o.qty = made[i].qty /\ o.executed = made[i].executed + qty
        /\ o.open <=> o.executed < o.qty
    <2>1. made[i] \in MadeOrder
      BY <1>1
    <2>2. o.qty = made[i].qty /\ o.executed = made[i].executed + qty /\ o.open = (qty < Twap!Left(i))
      BY <2>1 DEF MadeOrder
    <2> HIDE DEF o
    <2>3. (qty < Twap!Left(i)) <=> (o.executed < o.qty)
      BY <1>2, <2>2
    <2> QED
      BY <2>2, <2>3
  <1> HIDE DEF o
  <1>6. /\ made' \in Seq(MadeOrder) /\ Twap!IDs' = Twap!IDs
        /\ \A j \in Twap!IDs : made'[j] = IF j = i THEN o ELSE made[j]
    <2>1. i \in 1 .. Len(made)
      BY <1>1
    <2> QED
      BY <1>1, <1>3, <1>4, <2>1, ExceptSeq DEF Twap!IDs
  <1>7. \A j \in Twap!IDs : made[j].executed <= made'[j].executed
    <2>1. \A j \in Twap!IDs : made[j].executed \in Nat
      BY <1>1 DEF MadeOrder
    <2>2. made[i].executed <= o.executed
      BY <1>2, <1>5
    <2> QED
      BY <1>6, <2>1, <2>2
  <1>8. reports' = reports \/ reports' = reports \o Twap!Report(i, qty, o.executed)
    BY <1>6 DEF Twap!Fill
  <1>9. i \in Nat /\ qty \in Nat /\ o.executed \in Nat
    BY <1>1, <1>2, <1>4 DEF MadeOrder
  <1>10. TwapTypes'
    <2>1. reports' \in Seq(Event)
      <3>1. Twap!Report(i, qty, o.executed) \in Seq(Reports(i, o.executed))
        BY <1>9, ReportType
      <3>2. reports \in Seq(Event)
        BY <1>1 DEF TwapTypes
      <3>3. reports \o Twap!Report(i, qty, o.executed) \in Seq(Event)
        BY <1>9, <3>1, <3>2, ReportsGrow
      <3> QED
        BY <1>8, <3>2, <3>3
    <2>2. execution' = execution /\ traded' = traded /\ blind' = blind /\ updater' = updater /\ created' = created
      BY DEF Twap!Fill, Twap!bookVars, Twap!updaterVars
    <2> QED
      BY <1>1, <1>6, <2>1, <2>2 DEF TwapTypes
  <1>11. OrdersOK'
    <2>1. ASSUME NEW j \in Twap!IDs
          PROVE  made'[j].executed <= made'[j].qty /\ (made'[j].open => made'[j].qty - made'[j].executed > 0)
      <3>1. CASE j = i
        <4>1. made'[j] = o /\ made[i].executed \in Nat /\ made[i].qty \in Nat
          BY <1>1, <1>6, <3>1 DEF MadeOrder
        <4>2. o.executed <= o.qty
          BY <1>2, <1>5, <4>1
        <4> QED
          BY <1>5, <1>9, <4>1, <4>2
      <3>2. CASE j # i
        BY <1>1, <1>6, <3>2 DEF OrdersOK, Twap!Left
      <3> QED
        BY <3>1, <3>2
    <2> QED
      BY <1>6, <2>1 DEF OrdersOK, Twap!Left
  <1>12. HeardOK'
    <2>1. ASSUME NEW k \in DOMAIN reports'
          PROVE  \/ k \in DOMAIN reports /\ reports'[k] = reports[k]
                 \/ /\ reports'[k].order \in Twap!IDs'
                    /\ reports'[k].kind = "update" => reports'[k].qty <= made'[reports'[k].order].executed
      <3>1. CASE reports' = reports
        BY <3>1
      <3>2. CASE reports' = reports \o Twap!Report(i, qty, o.executed)
        <4>1. Twap!Report(i, qty, o.executed) \in Seq(Reports(i, o.executed))
          BY <1>9, ReportType
        <4>2. reports \in Seq(Event)
          BY <1>1 DEF TwapTypes
        <4>3. (k \in DOMAIN reports /\ reports'[k] = reports[k]) \/ reports'[k] \in Reports(i, o.executed)
          BY <1>9, <3>2, <4>1, <4>2, ReportsGrow
        <4> QED
          BY <1>6, <1>9, <4>3 DEF Reports
      <3> QED
        BY <1>8, <3>1, <3>2
    <2> QED
      BY <1>1, <1>6, <1>7, <1>10, <2>1, HeardStays DEF Twap!Fill, Twap!bookVars
  <1>13. Followed' /\ NoneBeside'
    <2>1. Twap!OpenIDs' \subseteq Twap!OpenIDs
      BY <1>2, <1>6 DEF Twap!OpenIDs
    <2> QED
      BY <1>1, <2>1 DEF Followed, NoneBeside, Twap!Fill, Twap!bookVars, Twap!updaterVars
  <1>14. Twap!TargetKept'
    <2>1. \A j \in Twap!IDs : Twap!Committed'[j] <= Twap!Committed[j]
      <3>1. \A j \in Twap!IDs : /\ Twap!Committed[j] = IF made[j].open THEN made[j].qty ELSE made[j].executed
                                /\ Twap!Committed'[j] = IF made'[j].open THEN made'[j].qty ELSE made'[j].executed
        BY <1>6 DEF Twap!Committed
      <3>2. ASSUME NEW j \in Twap!IDs
            PROVE  Twap!Committed'[j] <= Twap!Committed[j]
        <4>1. CASE j = i
          BY <1>2, <1>4, <1>5, <1>6, <3>1, <4>1 DEF MadeOrder
        <4>2. CASE j # i
          <5>1. Twap!Committed'[j] = Twap!Committed[j]
            BY <1>6, <3>1, <4>2
          <5>2. Twap!Committed[j] \in Nat
            BY <1>1, CommittedType
          <5> QED
            BY <5>1, <5>2
        <4> QED
          BY <4>1, <4>2
      <3> QED
        BY <3>2
    <2> QED
      BY <1>1, <1>6, <1>10, <2>1, CommittedKept DEF Twap!Fill
  <1> QED
    BY <1>10, <1>11, <1>12, <1>13, <1>14 DEF TwapInv

(* Where the orders stay as they are, the target does too. *)
LEMMA TargetStays ==
    ASSUME Twap!TargetKept, made' = made, execution' = execution, blind' = blind
    PROVE  Twap!TargetKept'
  BY DEF Twap!TargetKept, Twap!Committed, Twap!IDs, Twap!Excess

(* What the book learns of an order removes it only when it is closed. *)
LEMMA LearnKeepsOpen ==
    ASSUME TwapTypes, OrdersOK, NEW book, NEW i \in Twap!IDs \cap DOMAIN book,
           NEW executed \in Nat, executed <= made[i].executed,
           Twap!Learn(book, i, executed)
    PROVE  /\ Twap!OpenIDs \cap DOMAIN book \subseteq DOMAIN followed'
           /\ DOMAIN followed' \subseteq DOMAIN book
  <1>1. CASE executed = made[i].qty
    <2>1. DOMAIN followed' = DOMAIN book \ {i}
      BY <1>1 DEF Twap!Learn, Twap!Restrict
    <2>2. made[i] \in MadeOrder
      BY CommittedType
    <2>3. i \notin Twap!OpenIDs
      BY <1>1, <2>2 DEF OrdersOK, Twap!OpenIDs, Twap!Left, MadeOrder
    <2> QED
      BY <2>1, <2>3
  <1>2. CASE executed # made[i].qty
    <2>1. DOMAIN followed' = DOMAIN book
      BY <1>2 DEF Twap!Learn
    <2> QED
      BY <2>1
  <1> QED
    BY <1>1, <1>2

LEMMA ReceiveKeeps ==
    ASSUME TwapInv, Twap!Receive
    PROVE  TwapInv'
  <1> DEFINE e == Head(reports)
  <1>1. /\ TwapTypes /\ OrdersOK /\ HeardOK /\ Followed /\ NoneBeside /\ Twap!TargetKept
        /\ made' = made /\ execution' = execution /\ blind' = blind
        /\ updater' = updater /\ created' = created /\ lost' = lost /\ known' = known
    BY DEF TwapInv, Twap!Receive, Twap!updaterVars
  <1>2. reports \in Seq(Event) /\ reports # <<>> /\ reports' = Tail(reports)
    BY <1>1 DEF TwapTypes, Twap!Receive
  <1>3. /\ reports' \in Seq(Event)
        /\ \A k \in DOMAIN reports' : k + 1 \in DOMAIN reports /\ reports'[k] = reports[k + 1]
    BY <1>2, HeadTailProperties, Elements
  <1>4. /\ e \in Event /\ e.order \in Twap!IDs
        /\ e.kind = "update" => e.qty <= made[e.order].executed
    <2>1. 1 \in DOMAIN reports /\ e = reports[1]
      BY <1>2
    <2> QED
      BY <1>1, <1>2, <2>1, Elements DEF HeardOK
  <1>5. e.order \in Nat /\ e.qty \in Nat
    BY <1>4 DEF Event
  <1>6. /\ traded' \in Nat
        /\ Twap!OpenIDs \cap DOMAIN followed \subseteq DOMAIN followed' /\ DOMAIN followed' \subseteq DOMAIN followed
        /\ DOMAIN pending' \subseteq Twap!IDs
        /\ \A i \in DOMAIN pending' : pending'[i] \in Nat /\ pending'[i] <= made[i].executed
    <2>1. CASE e.kind = "trade"
      <3>1. traded' \in Nat /\ followed' = followed /\ pending' = pending
        BY <1>1, <1>5, <2>1 DEF Twap!Receive, Twap!HandleTrade, TwapTypes
      <3> QED
        BY <1>1, <3>1 DEF HeardOK
    <2>2. CASE e.kind # "trade"
      <3>1. e.kind = "update" /\ Twap!HandleUpdate(e) /\ traded' = traded
        BY <1>4, <2>2 DEF Twap!Receive, Twap!HandleUpdate, Event
      <3>2. traded' \in Nat
        BY <1>1, <3>1 DEF TwapTypes
      <3>3. CASE e.order \in DOMAIN followed
        <4>1. Twap!Learn(followed, e.order, e.qty) /\ pending' = pending
          BY <3>1, <3>3 DEF Twap!HandleUpdate
        <4> HIDE DEF e
        <4> QED
          BY <1>1, <1>4, <1>5, <3>1, <3>2, <3>3, <4>1, LearnKeepsOpen DEF HeardOK
      <3>4. CASE e.order \notin DOMAIN followed
        <4>1. followed' = followed /\ pending' = Twap!With(pending, e.order, e.qty)
          BY <3>1, <3>4 DEF Twap!HandleUpdate
        <4>2. /\ DOMAIN pending' = DOMAIN pending \cup {e.order}
              /\ \A i \in DOMAIN pending' : pending'[i] = IF i = e.order THEN e.qty ELSE pending[i]
          BY <4>1 DEF Twap!With
        <4> HIDE DEF e
        <4> QED
          BY <1>1, <1>4, <1>5, <3>1, <3>2, <4>1, <4>2 DEF HeardOK
      <3> QED
        BY <3>3, <3>4
    <2> QED
      BY <2>1, <2>2
  <1> HIDE DEF e
  <1>7. TwapTypes'
    BY <1>1, <1>3, <1>6 DEF TwapTypes, Twap!IDs
  <1>8. OrdersOK'
    BY <1>1 DEF OrdersOK, Twap!IDs, Twap!Left
  <1>9. HeardOK'
    BY <1>1, <1>3, <1>6 DEF HeardOK, Twap!IDs
  <1>10. Followed' /\ NoneBeside'
    BY <1>1, <1>6 DEF Followed, NoneBeside, Twap!OpenIDs, Twap!IDs
  <1>11. Twap!TargetKept'
    BY <1>1, TargetStays
  <1> QED
    BY <1>7, <1>8, <1>9, <1>10, <1>11 DEF TwapInv

-----------------------------------------------------------------------------
(***************************************************************************)
(* The updater                                                             *)
(***************************************************************************)
(* GracefulCancel closes the active orders, and raises nothing. *)
LEMMA ClosedOrders ==
    ASSUME TwapTypes, OrdersOK
    PROVE  /\ Twap!Closed \in Seq(MadeOrder) /\ DOMAIN Twap!Closed = Twap!IDs
           /\ \A i \in Twap!IDs : /\ Twap!Closed[i].qty = made[i].qty
                                  /\ Twap!Closed[i].executed = made[i].executed
                                  /\ Twap!Closed[i].open => made[i].open /\ i \notin DOMAIN followed
  <1>1. made \in Seq(MadeOrder) /\ Twap!IDs = 1 .. Len(made) /\ Len(made) \in Nat
    BY DEF TwapTypes, Twap!IDs
  <1>2. \A i \in Twap!IDs : Twap!Closed[i] = [made[i] EXCEPT !.open = @ /\ i \notin DOMAIN followed]
    BY DEF Twap!Closed
  <1>3. ASSUME NEW i \in Twap!IDs
        PROVE  /\ Twap!Closed[i] \in MadeOrder
               /\ Twap!Closed[i].qty = made[i].qty
               /\ Twap!Closed[i].executed = made[i].executed
               /\ Twap!Closed[i].open => made[i].open /\ i \notin DOMAIN followed
    <2>1. made[i] \in MadeOrder
      BY CommittedType
    <2>2. Twap!Closed[i] = [made[i] EXCEPT !.open = @ /\ i \notin DOMAIN followed]
      BY <1>2
    <2> QED
      BY <2>1, <2>2 DEF MadeOrder
  <1>4. DOMAIN Twap!Closed = Twap!IDs
    BY DEF Twap!Closed
  <1>5. Twap!Closed \in [1 .. Len(made) -> MadeOrder]
    BY <1>1, <1>2, <1>3 DEF Twap!Closed
  <1> QED
    BY <1>1, <1>3, <1>4, <1>5

(* What is active is cancelled, and nothing else changes but the updater's
   place and what is on the stream. *)
LEMMA CancelKeeps ==
    ASSUME TwapInv, TwapTypes', made' = Twap!Closed, DOMAIN followed' = {}, pending' = pending,
           reports' = reports \/ reports' = <<>>, updater' \notin {"add"}, updater # "add", lost' = lost,
           execution' = execution, blind' = blind
    PROVE  TwapInv'
  <1>1. TwapTypes /\ OrdersOK /\ HeardOK /\ Followed /\ NoneBeside /\ Twap!TargetKept
    BY DEF TwapInv
  <1>2. /\ Twap!IDs' = Twap!IDs
        /\ \A i \in Twap!IDs : /\ made'[i].qty = made[i].qty
                               /\ made'[i].executed = made[i].executed
                               /\ made'[i].open => made[i].open /\ i \notin DOMAIN followed
        /\ \A i \in Twap!IDs : made[i] \in MadeOrder
    BY <1>1, ClosedOrders, CommittedType DEF Twap!IDs
  <1>3. OrdersOK'
    BY <1>1, <1>2 DEF OrdersOK, Twap!Left
  <1>4. HeardOK'
    <2>1. \A i \in Twap!IDs : made[i].executed <= made'[i].executed
      BY <1>2 DEF MadeOrder
    <2>2. \A k \in DOMAIN reports' : k \in DOMAIN reports /\ reports'[k] = reports[k]
      OBVIOUS
    <2> QED
      BY <1>1, <1>2, <2>1, <2>2, HeardStays
  <1>5. Followed' /\ NoneBeside'
    <2>1. Twap!OpenIDs' \subseteq Twap!OpenIDs \ DOMAIN followed
      BY <1>2 DEF Twap!OpenIDs
    <2>2. Twap!OpenIDs \subseteq DOMAIN followed \cup lost
      BY <1>1 DEF Followed
    <2> QED
      BY <2>1, <2>2 DEF Followed, NoneBeside
  <1>6. Twap!TargetKept'
    <2>1. ASSUME NEW i \in Twap!IDs
          PROVE  Twap!Committed'[i] <= Twap!Committed[i]
      <3>1. /\ Twap!Committed[i] = IF made[i].open THEN made[i].qty ELSE made[i].executed
            /\ Twap!Committed'[i] = IF made'[i].open THEN made[i].qty ELSE made[i].executed
        BY <1>2 DEF Twap!Committed
      <3>2. made[i].qty \in Nat /\ made[i].executed \in Nat /\ made[i].executed <= made[i].qty
        BY <1>1, <1>2 DEF OrdersOK, MadeOrder
      <3> QED
        BY <1>2, <3>1, <3>2
    <2> QED
      BY <1>1, <1>2, <2>1, CommittedKept
  <1> QED
    BY <1>3, <1>4, <1>5, <1>6 DEF TwapInv

LEMMA CancelActiveOrdersKeeps ==
    ASSUME TwapInv, Twap!CancelActiveOrders
    PROVE  TwapInv'
  <1>1. TwapTypes'
    BY ClosedOrders DEF TwapInv, TwapTypes, Twap!CancelActiveOrders, Twap!updaterVars
  <1> QED
    BY <1>1, CancelKeeps DEF Twap!CancelActiveOrders, Twap!updaterVars

LEMMA CleanUpKeeps ==
    ASSUME TwapInv, NEW inTime \in BOOLEAN, Twap!CleanUp(inTime)
    PROVE  TwapInv'
  <1>1. TwapTypes'
    BY ClosedOrders DEF TwapInv, TwapTypes, Twap!CleanUp, Twap!Goto
  <1>2. CASE inTime
    BY <1>1, <1>2, CancelKeeps DEF Twap!CleanUp, Twap!Goto
  <1>3. CASE ~inTime
    <2>1. /\ made' = made /\ followed' = followed /\ pending' = pending /\ reports' = <<>> /\ lost' = lost
          /\ execution' = execution /\ blind' = blind /\ updater = "cleanup" /\ updater' = "stopped"
      BY <1>3 DEF Twap!CleanUp, Twap!Goto
    <2>2. OrdersOK' /\ HeardOK' /\ Followed' /\ NoneBeside'
      BY <2>1 DEF TwapInv, OrdersOK, HeardOK, Followed, NoneBeside, Twap!OpenIDs, Twap!IDs, Twap!Left
    <2>3. Twap!TargetKept'
      BY <2>1, TargetStays DEF TwapInv
    <2> QED
      BY <1>1, <2>2, <2>3 DEF TwapInv
  <1> QED
    BY <1>2, <1>3

(* The other steps of the updater and of its environment that make no order. *)
LEMMA ControlKeeps ==
    ASSUME TwapInv, Twap!Expire \/ Twap!WakeUp \/ Twap!ContextDone \/ Twap!LeaveAsIs \/ Twap!PrepareOrder \/ Twap!SubmitNothing
                    \/ Twap!AddStored \/ Twap!Shutdown
    PROVE  TwapInv'
  <1>1. /\ made' = made /\ reports' = reports /\ followed' = followed /\ pending' = pending /\ lost' = lost
        /\ traded' = traded /\ execution' = execution /\ blind' = blind
    BY DEF Twap!Expire, Twap!WakeUp, Twap!ContextDone, Twap!LeaveAsIs, Twap!PrepareOrder, Twap!SubmitNothing, Twap!AddStored, Twap!Shutdown,
           Twap!exchangeVars, Twap!bookVars
  <1>2. /\ \/ updater' = updater /\ created' = created
           \/ updater # "add" /\ updater' \in {"select", "check", "cleanup"}
           \/ updater # "add" /\ updater' = "place" /\ DOMAIN followed = {}
        /\ updater' \in {"select", "check", "place", "add", "store", "cleanup", "stopped"}
    BY DEF Twap!Expire, Twap!WakeUp, Twap!ContextDone, Twap!LeaveAsIs, Twap!PrepareOrder, Twap!SubmitNothing, Twap!AddStored, Twap!Shutdown,
           Twap!updaterVars, Twap!Goto, Twap!NoneActive, TwapInv, TwapTypes
  <1>3. TwapTypes' /\ OrdersOK' /\ HeardOK'
    BY <1>1, <1>2 DEF TwapInv, TwapTypes, OrdersOK, HeardOK, Twap!IDs, Twap!Left
  <1>4. Followed' /\ NoneBeside'
    BY <1>1, <1>2 DEF TwapInv, Followed, NoneBeside, Twap!OpenIDs, Twap!IDs
  <1>5. Twap!TargetKept'
    BY <1>1, TargetStays DEF TwapInv
  <1> QED
    BY <1>3, <1>4, <1>5 DEF TwapInv

(* The order the updater has in hand becomes active, unless it is closed. *)
LEMMA AddActiveKeeps ==
    ASSUME TwapInv, Twap!AddActive
    PROVE  TwapInv'
  <1> DEFINE book == Twap!With(followed, created, 0)
             heard == IF created \in DOMAIN pending THEN pending[created] ELSE 0
  <1>1. /\ TwapTypes /\ OrdersOK /\ HeardOK /\ Followed /\ NoneBeside /\ Twap!TargetKept
        /\ made' = made /\ reports' = reports /\ lost' = lost /\ traded' = traded
        /\ execution' = execution /\ blind' = blind /\ created' = created
        /\ updater = "add" /\ updater' = "store" /\ created \in Twap!IDs
    BY DEF TwapInv, TwapTypes, Twap!AddActive, Twap!exchangeVars, Twap!Goto
  <1>2. made[created] \in MadeOrder /\ \A i \in Twap!IDs : made[i] \in MadeOrder
    BY <1>1, CommittedType
  <1>3. heard \in Nat /\ heard <= made[created].executed
    BY <1>1, <1>2 DEF HeardOK, MadeOrder
  <1>4. DOMAIN book = DOMAIN followed \cup {created}
    BY DEF Twap!With
  <1>5. Twap!Learn(book, created, heard)
    BY DEF Twap!AddActive
  <1>6. /\ DOMAIN pending' = DOMAIN pending \ {created}
        /\ \A i \in DOMAIN pending' : pending'[i] = pending[i]
    BY DEF Twap!AddActive, Twap!Restrict
  <1> HIDE DEF book, heard
  <1>7. Twap!OpenIDs \cap DOMAIN book \subseteq DOMAIN followed'
    BY <1>1, <1>3, <1>4, <1>5, LearnKeepsOpen
  <1>8. TwapTypes' /\ OrdersOK'
    BY <1>1 DEF TwapTypes, OrdersOK, Twap!IDs, Twap!Left
  <1>9. HeardOK'
    BY <1>1, <1>6 DEF HeardOK, Twap!IDs
  <1>10. Followed' /\ NoneBeside'
    <2>1. Twap!OpenIDs' = Twap!OpenIDs /\ Twap!OpenIDs \subseteq DOMAIN followed \cup lost \cup {created}
      BY <1>1 DEF Followed, Twap!OpenIDs, Twap!IDs
    <2> QED
      BY <1>1, <1>4, <1>7, <2>1 DEF Followed, NoneBeside
  <1>11. Twap!TargetKept'
    BY <1>1, TargetStays
  <1> QED
    BY <1>8, <1>9, <1>10, <1>11 DEF TwapInv

(* When no order is open, all that was committed is what was traded. *)
LEMMA AllTraded ==
    ASSUME TwapTypes, Twap!OpenIDs = {}
    PROVE  SumFunctionOnSet(Twap!Committed, Twap!IDs) = Twap!Traded
  <1>1. \A i \in Twap!IDs : ~made[i].open
    BY DEF Twap!OpenIDs
  <1>2. Twap!Committed = [i \in Twap!IDs |-> made[i].executed]
    BY <1>1 DEF Twap!Committed
  <1> QED
    BY <1>2, SameSums

(* A new order adds its quantity to what was committed. *)
LEMMA CommittedGrows ==
    ASSUME TwapTypes, NEW o \in MadeOrder, made' = Append(made, o)
    PROVE  /\ Twap!IDs' = Twap!IDs \cup {Len(made) + 1} /\ Len(made) + 1 \notin Twap!IDs
           /\ made' \in Seq(MadeOrder) /\ Len(made') = Len(made) + 1 /\ Len(made) + 1 \in Nat
           /\ made'[Len(made) + 1] = o /\ \A i \in Twap!IDs : made'[i] = made[i]
           /\ SumFunctionOnSet(Twap!Committed', Twap!IDs') = SumFunctionOnSet(Twap!Committed, Twap!IDs)
                                                       + (IF o.open THEN o.qty ELSE o.executed)
  <1> DEFINE n == Len(made) + 1
             c == IF o.open THEN o.qty ELSE o.executed
  <1>1. /\ made \in Seq(MadeOrder) /\ Len(made) \in Nat /\ Twap!IDs = 1 .. Len(made)
        /\ made' \in Seq(MadeOrder) /\ Len(made') = n /\ Twap!IDs' = 1 .. n
        /\ made'[n] = o /\ \A i \in 1 .. Len(made) : made'[i] = made[i]
    BY DEF TwapTypes, Twap!IDs
  <1>2. Twap!IDs' = Twap!IDs \cup {n} /\ n \notin Twap!IDs /\ n \in Nat
    BY <1>1
  <1>3. /\ IsFiniteSet(Twap!IDs) /\ \A i \in Twap!IDs : Twap!Committed[i] \in Int
        /\ SumFunctionOnSet(Twap!Committed, Twap!IDs) \in Int
    BY CommittedType
  <1>4. Twap!Committed'[n] = c /\ \A i \in Twap!IDs : Twap!Committed'[i] = Twap!Committed[i]
    <2>1. \A i \in Twap!IDs' : Twap!Committed'[i] = IF made'[i].open THEN made'[i].qty ELSE made'[i].executed
      BY DEF Twap!Committed
    <2>2. \A i \in Twap!IDs : Twap!Committed[i] = IF made[i].open THEN made[i].qty ELSE made[i].executed
      BY DEF Twap!Committed
    <2> QED
      BY <1>1, <1>2, <2>1, <2>2
  <1>5. c \in Int
    BY DEF MadeOrder
  <1> HIDE DEF n, c
  <1>6. \A i \in Twap!IDs \cup {n} : Twap!Committed'[i] \in Int
    BY <1>3, <1>4, <1>5
  <1>7. SumFunctionOnSet(Twap!Committed', Twap!IDs \cup {n}) = c + SumFunctionOnSet(Twap!Committed', Twap!IDs)
    BY <1>2, <1>3, <1>4, <1>6, SumAdd
  <1>8. SumFunctionOnSet(Twap!Committed', Twap!IDs) = SumFunctionOnSet(Twap!Committed, Twap!IDs)
    BY <1>3, <1>4, SumAgree
  <1>9. SumFunctionOnSet(Twap!Committed', Twap!IDs') = SumFunctionOnSet(Twap!Committed, Twap!IDs) + c
    BY <1>2, <1>3, <1>5, <1>7, <1>8
  <1> QED
    BY <1>1, <1>2, <1>9 DEF n, c

(* The order that is made: of what is left of the target, when nothing is open
   and every trade was heard of. *)
LEMMA SubmitOrderKeeps ==
    ASSUME TwapInv, NEW answered \in BOOLEAN, Twap!SubmitOrder(answered)
    PROVE  TwapInv'
  <1> DEFINE n == Len(made) + 1
             form == Twap!NewOrder
             market == form.type = "MARKET"
             o == [qty |-> form.qty, open |-> ~market, executed |-> IF market THEN form.qty ELSE 0]
  <1>1. /\ TwapTypes /\ OrdersOK /\ HeardOK /\ Followed /\ NoneBeside /\ Twap!TargetKept
        /\ execution' = execution /\ followed' = followed /\ pending' = pending /\ traded' = traded
        /\ updater = "place" /\ ~Twap!TargetFilled /\ Twap!RestQuantity >= execution.minQuantity
        /\ blind' = (blind \/ traded # Twap!Traded \/ Twap!OpenIDs \cap lost # {})
        /\ \/ answered /\ created' = Len(made') /\ updater' = "add" /\ lost' = lost
           \/ ~answered /\ lost' = lost \cup {Len(made')} /\ updater' = "select" /\ created' = created
    BY DEF TwapInv, Twap!SubmitOrder, Twap!bookVars, Twap!Goto
  <1>2. /\ form.qty \in Nat \ {0} /\ form.qty <= Twap!RestQuantity + Twap!Excess
        /\ market => form.qty = Twap!RestQuantity
    BY <1>1, NewOrderWithinRest
  <1>3. /\ made' = Append(made, o)
        /\ reports' = IF market THEN reports \o Twap!Report(n, form.qty, form.qty) ELSE reports
    BY DEF Twap!SubmitOrder, Twap!Create
  <1> HIDE DEF form
  <1>4. /\ o \in MadeOrder
        /\ o.qty = form.qty /\ o.open = ~market /\ o.executed = IF market THEN form.qty ELSE 0
    BY <1>2 DEF MadeOrder
  <1> HIDE DEF o
  <1>5. /\ Twap!IDs' = Twap!IDs \cup {n} /\ n \notin Twap!IDs /\ n \in Nat
        /\ made' \in Seq(MadeOrder) /\ Len(made') = n
        /\ made'[n] = o /\ \A i \in Twap!IDs : made'[i] = made[i]
        /\ SumFunctionOnSet(Twap!Committed', Twap!IDs') = SumFunctionOnSet(Twap!Committed, Twap!IDs)
                                                    + (IF o.open THEN o.qty ELSE o.executed)
    BY <1>1, <1>3, <1>4, CommittedGrows
  <1> HIDE DEF n, market
  <1>6. /\ reports' \in Seq(Event)
        /\ \A k \in DOMAIN reports' :
              \/ k \in DOMAIN reports /\ reports'[k] = reports[k]
              \/ reports'[k].order = n /\ (reports'[k].kind = "update" => reports'[k].qty = o.executed)
    <2>1. reports \in Seq(Event)
      BY <1>1 DEF TwapTypes
    <2>2. CASE market
      <3>1. Twap!Report(n, form.qty, form.qty) \in Seq(Reports(n, form.qty))
        BY <1>2, <1>5, ReportType
      <3>2. /\ reports' \in Seq(Event)
            /\ \A k \in DOMAIN reports' : \/ k \in DOMAIN reports /\ reports'[k] = reports[k]
                                          \/ reports'[k] \in Reports(n, form.qty)
        BY <1>2, <1>3, <1>5, <2>1, <2>2, <3>1, ReportsGrow
      <3> QED
        BY <1>4, <2>2, <3>2 DEF Reports
    <2>3. CASE ~market
      BY <1>3, <2>1, <2>3
    <2> QED
      BY <2>2, <2>3
  <1>7. TwapTypes'
    <2>1. blind' \in BOOLEAN
      BY <1>1
    <2>2. updater' \in {"select", "add"} /\ (updater' = "add" => created' \in Twap!IDs')
      BY <1>1, <1>5
    <2> QED
      BY <1>1, <1>5, <1>6, <2>1, <2>2 DEF TwapTypes
  <1>8. OrdersOK'
    <2>1. o.executed <= o.qty /\ (o.open => o.qty - o.executed > 0)
      <3>1. CASE market
        <4>1. ~o.open /\ o.executed = o.qty
          BY <1>4, <3>1, Zenon
        <4> QED
          BY <1>2, <1>4, <4>1
      <3>2. CASE ~market
        BY <1>2, <1>4, <3>2
      <3> QED
        BY <3>1, <3>2
    <2>2. ASSUME NEW i \in Twap!IDs'
          PROVE  /\ made'[i].executed <= made'[i].qty
                 /\ made'[i].open => made'[i].qty - made'[i].executed > 0
      <3>1. CASE i = n
        BY <1>5, <2>1, <3>1
      <3>2. CASE i \in Twap!IDs
        BY <1>1, <1>5, <3>2 DEF OrdersOK, Twap!Left
      <3> QED
        BY <1>5, <3>1, <3>2
    <2> QED
      BY <2>2 DEF OrdersOK, Twap!Left
  <1>9. HeardOK'
    <2>1. \A i \in Twap!IDs : made[i].executed \in Nat /\ made[i].executed <= made'[i].executed
      BY <1>1, <1>5, CommittedType DEF MadeOrder
    <2>2. o.executed \in Nat
      BY <1>4 DEF MadeOrder
    <2>3. ASSUME NEW k \in DOMAIN reports'
          PROVE  \/ k \in DOMAIN reports /\ reports'[k] = reports[k]
                 \/ /\ reports'[k].order \in Twap!IDs'
                    /\ reports'[k].kind = "update" => reports'[k].qty <= made'[reports'[k].order].executed
      BY <1>5, <1>6, <2>2
    <2> QED
      BY <1>1, <1>5, <1>7, <2>1, <2>3, HeardStays
  <1>10. Followed' /\ NoneBeside'
    <2>1. Twap!OpenIDs' \subseteq Twap!OpenIDs \cup {n}
      BY <1>5 DEF Twap!OpenIDs
    <2>2. Twap!OpenIDs \subseteq DOMAIN followed \cup lost
      BY <1>1 DEF Followed
    <2> QED
      BY <1>1, <1>5, <2>1, <2>2 DEF Followed, NoneBeside
  <1>11. Twap!TargetKept'
    <2>1. SUFFICES ASSUME ~blind'
                   PROVE  SumFunctionOnSet(Twap!Committed', Twap!IDs') <= execution'.target + Twap!Excess'
      BY SameSums
    <2>2. traded = Twap!Traded /\ Twap!OpenIDs = {}
      BY <1>1, <2>1 DEF Followed, NoneBeside
    <2>3. SumFunctionOnSet(Twap!Committed, Twap!IDs) = traded
      BY <1>1, <2>2, AllTraded
    <2>4. Twap!Excess' = Twap!Excess /\ Twap!Excess \in Nat /\ traded \in Nat /\ execution.target \in Nat
      BY <1>1 DEF TwapTypes, Twap!Execution, Twap!Excess
    <2>5. (IF o.open THEN o.qty ELSE o.executed) = form.qty
      BY <1>4
    <2>6. Twap!RestQuantity = execution.target - traded
      BY DEF Twap!RestQuantity
    <2>7. SumFunctionOnSet(Twap!Committed', Twap!IDs') = traded + form.qty
      BY <1>5, <2>3, <2>5
    <2> QED
      BY <1>1, <1>2, <2>4, <2>6, <2>7
  <1> QED
    BY <1>7, <1>8, <1>9, <1>10, <1>11 DEF TwapInv

-----------------------------------------------------------------------------
LEMMA InitHolds ==
    ASSUME Executions \subseteq Twap!Execution, Twap!Init
    PROVE  TwapInv
  <1>1. TwapTypes /\ OrdersOK /\ HeardOK /\ Followed /\ NoneBeside
    <2>1. DOMAIN made = {} /\ DOMAIN reports = {} /\ DOMAIN pending = {} /\ DOMAIN followed = {}
      BY DEF Twap!Init
    <2>2. TwapTypes
      <3>1. made \in Seq(MadeOrder) /\ reports \in Seq(Event)
        BY DEF Twap!Init
      <3>2. execution \in Twap!Execution
        BY DEF Twap!Init
      <3> QED
        BY <3>1, <3>2 DEF Twap!Init, TwapTypes
    <2> QED
      BY <2>1, <2>2 DEF OrdersOK, HeardOK, Followed, NoneBeside, Twap!IDs, Twap!OpenIDs
  <1>2. Twap!TargetKept
    <2>1. Twap!IDs = {}
      BY DEF Twap!Init, Twap!IDs
    <2>2. SumFunctionOnSet(Twap!Committed, Twap!IDs) = 0
      BY <2>1, SumEmpty
    <2>3. execution.target \in Nat /\ Twap!Excess \in Nat
      BY <1>1 DEF TwapTypes, Twap!Execution, Twap!Excess
    <2> QED
      BY <2>2, <2>3, SameSums
  <1> QED
    BY <1>1, <1>2 DEF TwapInv

LEMMA NextKeeps ==
    ASSUME TwapInv, [Twap!Next]_(Twap!vars)
    PROVE  TwapInv'
  <1>1. CASE \E i \in Twap!IDs : \E qty \in 1 .. Twap!Left(i) : Twap!Fill(i, qty)
    BY <1>1, FillKeeps
  <1>2. CASE Twap!Receive
    BY <1>2, ReceiveKeeps
  <1>3. CASE \E answered \in BOOLEAN : Twap!SubmitOrder(answered)
    BY <1>3, SubmitOrderKeeps
  <1>4. CASE Twap!AddActive
    BY <1>4, AddActiveKeeps
  <1>5. CASE Twap!CancelActiveOrders
    BY <1>5, CancelActiveOrdersKeeps
  <1>6. CASE \E inTime \in BOOLEAN : Twap!CleanUp(inTime)
    BY <1>6, CleanUpKeeps
  <1>7. CASE Twap!Expire \/ Twap!WakeUp \/ Twap!ContextDone \/ Twap!LeaveAsIs \/ Twap!PrepareOrder \/ Twap!SubmitNothing \/ Twap!AddStored \/ Twap!Shutdown
    BY <1>7, ControlKeeps
  <1>8. CASE UNCHANGED Twap!vars
    <2>1. TwapTypes' /\ OrdersOK' /\ HeardOK' /\ Followed' /\ NoneBeside'
      BY <1>8 DEF TwapInv, TwapTypes, OrdersOK, HeardOK, Followed, NoneBeside, Twap!OpenIDs, Twap!IDs, Twap!Left,
                  Twap!vars, Twap!exchangeVars, Twap!bookVars, Twap!updaterVars
    <2>2. Twap!TargetKept'
      BY <1>8, TargetStays DEF TwapInv, Twap!vars, Twap!exchangeVars
    <2> QED
      BY <2>1, <2>2 DEF TwapInv
  <1> QED
    BY <1>1, <1>2, <1>3, <1>4, <1>5, <1>6, <1>7, <1>8 DEF Twap!Next, Twap!Updater

(* However the orders of an execution are filled, moved, cancelled, or sold out
   at the deadline, and whatever answers, trades and updates come when: what was
   traded and what can still be traded stays within the target, until an order
   is made without knowing all that was traded
   (pkg/bbgo/twap_order_executor.go:137). *)
THEOREM TargetKeptInvariant == Executions \subseteq Twap!Execution => (Twap!Spec => []Twap!TargetKept)
<1> SUFFICES ASSUME Executions \subseteq Twap!Execution
             PROVE  Twap!Spec => []Twap!TargetKept
  OBVIOUS
<1>1. Twap!Init => TwapInv
  BY InitHolds
<1>2. TwapInv /\ [Twap!Next]_(Twap!vars) => TwapInv'
  BY NextKeeps
<1>3. TwapInv => Twap!TargetKept
  BY DEF TwapInv
<1> QED
  BY <1>1, <1>2, <1>3, PTL DEF Twap!Spec

-----------------------------------------------------------------------------
(***************************************************************************)
(* What an execution counts and whom it follows                            *)
(*                                                                         *)
(* An execution counts no trade twice: what it has counted and what the    *)
(* stream still has to tell is no more than what was traded.               *)
(***************************************************************************)
(* What an event of the stream says was traded, and all of them together. *)
Tells(e) == IF e.kind = "trade" THEN e.qty ELSE 0

Tellings(s) == [k \in DOMAIN s |-> Tells(s[k])]

Untold(s) == SumFunctionOnSet(Tellings(s), DOMAIN s)

FollowedOK ==
    /\ DOMAIN followed \subseteq Twap!IDs
    /\ \A i \in DOMAIN followed : followed[i] \in Nat /\ followed[i] <= made[i].executed
    /\ known \cup lost \subseteq Twap!IDs
    /\ created \in Twap!IDs \cup {0} /\ (updater = "store" => created \in Twap!IDs)
    /\ {cancelled, listening, expired} \subseteq BOOLEAN

CountedOK == traded + Untold(reports) <= Twap!Traded

TwapCounted == TwapInv /\ FollowedOK /\ CountedOK

LEMMA UntoldType ==
    ASSUME NEW s \in Seq(Event)
    PROVE  /\ DOMAIN s = 1 .. Len(s) /\ Len(s) \in Nat /\ IsFiniteSet(DOMAIN s)
           /\ \A k \in DOMAIN s : s[k] \in Event /\ Tellings(s)[k] = Tells(s[k]) /\ Tellings(s)[k] \in Nat
           /\ Untold(s) \in Nat
  <1>1. DOMAIN s = 1 .. Len(s) /\ Len(s) \in Nat /\ \A k \in DOMAIN s : s[k] \in Event
    BY Elements
  <1>2. \A k \in DOMAIN s : Tellings(s)[k] = Tells(s[k]) /\ Tells(s[k]) \in Nat
    BY <1>1 DEF Tellings, Tells, Event
  <1>3. IsFiniteSet(DOMAIN s)
    BY <1>1, FS_Interval
  <1>4. Untold(s) \in Int
    BY <1>2, <1>3, SumType DEF Untold
  <1>5. 0 <= Untold(s)
    <2> DEFINE none == [k \in DOMAIN s |-> 0]
    <2>1. SumFunctionOnSet(none, DOMAIN s) = 0
      BY <1>3, SumZero
    <2>2. SumFunctionOnSet(none, DOMAIN s) <= SumFunctionOnSet(Tellings(s), DOMAIN s)
      <3>1. \A k \in DOMAIN s : none[k] \in Int /\ Tellings(s)[k] \in Int /\ none[k] <= Tellings(s)[k]
        BY <1>2
      <3> HIDE DEF none
      <3> QED
        BY <1>3, <3>1, SumMonotone
    <2> HIDE DEF none
    <2> QED
      BY <2>1, <2>2 DEF Untold
  <1> QED
    BY <1>1, <1>2, <1>3, <1>4, <1>5

(* An event that is told is no longer untold, *)
LEMMA UntoldTail ==
    ASSUME NEW s \in Seq(Event), s # <<>>
    PROVE  Head(s) \in Event /\ Untold(s) = Tells(Head(s)) + Untold(Tail(s))
  <1> DEFINE n == Len(s) - 1
             t == Tail(s)
  <1>1. t \in Seq(Event) /\ n \in Nat /\ Len(t) = n /\ Len(s) = n + 1
    BY HeadTailProperties, Elements
  <1>2. \A k \in 1 .. n : t[k] = s[k + 1]
    BY <1>1, HeadTailProperties
  <1>3. Head(s) = s[1] /\ 1 \in 1 .. n + 1 /\ s[1] \in Event
    BY <1>1, Elements
  <1>4. DOMAIN s = 1 .. n + 1 /\ DOMAIN t = 1 .. n
    BY <1>1, UntoldType
  <1> HIDE DEF n, t
  <1>5. \A k \in 1 .. n + 1 : Tellings(s)[k] = Tells(s[k]) /\ Tellings(s)[k] \in Int
    <2>1. \A k \in DOMAIN s : Tellings(s)[k] = Tells(s[k]) /\ Tellings(s)[k] \in Nat
      BY UntoldType
    <2> QED
      BY <1>4, <2>1
  <1>6. \A k \in 1 .. n : Tellings(t)[k] = Tellings(s)[k + 1]
    BY <1>1, <1>2, <1>4, <1>5, UntoldType
  <1>7. SumFunctionOnSet(Tellings(s), 1 .. n + 1) = Tellings(s)[1] + SumFunctionOnSet(Tellings(t), 1 .. n)
    BY <1>1, <1>5, <1>6, SumShift
  <1> QED
    BY <1>3, <1>4, <1>5, <1>7 DEF Untold, t

LEMMA UntoldAppend ==
    ASSUME NEW s \in Seq(Event), NEW e \in Event
    PROVE  Append(s, e) \in Seq(Event) /\ Untold(Append(s, e)) = Untold(s) + Tells(e)
  <1> DEFINE n == Len(s) + 1
             u == Append(s, e)
  <1>1. /\ u \in Seq(Event) /\ Len(u) = n /\ u[n] = e
        /\ \A k \in 1 .. Len(s) : u[k] = s[k]
    OBVIOUS
  <1>2. /\ DOMAIN s = 1 .. Len(s) /\ Len(s) \in Nat /\ IsFiniteSet(DOMAIN s)
        /\ \A k \in DOMAIN s : Tellings(s)[k] = Tells(s[k]) /\ Tellings(s)[k] \in Nat
        /\ Untold(s) \in Nat
    BY UntoldType
  <1> HIDE DEF u
  <1>3. /\ DOMAIN u = DOMAIN s \cup {n} /\ n \notin DOMAIN s
        /\ \A k \in DOMAIN u : Tellings(u)[k] = Tells(u[k]) /\ Tellings(u)[k] \in Int
    <2>1. DOMAIN u = 1 .. n /\ \A k \in DOMAIN u : Tellings(u)[k] = Tells(u[k]) /\ Tellings(u)[k] \in Nat
      BY <1>1, UntoldType
    <2>2. 1 .. n = 1 .. Len(s) \cup {n} /\ n \notin 1 .. Len(s)
      BY <1>2
    <2> QED
      BY <1>2, <2>1, <2>2
  <1> HIDE DEF n
  <1>4. SumFunctionOnSet(Tellings(u), DOMAIN s \cup {n}) = Tellings(u)[n] + SumFunctionOnSet(Tellings(u), DOMAIN s)
    BY <1>2, <1>3, SumAdd
  <1>5. SumFunctionOnSet(Tellings(u), DOMAIN s) = SumFunctionOnSet(Tellings(s), DOMAIN s)
    <2>1. \A k \in DOMAIN s : Tellings(u)[k] \in Int /\ Tellings(u)[k] = Tellings(s)[k]
      BY <1>1, <1>2, <1>3
    <2> QED
      BY <1>2, <2>1, SumAgree
  <1>6. Tellings(u)[n] = Tells(e) /\ Tells(e) \in Int
    BY <1>1, <1>3
  <1>7. Untold(u) = Tells(e) + Untold(s)
    BY <1>3, <1>4, <1>5, <1>6 DEF Untold
  <1> QED
    BY <1>1, <1>2, <1>6, <1>7 DEF u

(* and a report tells what was traded, once. *)
LEMMA UntoldReport ==
    ASSUME NEW s \in Seq(Event), NEW i \in Nat, NEW qty \in Nat, NEW executed \in Nat
    PROVE  Untold(s \o Twap!Report(i, qty, executed)) = Untold(s) + qty
  <1> DEFINE trade == [kind |-> "trade", order |-> i, qty |-> qty]
             update == [kind |-> "update", order |-> i, qty |-> executed]
  <1>1. trade \in Event /\ update \in Event /\ Tells(trade) = qty /\ Tells(update) = 0
    BY DEF Event, Tells
  <1>2. Twap!Report(i, qty, executed) = IF execution.tradeFirst THEN <<trade, update>> ELSE <<update, trade>>
    BY DEF Twap!Report
  <1> HIDE DEF trade, update
  <1>3. /\ s \o <<trade, update>> = Append(Append(s, trade), update)
        /\ s \o <<update, trade>> = Append(Append(s, update), trade)
    BY <1>1
  <1>4. Untold(s) \in Nat
    BY UntoldType
  <1>5. Untold(Append(Append(s, trade), update)) = Untold(s) + qty
    <2> DEFINE t == Append(s, trade)
    <2>1. t \in Seq(Event) /\ Untold(t) = Untold(s) + qty
      BY <1>1, UntoldAppend
    <2> HIDE DEF t
    <2>2. Untold(Append(t, update)) = Untold(t) + 0
      BY <1>1, <2>1, UntoldAppend
    <2> QED
      BY <1>4, <2>1, <2>2 DEF t
  <1>6. Untold(Append(Append(s, update), trade)) = Untold(s) + qty
    <2>1. Append(s, update) \in Seq(Event) /\ Untold(Append(s, update)) = Untold(s)
      BY <1>1, <1>4, UntoldAppend
    <2> QED
      BY <1>1, <1>4, <2>1, UntoldAppend
  <1> QED
    BY <1>2, <1>3, <1>5, <1>6

-----------------------------------------------------------------------------
LEMMA SameTraded ==
    /\ Twap!Traded = SumFunctionOnSet([i \in Twap!IDs |-> made[i].executed], Twap!IDs)
    /\ Twap!Traded' = SumFunctionOnSet([i \in Twap!IDs' |-> made'[i].executed], Twap!IDs')
  <1>1. \A f, S : Twap!SumFunctionOnSet(f, S) = SumFunctionOnSet(f, S)
    BY DEF Twap!SumFunctionOnSet, SumFunctionOnSet, Twap!FoldFunctionOnSet, FoldFunctionOnSet,
           Twap!MapThenFoldSet, MapThenFoldSet
  <1> QED
    BY <1>1, Zenon DEF Twap!Traded

(* Where the orders trade nothing more, what was traded stays. *)
LEMMA TradedStays ==
    ASSUME TwapTypes, Twap!IDs' = Twap!IDs, \A i \in Twap!IDs : made'[i].executed = made[i].executed
    PROVE  Twap!Traded' = Twap!Traded /\ Twap!Traded \in Int
  <1> DEFINE f == [i \in Twap!IDs |-> made[i].executed]
             g == [i \in Twap!IDs' |-> made'[i].executed]
  <1>1. f = g
    OBVIOUS
  <1>2. Twap!Traded = SumFunctionOnSet(f, Twap!IDs) /\ Twap!Traded' = SumFunctionOnSet(g, Twap!IDs')
    BY SameTraded
  <1> QED
    BY <1>1, <1>2, CommittedType

(* An order that trades. *)
LEMMA FillTraded ==
    ASSUME TwapInv, NEW i \in Twap!IDs, NEW qty \in 1 .. Twap!Left(i), Twap!Fill(i, qty)
    PROVE  /\ Twap!IDs' = Twap!IDs /\ qty \in Nat
           /\ \A j \in Twap!IDs : made'[j].executed = IF j = i THEN made[i].executed + qty ELSE made[j].executed
           /\ Twap!Traded' = Twap!Traded + qty
  <1>1. /\ TwapTypes /\ IsFiniteSet(Twap!IDs) /\ Twap!Traded \in Int
        /\ \A j \in Twap!IDs : made[j] \in MadeOrder
    BY CommittedType DEF TwapInv
  <1>2. qty \in Nat
    <2>1. Twap!Left(i) \in Int
      BY <1>1 DEF Twap!Left, MadeOrder
    <2> QED
      BY <2>1
  <1>3. made' = [made EXCEPT ![i].executed = @ + qty, ![i].open = qty < Twap!Left(i)]
    BY DEF Twap!Fill
  <1>4. /\ Twap!IDs' = Twap!IDs
        /\ \A j \in Twap!IDs : made'[j].executed = IF j = i THEN made[i].executed + qty ELSE made[j].executed
    <2>1. Twap!IDs' = Twap!IDs /\ \A j \in Twap!IDs \ {i} : made'[j] = made[j]
      BY <1>3 DEF Twap!IDs
    <2>2. made'[i] = [[made[i] EXCEPT !.executed = @ + qty] EXCEPT !.open = qty < Twap!Left(i)]
      BY <1>3 DEF Twap!IDs
    <2>3. made'[i].executed = made[i].executed + qty
      BY <1>1, <2>2 DEF MadeOrder
    <2> QED
      BY <2>1, <2>3
  <1>5. Twap!Traded' = Twap!Traded + qty
    <2> DEFINE f == [j \in Twap!IDs |-> made[j].executed]
               g == [j \in Twap!IDs' |-> made'[j].executed]
    <2>1. \A j \in Twap!IDs : f[j] \in Int /\ (j # i => g[j] = f[j])
      BY <1>1, <1>4 DEF MadeOrder
    <2>2. g[i] = f[i] + qty
      BY <1>4
    <2>3. Twap!Traded = SumFunctionOnSet(f, Twap!IDs) /\ Twap!Traded' = SumFunctionOnSet(g, Twap!IDs)
      BY <1>4, SameTraded
    <2> HIDE DEF f, g
    <2>4. qty \in Int
      BY <1>2
    <2> QED
      BY ONLY <1>1, <2>1, <2>2, <2>3, <2>4, i \in Twap!IDs, SumChange
  <1> QED
    BY <1>2, <1>4, <1>5

LEMMA FillCounts ==
    ASSUME TwapCounted, NEW i \in Twap!IDs, NEW qty \in 1 .. Twap!Left(i), Twap!Fill(i, qty)
    PROVE  FollowedOK' /\ CountedOK'
  <1>1. /\ TwapInv /\ TwapTypes /\ FollowedOK /\ CountedOK
        /\ Twap!Traded \in Int /\ \A j \in Twap!IDs : made[j] \in MadeOrder
    BY CommittedType DEF TwapCounted, TwapInv
  <1>2. /\ Twap!IDs' = Twap!IDs /\ qty \in Nat
        /\ \A j \in Twap!IDs : made'[j].executed = IF j = i THEN made[i].executed + qty ELSE made[j].executed
        /\ Twap!Traded' = Twap!Traded + qty
    BY <1>1, FillTraded
  <1>3. /\ followed' = followed /\ known' = known /\ traded' = traded /\ created' = created /\ updater' = updater
        /\ cancelled' = cancelled /\ listening' = listening /\ expired' = expired /\ lost' = lost
        /\ reports' = reports \/ reports' = reports \o Twap!Report(i, qty, made'[i].executed)
    BY DEF Twap!Fill, Twap!bookVars, Twap!updaterVars
  <1>4. \A j \in Twap!IDs : /\ made[j].executed \in Nat /\ made'[j].executed \in Nat
                            /\ made[j].executed <= made'[j].executed
    BY <1>1, <1>2 DEF MadeOrder
  <1>5. FollowedOK'
    BY <1>1, <1>2, <1>3, <1>4 DEF FollowedOK
  <1>6. CountedOK'
    <2>1. reports \in Seq(Event) /\ traded \in Nat /\ i \in Nat
      BY <1>1 DEF TwapTypes, Twap!IDs
    <2>2. Untold(reports) \in Nat
      BY <2>1, UntoldType
    <2>3. Untold(reports') = Untold(reports) \/ Untold(reports') = Untold(reports) + qty
      <3>1. Untold(reports \o Twap!Report(i, qty, made'[i].executed)) = Untold(reports) + qty
        BY <1>2, <1>4, <2>1, UntoldReport
      <3> QED
        BY <1>3, <3>1
    <2> QED
      BY <1>1, <1>2, <1>3, <2>1, <2>2, <2>3 DEF CountedOK
  <1> QED
    BY <1>5, <1>6

(* What the book learns of an order was traded. *)
LEMMA LearnFollows ==
    ASSUME NEW book, NEW i \in Twap!IDs \cap DOMAIN book, NEW executed \in Nat, executed <= made[i].executed,
           DOMAIN book \subseteq Twap!IDs, cancelled \in BOOLEAN,
           \A j \in DOMAIN book : book[j] \in Nat /\ book[j] <= made[j].executed,
           Twap!Learn(book, i, executed)
    PROVE  /\ DOMAIN followed' \subseteq Twap!IDs /\ cancelled' \in BOOLEAN
           /\ \A j \in DOMAIN followed' : followed'[j] \in Nat /\ followed'[j] <= made[j].executed
  <1>1. CASE executed = made[i].qty
    <2>1. followed' = [j \in DOMAIN book \cap (DOMAIN book \ {i}) |-> book[j]]
      BY <1>1 DEF Twap!Learn, Twap!Restrict
    <2>2. cancelled' \in BOOLEAN
      BY <1>1 DEF Twap!Learn, Twap!TargetFilled
    <2> QED
      BY <2>1, <2>2
  <1>2. CASE executed # made[i].qty
    BY <1>2 DEF Twap!Learn
  <1> QED
    BY <1>1, <1>2

LEMMA ReceiveCounts ==
    ASSUME TwapCounted, Twap!Receive
    PROVE  FollowedOK' /\ CountedOK'
  <1> DEFINE e == Head(reports)
  <1>1. /\ TwapTypes /\ HeardOK /\ FollowedOK /\ CountedOK /\ Twap!Traded \in Int
        /\ made' = made /\ known' = known /\ lost' = lost /\ updater' = updater /\ created' = created
        /\ listening' = listening /\ expired' = expired
    BY CommittedType DEF TwapCounted, TwapInv, Twap!Receive, Twap!updaterVars
  <1>2. reports \in Seq(Event) /\ reports # <<>> /\ reports' = Tail(reports)
    BY <1>1 DEF TwapTypes, Twap!Receive
  <1>3. /\ e \in Event /\ e.order \in Twap!IDs
        /\ e.kind = "update" => e.qty <= made[e.order].executed
    <2>1. 1 \in DOMAIN reports /\ e = reports[1]
      BY <1>2
    <2> QED
      BY <1>1, <1>2, <2>1, Elements DEF HeardOK
  <1>4. Untold(reports) = Tells(e) + Untold(reports') /\ Untold(reports') \in Nat /\ Tells(e) \in Nat
    <2>1. Tail(reports) \in Seq(Event)
      BY <1>2
    <2> QED
      BY <1>2, <1>3, <2>1, UntoldTail, UntoldType DEF Tells, Event
  <1>5. Twap!Traded' = Twap!Traded
    BY <1>1, TradedStays DEF Twap!IDs
  <1>6. traded \in Nat
    BY <1>1 DEF TwapTypes
  <1>7. CASE e.kind = "trade"
    <2>1. /\ traded' = traded \/ traded' = traded + Tells(e)
          /\ followed' = followed /\ cancelled' = cancelled
      BY <1>7 DEF Twap!Receive, Twap!HandleTrade, Tells
    <2> HIDE DEF e
    <2>2. CountedOK'
      BY <1>1, <1>4, <1>5, <1>6, <2>1 DEF CountedOK
    <2>3. FollowedOK'
      BY <1>1, <2>1 DEF FollowedOK, Twap!IDs
    <2> QED
      BY <2>2, <2>3
  <1>8. CASE e.kind # "trade"
    <2>1. e.kind = "update" /\ Twap!HandleUpdate(e) /\ traded' = traded /\ e.qty \in Nat
      BY <1>3, <1>8 DEF Twap!Receive, Twap!HandleUpdate, Event
    <2> HIDE DEF e
    <2>2. CountedOK'
      BY <1>1, <1>4, <1>5, <1>6, <2>1 DEF CountedOK
    <2>3. /\ DOMAIN followed' \subseteq Twap!IDs /\ cancelled' \in BOOLEAN
          /\ \A j \in DOMAIN followed' : followed'[j] \in Nat /\ followed'[j] <= made[j].executed
      <3>1. CASE e.order \in DOMAIN followed
        <4>1. Twap!Learn(followed, e.order, e.qty)
          BY <2>1, <3>1 DEF Twap!HandleUpdate
        <4> QED
          BY <1>1, <1>3, <2>1, <3>1, <4>1, LearnFollows DEF FollowedOK
      <3>2. CASE e.order \notin DOMAIN followed
        BY <1>1, <2>1, <3>2 DEF Twap!HandleUpdate, FollowedOK
      <3> QED
        BY <3>1, <3>2
    <2>4. FollowedOK'
      BY <1>1, <2>3 DEF FollowedOK, Twap!IDs
    <2> QED
      BY <2>2, <2>4
  <1> QED
    BY <1>7, <1>8

(* The steps that trade nothing and hear of nothing. *)
LEMMA QuietCounts ==
    ASSUME TwapCounted, TwapTypes', Twap!IDs' = Twap!IDs, \A i \in Twap!IDs : made'[i].executed = made[i].executed,
           traded' = traded, reports' = reports \/ reports' = <<>>
    PROVE  CountedOK'
  <1>1. TwapTypes /\ CountedOK
    BY DEF TwapCounted, TwapInv
  <1>2. Twap!Traded' = Twap!Traded /\ Twap!Traded \in Int
    BY <1>1, TradedStays
  <1>3. reports \in Seq(Event) /\ reports' \in Seq(Event) /\ traded \in Nat
    BY <1>1 DEF TwapTypes
  <1>4. Untold(reports) \in Nat
    BY <1>3, UntoldType
  <1>5. Untold(reports') = Untold(reports) \/ Untold(reports') = 0
    <2>1. CASE reports' = <<>>
      <3>1. DOMAIN reports' = {}
        BY <2>1
      <3> QED
        BY <3>1, SumEmpty DEF Untold
    <2> QED
      BY <2>1
  <1> QED
    BY <1>1, <1>2, <1>3, <1>4, <1>5 DEF CountedOK

LEMMA CancelCounts ==
    ASSUME TwapCounted, TwapTypes', Twap!CancelActiveOrders \/ \E inTime \in BOOLEAN : Twap!CleanUp(inTime)
    PROVE  FollowedOK' /\ CountedOK'
  <1>1. TwapTypes /\ OrdersOK /\ FollowedOK
    BY DEF TwapCounted, TwapInv
  <1>2. /\ made' = Twap!Closed \/ made' = made
        /\ followed' = <<>> \/ followed' = followed
        /\ reports' = reports \/ reports' = <<>>
        /\ known' = known /\ lost' = lost /\ traded' = traded /\ created' = created /\ cancelled' = cancelled
        /\ expired' = expired /\ listening' \in {listening, FALSE}
        /\ updater' \in {updater, "stopped"}
    BY Zenon DEF Twap!CancelActiveOrders, Twap!CleanUp, Twap!updaterVars, Twap!Goto
  <1>3. Twap!IDs' = Twap!IDs /\ \A i \in Twap!IDs : made'[i].executed = made[i].executed
    BY <1>1, <1>2, ClosedOrders DEF Twap!IDs
  <1>4. /\ DOMAIN followed' \subseteq Twap!IDs
        /\ \A i \in DOMAIN followed' : i \in DOMAIN followed /\ followed'[i] = followed[i]
    BY <1>1, <1>2 DEF FollowedOK
  <1>5. FollowedOK'
    BY <1>1, <1>2, <1>3, <1>4 DEF FollowedOK
  <1> QED
    BY <1>2, <1>3, <1>5, QuietCounts

LEMMA ControlCounts ==
    ASSUME TwapCounted, TwapTypes',
           Twap!Expire \/ Twap!WakeUp \/ Twap!ContextDone \/ Twap!LeaveAsIs \/ Twap!PrepareOrder
           \/ Twap!SubmitNothing \/ Twap!AddStored \/ Twap!Shutdown
    PROVE  FollowedOK' /\ CountedOK'
  <1>1. FollowedOK
    BY DEF TwapCounted
  <1>2. made' = made /\ reports' = reports /\ followed' = followed /\ lost' = lost /\ traded' = traded
    BY DEF Twap!Expire, Twap!WakeUp, Twap!ContextDone, Twap!LeaveAsIs, Twap!PrepareOrder, Twap!SubmitNothing,
           Twap!AddStored, Twap!Shutdown, Twap!exchangeVars, Twap!bookVars
  <1>3. \/ known' = known /\ created' = created /\ (updater' = updater \/ updater' # "store")
        \/ known' = known \cup {created} /\ created \in Twap!IDs /\ created' = 0 /\ updater' = "select"
    BY <1>1, Zenon
       DEF Twap!Expire, Twap!WakeUp, Twap!ContextDone, Twap!LeaveAsIs, Twap!PrepareOrder,
           Twap!SubmitNothing, Twap!AddStored, Twap!Shutdown, Twap!bookVars, Twap!updaterVars, Twap!Goto, FollowedOK
  <1>4. {cancelled', listening', expired'} \subseteq BOOLEAN
    BY <1>1 DEF Twap!Expire, Twap!WakeUp, Twap!ContextDone, Twap!LeaveAsIs, Twap!PrepareOrder,
           Twap!SubmitNothing, Twap!AddStored, Twap!Shutdown, Twap!TargetFilled, FollowedOK
  <1>5. FollowedOK'
    BY <1>1, <1>2, <1>3, <1>4 DEF FollowedOK, Twap!IDs
  <1> QED
    BY <1>2, <1>5, QuietCounts DEF Twap!IDs

LEMMA AddActiveCounts ==
    ASSUME TwapCounted, TwapTypes', Twap!AddActive
    PROVE  FollowedOK' /\ CountedOK'
  <1> DEFINE book == Twap!With(followed, created, 0)
             heard == IF created \in DOMAIN pending THEN pending[created] ELSE 0
  <1>1. /\ TwapTypes /\ HeardOK /\ FollowedOK
        /\ made' = made /\ reports' = reports /\ known' = known /\ lost' = lost /\ traded' = traded
        /\ created' = created /\ listening' = listening /\ expired' = expired
        /\ updater = "add" /\ created \in Twap!IDs
    BY DEF TwapCounted, TwapInv, TwapTypes, Twap!AddActive, Twap!exchangeVars
  <1>2. \A i \in Twap!IDs : made[i].executed \in Nat
    BY <1>1, CommittedType DEF MadeOrder
  <1>3. heard \in Nat /\ heard <= made[created].executed
    BY <1>1, <1>2 DEF HeardOK
  <1>4. /\ DOMAIN book = DOMAIN followed \cup {created}
        /\ \A i \in DOMAIN book : book[i] = IF i = created THEN 0 ELSE followed[i]
    BY DEF Twap!With
  <1>5. Twap!Learn(book, created, heard)
    BY DEF Twap!AddActive
  <1> HIDE DEF book, heard
  <1>6. /\ DOMAIN book \subseteq Twap!IDs /\ created \in DOMAIN book /\ cancelled \in BOOLEAN
        /\ \A i \in DOMAIN book : book[i] \in Nat /\ book[i] <= made[i].executed
    BY <1>1, <1>2, <1>4 DEF FollowedOK
  <1>7. /\ DOMAIN followed' \subseteq Twap!IDs /\ cancelled' \in BOOLEAN
        /\ \A i \in DOMAIN followed' : followed'[i] \in Nat /\ followed'[i] <= made[i].executed
    BY <1>1, <1>3, <1>5, <1>6, LearnFollows
  <1>8. FollowedOK'
    BY <1>1, <1>7 DEF FollowedOK, Twap!IDs
  <1> QED
    BY <1>1, <1>8, QuietCounts DEF Twap!IDs

(* A market order is traded at once, and told. *)
LEMMA SubmitOrderCounts ==
    ASSUME TwapCounted, NEW answered \in BOOLEAN, Twap!SubmitOrder(answered)
    PROVE  FollowedOK' /\ CountedOK'
  <1> DEFINE n == Len(made) + 1
             form == Twap!NewOrder
             market == form.type = "MARKET"
             done == IF market THEN form.qty ELSE 0
             o == [qty |-> form.qty, open |-> ~market, executed |-> done]
  <1>1. /\ TwapTypes /\ FollowedOK /\ CountedOK
        /\ followed' = followed /\ traded' = traded /\ known' = known
        /\ cancelled' = cancelled /\ listening' = listening /\ expired' = expired
        /\ ~Twap!TargetFilled /\ Twap!RestQuantity >= execution.minQuantity
        /\ \/ created' = Len(made') /\ updater' = "add" /\ lost' = lost
           \/ lost' = lost \cup {Len(made')} /\ updater' = "select" /\ created' = created
    BY DEF TwapCounted, TwapInv, Twap!SubmitOrder, Twap!bookVars, Twap!Goto
  <1>2. form.qty \in Nat
    BY <1>1, NewOrderWithinRest
  <1>3. /\ made' = Append(made, o)
        /\ reports' = IF market THEN reports \o Twap!Report(n, form.qty, form.qty) ELSE reports
    BY DEF Twap!SubmitOrder, Twap!Create
  <1> HIDE DEF form
  <1>4. o \in MadeOrder /\ o.executed = done /\ done \in Nat
    BY <1>2 DEF MadeOrder
  <1> HIDE DEF o, done
  <1>5. /\ Twap!IDs' = Twap!IDs \cup {n} /\ n \notin Twap!IDs /\ n \in Nat /\ Len(made') = n
        /\ made'[n] = o /\ \A i \in Twap!IDs : made'[i] = made[i]
    BY <1>1, <1>3, <1>4, CommittedGrows
  <1>6. reports \in Seq(Event) /\ traded \in Nat
    BY <1>1 DEF TwapTypes
  <1>7. /\ IsFiniteSet(Twap!IDs) /\ Twap!Traded \in Int
        /\ \A i \in Twap!IDs : made[i].executed \in Nat
    BY <1>1, CommittedType DEF MadeOrder
  <1> HIDE DEF n, market
  <1>8. Untold(reports') = Untold(reports) + done /\ Untold(reports) \in Nat
    <2>1. Untold(reports) \in Nat
      BY ONLY <1>6, UntoldType
    <2>2. CASE market
      <3>1. Untold(reports \o Twap!Report(n, form.qty, form.qty)) = Untold(reports) + form.qty
        BY ONLY <1>2, <1>5, <1>6, UntoldReport
      <3>2. done = form.qty /\ reports' = reports \o Twap!Report(n, form.qty, form.qty)
        BY ONLY <1>3, <2>2 DEF done
      <3> QED
        BY ONLY <2>1, <3>1, <3>2
    <2>3. CASE ~market
      BY ONLY <1>3, <2>1, <2>3 DEF done
    <2> QED
      BY <2>2, <2>3
  <1>9. Twap!Traded' = Twap!Traded + done
    <2> DEFINE f == [j \in Twap!IDs |-> made[j].executed]
               g == [j \in Twap!IDs' |-> made'[j].executed]
    <2>1. \A j \in Twap!IDs : f[j] \in Int /\ f[j] = g[j]
      BY <1>5, <1>7
    <2>2. g[n] = done /\ \A j \in Twap!IDs \cup {n} : g[j] \in Int
      BY <1>4, <1>5, <1>7
    <2>3. Twap!Traded = SumFunctionOnSet(f, Twap!IDs) /\ Twap!Traded' = SumFunctionOnSet(g, Twap!IDs \cup {n})
      BY <1>5, SameTraded
    <2> HIDE DEF f, g
    <2>4. SumFunctionOnSet(g, Twap!IDs \cup {n}) = g[n] + SumFunctionOnSet(g, Twap!IDs)
      BY <1>5, <1>7, <2>2, SumAdd
    <2>5. SumFunctionOnSet(f, Twap!IDs) = SumFunctionOnSet(g, Twap!IDs)
      BY <1>7, <2>1, SumAgree
    <2> QED
      BY <1>4, <1>7, <2>2, <2>3, <2>4, <2>5
  <1>10. CountedOK'
    BY <1>1, <1>4, <1>6, <1>7, <1>8, <1>9 DEF CountedOK
  <1>11. FollowedOK'
    BY <1>1, <1>5 DEF FollowedOK
  <1> QED
    BY <1>10, <1>11

LEMMA CountedInit ==
    ASSUME Executions \subseteq Twap!Execution, Twap!Init
    PROVE  TwapCounted
  <1>1. TwapInv
    BY InitHolds
  <1>2. FollowedOK
    <2>1. /\ DOMAIN followed = {} /\ known = {} /\ lost = {} /\ created = 0 /\ updater = "select"
          /\ cancelled = FALSE /\ listening = TRUE /\ expired = FALSE
      BY DEF Twap!Init
    <2> QED
      BY <2>1 DEF FollowedOK
  <1>3. CountedOK
    <2>1. Twap!IDs = {} /\ DOMAIN reports = {} /\ traded = 0
      BY DEF Twap!Init, Twap!IDs
    <2>2. Twap!Traded = 0 /\ Untold(reports) = 0
      BY <2>1, SameTraded, SumEmpty DEF Untold
    <2> QED
      BY <2>1, <2>2 DEF CountedOK
  <1> QED
    BY <1>1, <1>2, <1>3 DEF TwapCounted

LEMMA CountedNext ==
    ASSUME TwapCounted, [Twap!Next]_(Twap!vars)
    PROVE  TwapCounted'
  <1>1. TwapInv' /\ TwapTypes'
    BY NextKeeps DEF TwapCounted, TwapInv
  <1>2. FollowedOK' /\ CountedOK'
    <2>1. CASE \E i \in Twap!IDs : \E qty \in 1 .. Twap!Left(i) : Twap!Fill(i, qty)
      BY <2>1, FillCounts
    <2>2. CASE Twap!Receive
      BY <2>2, ReceiveCounts
    <2>3. CASE \E answered \in BOOLEAN : Twap!SubmitOrder(answered)
      BY <2>3, SubmitOrderCounts
    <2>4. CASE Twap!AddActive
      BY <1>1, <2>4, AddActiveCounts
    <2>5. CASE Twap!CancelActiveOrders \/ \E inTime \in BOOLEAN : Twap!CleanUp(inTime)
      BY <1>1, <2>5, CancelCounts
    <2>6. CASE Twap!Expire \/ Twap!WakeUp \/ Twap!ContextDone \/ Twap!LeaveAsIs \/ Twap!PrepareOrder
               \/ Twap!SubmitNothing \/ Twap!AddStored \/ Twap!Shutdown
      BY <1>1, <2>6, ControlCounts
    <2>7. CASE UNCHANGED Twap!vars
      <3>1. FollowedOK'
        BY <2>7 DEF TwapCounted, FollowedOK, Twap!IDs, Twap!vars, Twap!exchangeVars, Twap!bookVars, Twap!updaterVars
      <3>2. CountedOK'
        BY <1>1, <2>7, QuietCounts DEF Twap!IDs, Twap!vars, Twap!exchangeVars, Twap!bookVars
      <3> QED
        BY <3>1, <3>2
    <2> QED
      BY <2>1, <2>2, <2>3, <2>4, <2>5, <2>6, <2>7 DEF Twap!Next, Twap!Updater
  <1> QED
    BY <1>1, <1>2 DEF TwapCounted

LEMMA CountedTypes ==
    ASSUME TwapCounted
    PROVE  Twap!TypeOK
  <1>1. /\ TwapTypes /\ OrdersOK /\ HeardOK /\ FollowedOK /\ CountedOK
        /\ Twap!Traded \in Int /\ traded \in Nat /\ Untold(reports) \in Nat
    BY CommittedType, UntoldType DEF TwapCounted, TwapInv, TwapTypes
  <1>2. traded <= Twap!Traded
    BY <1>1 DEF CountedOK
  <1> QED
    BY <1>1, <1>2 DEF Twap!TypeOK, TwapTypes, OrdersOK, HeardOK, FollowedOK

(* An execution never follows or stores an order the exchange does not have, it
   believes of no order more than it traded, and its position counts no trade
   twice (pkg/bbgo/twap_order_executor.go). *)
LEMMA TwapTypeCorrect == Executions \subseteq Twap!Execution => (Twap!Spec => []Twap!TypeOK)
<1> SUFFICES ASSUME Executions \subseteq Twap!Execution
             PROVE  Twap!Spec => []Twap!TypeOK
  OBVIOUS
<1>1. Twap!Init => TwapCounted
  BY CountedInit
<1>2. TwapCounted /\ [Twap!Next]_(Twap!vars) => TwapCounted'
  BY CountedNext
<1>3. TwapCounted => Twap!TypeOK
  BY CountedTypes
<1> QED
  BY <1>1, <1>2, <1>3, PTL DEF Twap!Spec

-----------------------------------------------------------------------------
(***************************************************************************)
(* One side of a book                                                      *)
(*                                                                         *)
(* What Lemmas says of RedBlackTree is said of the tree of a book; the     *)
(* levels are those of the updates.                                        *)
(***************************************************************************)
(* RedBlackTree as Lemmas has it: the definitions are the same. *)
LEMMA SameBook ==
    /\ Book!EmptyTree = RB!EmptyTree
    /\ Book!Nil = RB!Nil
    /\ \A a : Book!Keys(a) = RB!Keys(a)
    /\ \A a, b, c : Book!SideOf(a, b, c) = RB!SideOf(a, b, c)
    /\ \A a, b : Book!Search(a, b) = RB!Search(a, b)
    /\ \A a : Book!Leftmost(a) = RB!Leftmost(a)
    /\ \A a : Book!Rightmost(a) = RB!Rightmost(a)
    /\ \A a, b : Book!Successor(a, b) = RB!Successor(a, b)
    /\ \A a, b, c : Book!Upsert(a, b, c) = RB!Upsert(a, b, c)
    /\ \A a, b : Book!Delete(a, b) = RB!Delete(a, b)
    /\ \A a, b : Book!CopyInorder(a, b) = RB!CopyInorder(a, b)
    /\ \A a, b : Book!CopyInorderReverse(a, b) = RB!CopyInorderReverse(a, b)
    /\ \A a : Book!IsBalanced(a) = RB!IsBalanced(a)
  <1>1. Book!Nil = RB!Nil
    BY Zenon DEF Book!Nil, RB!Nil
  <1>2. \A a : Book!Keys(a) = RB!Keys(a)
    BY Zenon DEF Book!Keys, RB!Keys
  <1>3. \A a : Book!Other(a) = RB!Other(a)
    BY Zenon DEF Book!Other, RB!Other
  <1>4. \A a, b : Book!IsRed(a, b) = RB!IsRed(a, b)
    BY Zenon DEF Book!IsRed, RB!IsRed, Book!Nil, RB!Nil
  <1>5. \A a, b, c : Book!SideOf(a, b, c) = RB!SideOf(a, b, c)
    BY Zenon DEF Book!SideOf, RB!SideOf
  <1>6. \A a, b, c : Book!Paint(a, b, c) = RB!Paint(a, b, c)
    BY Zenon DEF Book!Paint, RB!Paint, Book!Nil, RB!Nil
  <1>7. \A a, b, c : Book!SetParent(a, b, c) = RB!SetParent(a, b, c)
    BY Zenon DEF Book!SetParent, RB!SetParent, Book!Nil, RB!Nil
  <1>8. \A a, b, c, d : Book!SetChild(a, b, c, d) = RB!SetChild(a, b, c, d)
    BY Zenon DEF Book!SetChild, RB!SetChild
  <1>9. \A a, b, c, d : Book!Hang(a, b, c, d) = RB!Hang(a, b, c, d)
    BY <1>1, <1>8, <1>5, Zenon DEF Book!Hang, RB!Hang
  <1>10. \A a, b, c : Book!Rotate(a, b, c) = RB!Rotate(a, b, c)
    BY <1>3, <1>7, <1>8, <1>9 DEF Book!Rotate, RB!Rotate
  <1>11. \A a : Book!BlackRoot(a) = RB!BlackRoot(a)
    BY <1>6, Zenon DEF Book!BlackRoot, RB!BlackRoot
  <1>12. \A a : Book!InsertPass(a) = RB!InsertPass(a)
    BY <1>5, <1>3, <1>10, <1>4, <1>6, ZenonT(90)
       DEF Book!InsertPass, RB!InsertPass
  <1>13. \A a : Book!Size(a) = RB!Size(a)
    BY Zenon DEF Book!Size, RB!Size, Book!Cardinality, RB!Cardinality, Book!Keys, RB!Keys
  <1>14. \A a, b : Book!InsertFixup(a, b) = RB!InsertFixup(a, b)
    BY <1>13, <1>12, <1>11, Zenon DEF Book!InsertFixup, RB!InsertFixup
  <1>15. \A a, b : Book!NewNode(a, b) = RB!NewNode(a, b)
    BY Zenon DEF Book!NewNode, RB!NewNode, Book!Nil, RB!Nil
  <1>16. \A a, b, c, d : Book!Attach(a, b, c, d) = RB!Attach(a, b, c, d)
    <2> SUFFICES ASSUME NEW a, NEW b, NEW c, NEW d
                 PROVE  Book!Attach(a, b, c, d) = RB!Attach(a, b, c, d)
      OBVIOUS
    <2> DEFINE u == [a EXCEPT !.node = [k \in Book!Keys(a) \cup {b} |->
                                          IF k = b THEN Book!NewNode(c, d) ELSE a.node[k]]]
               w == [a EXCEPT !.node = [k \in RB!Keys(a) \cup {b} |->
                                          IF k = b THEN RB!NewNode(c, d) ELSE a.node[k]]]
    <2>1. u = w
      BY Zenon DEF Book!Keys, RB!Keys, Book!NewNode, RB!NewNode, Book!Nil, RB!Nil
    <2>2. Book!Attach(a, b, c, d) = IF d = Book!Nil THEN [u EXCEPT !.root = b]
                                    ELSE Book!SetChild(u, d, IF b < d THEN "left" ELSE "right", b)
      BY Zenon DEF Book!Attach
    <2>3. RB!Attach(a, b, c, d) = IF d = RB!Nil THEN [w EXCEPT !.root = b]
                                  ELSE RB!SetChild(w, d, IF b < d THEN "left" ELSE "right", b)
      BY Zenon DEF RB!Attach
    <2> HIDE DEF u, w
    <2> QED
      BY <1>1, <1>8, <2>1, <2>2, <2>3, Zenon
  <1>17. \A a, b : Book!Descend(a, b) = RB!Descend(a, b)
    BY Zenon DEF Book!Descend, RB!Descend, Book!Size, RB!Size, Book!Nil, RB!Nil, Book!Down, RB!Down,
                 Book!Cardinality, RB!Cardinality, Book!Keys, RB!Keys
  <1>18. \A a, b, c : Book!Insert(a, b, c) = RB!Insert(a, b, c)
    BY <1>14, <1>16, <1>17 DEF Book!Insert, RB!Insert
  <1>19. \A a, b : Book!Search(a, b) = RB!Search(a, b)
    BY Zenon DEF Book!Search, RB!Search, Book!Descend, RB!Descend, Book!Size, RB!Size, Book!Nil, RB!Nil,
                 Book!Down, RB!Down, Book!Cardinality, RB!Cardinality, Book!Keys, RB!Keys
  <1>20. \A a, b, c : Book!Upsert(a, b, c) = RB!Upsert(a, b, c)
    BY <1>19, <1>1, <1>18, Zenon DEF Book!Upsert, RB!Upsert
  <1>21. \A a : Book!Leftmost(a) = RB!Leftmost(a)
    BY Zenon DEF Book!Leftmost, RB!Leftmost, Book!OuterOf, RB!OuterOf, Book!Size, RB!Size, Book!Outwards,
                 RB!Outwards, Book!Cardinality, RB!Cardinality, Book!Keys, RB!Keys, Book!Nil, RB!Nil
  <1>22. \A a : Book!Rightmost(a) = RB!Rightmost(a)
    BY Zenon DEF Book!Rightmost, RB!Rightmost, Book!OuterOf, RB!OuterOf, Book!Size, RB!Size, Book!Outwards,
                 RB!Outwards, Book!Cardinality, RB!Cardinality, Book!Keys, RB!Keys, Book!Nil, RB!Nil
  <1>23. \A a, b : Book!Successor(a, b) = RB!Successor(a, b)
    BY Zenon DEF Book!Successor, RB!Successor, Book!Nil, RB!Nil, Book!OuterOf, RB!OuterOf, Book!Ascend,
                 RB!Ascend, Book!Size, RB!Size, Book!Outwards, RB!Outwards, Book!Upwards, RB!Upwards,
                 Book!Cardinality, RB!Cardinality, Book!Keys, RB!Keys
  <1>24. \A a, b, c : Book!BlackSibling(a, b, c) = RB!BlackSibling(a, b, c)
    BY <1>3, <1>4, <1>10, <1>6, Zenon DEF Book!BlackSibling, RB!BlackSibling
  <1>25. \A a, b, c : Book!RedFarChild(a, b, c) = RB!RedFarChild(a, b, c)
    BY <1>4, <1>3, <1>10, <1>6, Zenon DEF Book!RedFarChild, RB!RedFarChild
  <1>26. \A a : Book!DeletePass(a) = RB!DeletePass(a)
    <2> SUFFICES ASSUME NEW c
                 PROVE  Book!DeletePass(c) = RB!DeletePass(c)
      OBVIOUS
    <2> DEFINE t == c[1]
               x == c[2]
               p == c[3]
    <2> DEFINE bside == Book!SideOf(t, x, p)
               bt1 == Book!BlackSibling(t, p, bside)
               bs == bt1.node[p][Book!Other(bside)]
               bt2 == Book!RedFarChild(bt1, bs, bside)
               bfar == bt2.node[p][Book!Other(bside)]
               blower == Book!Paint(bt2, bfar, bt2.node[p].red)
               bupper == Book!Paint(blower, p, FALSE)
               bt3 == Book!Paint(bupper, bt2.node[bfar][Book!Other(bside)], FALSE)
               bt4 == Book!Rotate(bt3, p, bside)
    <2> DEFINE rside == RB!SideOf(t, x, p)
               rt1 == RB!BlackSibling(t, p, rside)
               rs == rt1.node[p][RB!Other(rside)]
               rt2 == RB!RedFarChild(rt1, rs, rside)
               rfar == rt2.node[p][RB!Other(rside)]
               rlower == RB!Paint(rt2, rfar, rt2.node[p].red)
               rupper == RB!Paint(rlower, p, FALSE)
               rt3 == RB!Paint(rupper, rt2.node[rfar][RB!Other(rside)], FALSE)
               rt4 == RB!Rotate(rt3, p, rside)
    <2>1. Book!DeletePass(c) =
             IF x = t.root \/ Book!IsRed(t, x) THEN c
             ELSE IF ~Book!IsRed(bt1, bt1.node[bs].left) /\ ~Book!IsRed(bt1, bt1.node[bs].right)
             THEN <<Book!Paint(bt1, bs, TRUE), p, bt1.node[p].parent>>
             ELSE <<bt4, bt4.root, Book!Nil>>
      BY Zenon DEF Book!DeletePass
    <2>2. RB!DeletePass(c) =
             IF x = t.root \/ RB!IsRed(t, x) THEN c
             ELSE IF ~RB!IsRed(rt1, rt1.node[rs].left) /\ ~RB!IsRed(rt1, rt1.node[rs].right)
             THEN <<RB!Paint(rt1, rs, TRUE), p, rt1.node[p].parent>>
             ELSE <<rt4, rt4.root, RB!Nil>>
      BY Zenon DEF RB!DeletePass
    <2>3. bside = rside
      <3> HIDE DEF bt1, rt1, bs, rs, bt2, rt2, bfar, rfar, blower, rlower, bupper, rupper, bt3, rt3, bt4, rt4
      <3> QED
        BY <1>5, Zenon
    <2>4. bt1 = rt1
      <3> HIDE DEF bside, rside, bs, rs, bt2, rt2, bfar, rfar, blower, rlower, bupper, rupper, bt3, rt3, bt4, rt4
      <3> QED
        BY <1>24, <2>3, Zenon
    <2>5. bs = rs
      <3> HIDE DEF bside, rside, bt1, rt1, bt2, rt2, bfar, rfar, blower, rlower, bupper, rupper, bt3, rt3, bt4, rt4
      <3> QED
        BY <1>3, <2>3, <2>4, Zenon
    <2>6. bt2 = rt2
      <3> HIDE DEF bside, rside, bt1, rt1, bs, rs, bfar, rfar, blower, rlower, bupper, rupper, bt3, rt3, bt4, rt4
      <3> QED
        BY <1>25, <2>4, <2>5, <2>3, Zenon
    <2>7. bfar = rfar
      <3> HIDE DEF bside, rside, bt1, rt1, bs, rs, bt2, rt2, blower, rlower, bupper, rupper, bt3, rt3, bt4, rt4
      <3> QED
        BY <1>3, <2>3, <2>6, Zenon
    <2>8. blower = rlower
      <3> HIDE DEF bside, rside, bt1, rt1, bs, rs, bt2, rt2, bfar, rfar, bupper, rupper, bt3, rt3, bt4, rt4
      <3> QED
        BY <1>6, <2>6, <2>7, Zenon
    <2>9. bupper = rupper
      <3> HIDE DEF bside, rside, bt1, rt1, bs, rs, bt2, rt2, bfar, rfar, blower, rlower, bt3, rt3, bt4, rt4
      <3> QED
        BY <1>6, <2>8, Zenon
    <2>10. bt3 = rt3
      <3> HIDE DEF bside, rside, bt1, rt1, bs, rs, bt2, rt2, bfar, rfar, blower, rlower, bupper, rupper, bt4, rt4
      <3> QED
        BY <1>6, <1>3, <2>9, <2>6, <2>7, <2>3, Zenon
    <2>11. bt4 = rt4
      <3> HIDE DEF bside, rside, bt1, rt1, bs, rs, bt2, rt2, bfar, rfar, blower, rlower, bupper, rupper, bt3, rt3
      <3> QED
        BY <1>10, <2>10, <2>3, Zenon
    <2> HIDE DEF bside, rside, bt1, rt1, bs, rs, bt2, rt2, bfar, rfar, blower, rlower, bupper, rupper,
                 bt3, rt3, bt4, rt4
    <2>12. Book!IsRed(t, x) <=> RB!IsRed(t, x)
      BY Zenon DEF Book!IsRed, RB!IsRed, Book!Nil, RB!Nil
    <2> HIDE DEF t, x, p
    <2>13. Book!IsRed(bt1, bt1.node[bs].left) <=> RB!IsRed(rt1, rt1.node[rs].left)
      BY <2>4, <2>5, Zenon DEF Book!IsRed, RB!IsRed, Book!Nil, RB!Nil
    <2>14. Book!IsRed(bt1, bt1.node[bs].right) <=> RB!IsRed(rt1, rt1.node[rs].right)
      BY <2>4, <2>5, Zenon DEF Book!IsRed, RB!IsRed, Book!Nil, RB!Nil
    <2>15. <<Book!Paint(bt1, bs, TRUE), p, bt1.node[p].parent>> = <<RB!Paint(rt1, rs, TRUE), p, rt1.node[p].parent>>
      BY <1>6, <2>4, <2>5, Zenon
    <2>16. <<bt4, bt4.root, Book!Nil>> = <<rt4, rt4.root, RB!Nil>>
      BY <1>1, <2>11, Zenon
    <2>17. CASE x = t.root \/ RB!IsRed(t, x)
      <3>1. Book!DeletePass(c) = c
        BY <2>1, <2>12, <2>17, Zenon
      <3>2. RB!DeletePass(c) = c
        BY <2>2, <2>17, Zenon
      <3> QED
        BY <3>1, <3>2, Zenon
    <2>18. CASE /\ ~(x = t.root \/ RB!IsRed(t, x))
                /\ ~RB!IsRed(rt1, rt1.node[rs].left) /\ ~RB!IsRed(rt1, rt1.node[rs].right)
      <3>1. Book!DeletePass(c) = <<Book!Paint(bt1, bs, TRUE), p, bt1.node[p].parent>>
        BY <2>1, <2>12, <2>13, <2>14, <2>18, Zenon
      <3>2. RB!DeletePass(c) = <<RB!Paint(rt1, rs, TRUE), p, rt1.node[p].parent>>
        BY <2>2, <2>18, Zenon
      <3> QED
        BY <2>15, <3>1, <3>2, Zenon
    <2>19. CASE /\ ~(x = t.root \/ RB!IsRed(t, x))
                /\ ~(~RB!IsRed(rt1, rt1.node[rs].left) /\ ~RB!IsRed(rt1, rt1.node[rs].right))
      <3>1. Book!DeletePass(c) = <<bt4, bt4.root, Book!Nil>>
        BY <2>1, <2>12, <2>13, <2>14, <2>19, Zenon
      <3>2. RB!DeletePass(c) = <<rt4, rt4.root, RB!Nil>>
        BY <2>2, <2>19, Zenon
      <3> QED
        BY <2>16, <3>1, <3>2, Zenon
    <2> QED
      BY <2>17, <2>18, <2>19
  <1>27. \A a, b, c : Book!DeleteFixup(a, b, c) = RB!DeleteFixup(a, b, c)
    BY <1>13, <1>26, <1>6, ZenonT(90) DEF Book!DeleteFixup, RB!DeleteFixup
  <1>28. \A a, b, c : Book!Renamed(a, b, c) = RB!Renamed(a, b, c)
    BY ZenonT(90) DEF Book!Renamed, RB!Renamed, Book!Keys, RB!Keys
  <1>29. \A a, b : Book!Delete(a, b) = RB!Delete(a, b)
    <2> TAKE a, b
    <2> DEFINE two == a.node[b].left # RB!Nil /\ a.node[b].right # RB!Nil
               by == IF two THEN Book!Successor(a, b) ELSE b
               ry == IF two THEN RB!Successor(a, b) ELSE b
               x == IF a.node[ry].left = RB!Nil THEN a.node[ry].right ELSE a.node[ry].left
               p == a.node[ry].parent
               bcut == Book!Hang(Book!SetParent(a, x, p), p, ry, x)
               rcut == RB!Hang(RB!SetParent(a, x, p), p, ry, x)
               bfixed == IF a.node[ry].red THEN bcut ELSE Book!DeleteFixup(bcut, x, p)
               rfixed == IF a.node[ry].red THEN rcut ELSE RB!DeleteFixup(rcut, x, p)
    <2>1. by = ry
      BY <1>23, Zenon
    <2>2. bcut = rcut
      <3> HIDE DEF two, by, ry, x, p, bfixed, rfixed
      <3> QED
        BY <1>7, <1>9, Zenon
    <2>3. bfixed = rfixed
      <3> HIDE DEF two, by, ry, x, p, bcut, rcut
      <3> QED
        BY <1>27, <2>2, Zenon
    <2>4. Book!Renamed(bfixed, b, ry) = RB!Renamed(rfixed, b, ry)
      <3> HIDE DEF two, by, ry, x, p, bcut, rcut, bfixed, rfixed
      <3> QED
        BY <1>28, <2>3, Zenon
    <2>5. Book!Delete(a, b) = IF Book!Search(a, b) = RB!Nil THEN a ELSE Book!Renamed(bfixed, b, by)
      BY <1>1, <2>1, Zenon DEF Book!Delete
    <2>6. RB!Delete(a, b) = IF RB!Search(a, b) = RB!Nil THEN a ELSE RB!Renamed(rfixed, b, ry)
      BY Zenon DEF RB!Delete
    <2> HIDE DEF two, by, ry, x, p, bcut, rcut, bfixed, rfixed
    <2> QED
      BY <1>19, <2>1, <2>4, <2>5, <2>6, Zenon
  <1>30. Book!EmptyTree = RB!EmptyTree
    BY Zenon DEF Book!EmptyTree, RB!EmptyTree, Book!Nil, RB!Nil
  <1>31. \A a, b : Book!Inorder(a, b) = RB!Inorder(a, b)
    BY Zenon DEF Book!Inorder, RB!Inorder, Book!Keys, RB!Keys, Book!Nil, RB!Nil, Book!Other, RB!Other
  <1>32. \A a, b : Book!CopyOf(a, b) = RB!CopyOf(a, b)
    BY <1>30, <1>18, Zenon DEF Book!CopyOf, RB!CopyOf
  <1>33. \A a, b : Book!CopyInorder(a, b) = RB!CopyInorder(a, b)
    <2> SUFFICES ASSUME NEW a, NEW b
                 PROVE  Book!CopyInorder(a, b) = RB!CopyInorder(a, b)
      OBVIOUS
    <2> DEFINE k == RB!Inorder(a, "left")
    <2>1. Book!Inorder(a, "left") = k
      BY <1>31, Zenon
    <2>2. Book!CopyInorder(a, b) = Book!CopyOf(a, IF b > 0 THEN SubSeq(k, 1, Book!Min({b, Len(k)})) ELSE k)
      BY <2>1, Zenon DEF Book!CopyInorder
    <2>3. RB!CopyInorder(a, b) = RB!CopyOf(a, IF b > 0 THEN SubSeq(k, 1, RB!Min({b, Len(k)})) ELSE k)
      BY Zenon DEF RB!CopyInorder
    <2>4. Book!Min({b, Len(k)}) = RB!Min({b, Len(k)})
      BY Zenon DEF Book!Min, RB!Min
    <2> DEFINE l == IF b > 0 THEN SubSeq(k, 1, Book!Min({b, Len(k)})) ELSE k
               m == IF b > 0 THEN SubSeq(k, 1, RB!Min({b, Len(k)})) ELSE k
    <2>5. l = m
      <3> HIDE DEF k
      <3> QED
        BY <2>4, Zenon
    <2>6. Book!CopyInorder(a, b) = Book!CopyOf(a, l) /\ RB!CopyInorder(a, b) = RB!CopyOf(a, m)
      BY <2>2, <2>3, Zenon
    <2> HIDE DEF l, m
    <2> QED
      BY <1>32, <2>5, <2>6, Zenon
  <1>34. \A a, b : Book!CopyInorderReverse(a, b) = RB!CopyInorderReverse(a, b)
    BY <1>31, <1>32, Zenon DEF Book!CopyInorderReverse, RB!CopyInorderReverse, Book!Min, RB!Min
  <1>35. \A a : Book!IsBalanced(a) = RB!IsBalanced(a)
    BY Zenon DEF Book!IsBalanced, RB!IsBalanced, Book!Keys, RB!Keys, Book!Nil, RB!Nil, Book!IsRed, RB!IsRed
  <1> QED
    BY <1>30, <1>1, <1>2, <1>5, <1>19, <1>21, <1>22, <1>23, <1>20, <1>29, <1>33, <1>34, <1>35, Zenon

(* A red-black tree of levels: the invariant of a book. *)
Booked(t) ==
    Sound(t) /\ Keys(t) \subseteq BookPrices /\ \A n \in Keys(t) : Volume(t, n) \in Volumes

LEMMA BookKeys == \A t : Book!Keys(t) = Keys(t)
  BY Zenon DEF Book!Keys, Keys

LEMMA BookNil == Book!Nil = 0 /\ RB!Nil = 0
  BY DEF Book!Nil, RB!Nil

LEMMA BookInit ==
    Book!Init => Booked(tree)
  <1>1. Book!Init => tree = RB!EmptyTree
    BY SameBook DEF Book!Init
  <1> QED
    BY <1>1, EmptyTreeIs DEF Booked

LEMMA BookSets ==
    ASSUME Book!Parameters, NEW t, Booked(t), NEW p \in BookPrices, NEW v \in Volumes
    PROVE  /\ Booked(Book!Upsert(t, p, v)) /\ Keys(Book!Upsert(t, p, v)) = Keys(t) \cup {p}
           /\ \A n \in Keys(t) \cup {p} : Volume(Book!Upsert(t, p, v), n) = IF n = p THEN v ELSE Volume(t, n)
  <1> DEFINE u == RB!Upsert(t, p, v)
  <1>1. Book!Upsert(t, p, v) = u
    BY SameBook
  <1>2. p \in Nat \ {RB!Nil} /\ v \in Int
    BY BookNil DEF Book!Parameters
  <1>3. Sound(u) /\ Keys(u) = Keys(t) \cup {p} /\ Volume(u, p) = v /\ SameOthers(t, u, p)
    BY <1>2, UpsertIs DEF Booked
  <1> HIDE DEF u
  <1>4. \A n \in Keys(t) \cup {p} : Volume(u, n) = IF n = p THEN v ELSE Volume(t, n)
    BY <1>3 DEF SameOthers
  <1>5. Booked(u)
    BY <1>3, <1>4 DEF Booked
  <1> QED
    BY <1>1, <1>3, <1>4, <1>5

LEMMA BookDeletes ==
    ASSUME Book!Parameters, NEW t, Booked(t), NEW p \in BookPrices
    PROVE  /\ Booked(Book!Delete(t, p)) /\ Keys(Book!Delete(t, p)) = Keys(t) \ {p}
           /\ \A n \in Keys(t) \ {p} : Volume(Book!Delete(t, p), n) = Volume(t, n)
  <1> DEFINE u == RB!Delete(t, p)
  <1>1. Book!Delete(t, p) = u
    BY SameBook
  <1>2. p \in Nat \ {RB!Nil}
    BY BookNil DEF Book!Parameters
  <1>3. Sound(u) /\ Keys(u) = Keys(t) \ {p} /\ SameOthers(t, u, p)
    BY <1>2, DeleteIs DEF Booked
  <1> HIDE DEF u
  <1>4. \A n \in Keys(t) \ {p} : Volume(u, n) = Volume(t, n)
    BY <1>3 DEF SameOthers
  <1>5. Booked(u)
    BY <1>3, <1>4 DEF Booked
  <1> QED
    BY <1>1, <1>3, <1>4, <1>5

LEMMA BookNext ==
    ASSUME Book!Parameters, Booked(tree), [Book!Next]_tree
    PROVE  Booked(tree')
  <1>1. ASSUME NEW p \in BookPrices, Book!DeleteLevel(p)
        PROVE  Booked(tree')
    BY <1>1, BookDeletes DEF Book!DeleteLevel
  <1>2. ASSUME NEW p \in BookPrices, NEW v \in Volumes, Book!SetLevel(p, v)
        PROVE  Booked(tree')
    BY <1>2, BookSets DEF Book!SetLevel
  <1> QED
    BY <1>1, <1>2 DEF Book!Next

(* A side of a book is always a red-black tree of its levels, for any prices
   and volumes. *)
LevelsSound == Booked(tree)

LEMMA BookInvariant == Book!Parameters => (Book!Spec => []LevelsSound)
<1> SUFFICES ASSUME Book!Parameters
             PROVE  Book!Spec => []LevelsSound
  OBVIOUS
<1>1. Book!Init => LevelsSound
  BY BookInit DEF LevelsSound
<1>2. LevelsSound /\ [Book!Next]_tree => LevelsSound'
  <2> SUFFICES ASSUME LevelsSound, [Book!Next]_tree
               PROVE  Booked(tree')
    BY DEF LevelsSound
  <2> QED
    BY BookNext DEF LevelsSound
<1> QED
  BY <1>1, <1>2, PTL DEF Book!Spec

LEMMA BookTypes ==
    ASSUME Book!Parameters, Booked(tree)
    PROVE  Book!TypeOK
  <1> DEFINE N == Keys(tree)
  <1>1. PICK sub, b : IsRedBlack(tree, N, sub, b)
    BY DEF Booked, Sound
  <1>2. Tree(tree, N, sub) /\ Heap(tree)
    BY <1>1 DEF IsRedBlack, Tree
  <1>3. Book!Keys(tree) = N /\ Book!Nil = 0 /\ RB!Nil = 0
    BY BookKeys, BookNil
  <1>4. N \subseteq BookPrices /\ \A n \in N : tree.node[n].value \in Volumes
    BY DEF Booked, Volume
  <1>5. tree.node \in [N -> Book!Node]
    <2>1. tree.node \in [N -> Nodes(N)]
      BY <1>2 DEF Heap, Keys
    <2>2. \A n \in N : tree.node[n] \in Book!Node
      <3> SUFFICES ASSUME NEW n \in N
                   PROVE  tree.node[n] \in Book!Node
        OBVIOUS
      <3>1. tree.node[n] \in Nodes(N) /\ tree.node[n].value \in Volumes
        BY <1>4, <2>1
      <3> HIDE DEF N
      <3> QED
        BY <1>3, <1>4, <3>1 DEF Nodes, Book!Node
    <2> QED
      BY <2>1, <2>2
  <1>6. /\ tree.root \in N \cup {0}
        /\ tree.root # 0 => tree.node[tree.root].parent = 0
    BY <1>2, <1>3 DEF Tree, Parent
  <1>7. ASSUME NEW n \in N \ {tree.root}
        PROVE  LET p == tree.node[n].parent IN p \in N /\ tree.node[p][Book!SideOf(tree, n, p)] = n
    <2>1. PICK s \in Sides : Parent(tree, n) \in N /\ Child(tree, Parent(tree, n), s) = n
      BY <1>2 DEF Tree
    <2> QED
      BY <2>1 DEF Parent, Child, Sides, Book!SideOf
  <1>8. \A n \in N, side \in {"left", "right"} :
           LET c == tree.node[n][side] IN c # 0 => c \in N /\ tree.node[c].parent = n
    BY <1>2, <1>3 DEF Tree, Parent, Child, Sides
  <1> HIDE DEF N
  <1> QED
    BY <1>3, <1>4, <1>5, <1>6, <1>7, <1>8 DEF Book!TypeOK

LEMMA BookCopies ==
    ASSUME Book!Parameters, Booked(tree)
    PROVE  Book!CopiesHoldBest
  <1> DEFINE N == Keys(tree)
  <1>1. SUFFICES ASSUME NEW limit \in Depths
        PROVE  LET asks == Book!CopyInorder(tree, limit)
                   bids == Book!CopyInorderReverse(tree, limit)
                   size == Book!Min({limit, Cardinality(Book!Keys(tree))})
               IN  /\ Book!IsBalanced(asks) /\ Book!IsBalanced(bids)
                   /\ Cardinality(Book!Keys(asks)) = size /\ Cardinality(Book!Keys(bids)) = size
                   /\ \A n \in Book!Keys(asks), k \in Book!Keys(tree) \ Book!Keys(asks) : n < k
                   /\ \A n \in Book!Keys(bids), k \in Book!Keys(tree) \ Book!Keys(bids) : n > k
    BY Zenon DEF Book!CopiesHoldBest, Book!Cardinality, Cardinality
  <1> DEFINE asks == Book!CopyInorder(tree, limit)
             bids == Book!CopyInorderReverse(tree, limit)
             size == RB!Min({limit, Cardinality(N)})
  <1>2. limit \in Nat \ {0}
    BY DEF Book!Parameters
  <1>3. Sound(tree) /\ N \in SUBSET Nat
    BY SoundHeap DEF Booked
  <1>4. Copied(tree, asks, "left", limit) /\ Copied(tree, bids, "right", limit)
    BY <1>2, <1>3, SameBook, CopiesAre
  <1>5. Book!Min({limit, Cardinality(N)}) = size
    BY Zenon DEF Book!Min, RB!Min
  <1> HIDE DEF asks, bids, size, N
  <1>6. Sound(asks) /\ BestLevels(N, "left", Keys(asks), size)
    BY <1>4 DEF Copied, size, N
  <1>7. Sound(bids) /\ BestLevels(N, "right", Keys(bids), size)
    BY <1>4 DEF Copied, size, N
  <1>8. Book!IsBalanced(asks) /\ Book!IsBalanced(bids)
    BY <1>6, <1>7, IsBalancedIs, SameBook
  <1>9. /\ Cardinality(Keys(asks)) = size /\ Cardinality(Keys(bids)) = size
        /\ \A n \in Keys(asks), k \in N \ Keys(asks) : n < k
        /\ \A n \in Keys(bids), k \in N \ Keys(bids) : n > k
    <2>1. /\ Keys(asks) \subseteq N /\ Cardinality(Keys(asks)) = size
          /\ \A n \in Keys(asks), k \in N \ Keys(asks) : On("left", n, k)
      BY <1>6 DEF BestLevels
    <2>2. /\ Keys(bids) \subseteq N /\ Cardinality(Keys(bids)) = size
          /\ \A n \in Keys(bids), k \in N \ Keys(bids) : On("right", n, k)
      BY <1>7 DEF BestLevels
    <2> QED
      BY <1>3, <2>1, <2>2 DEF On
  <1> QED
    BY <1>5, <1>8, <1>9, BookKeys DEF N, asks, bids

LEMMA BookOrder ==
    ASSUME Book!Parameters, Booked(tree)
    PROVE  Book!SearchTree
  <1> DEFINE N == Keys(tree)
             next(n) == {k \in N : k > n}
  <1>1. Sound(tree)
    BY DEF Booked
  <1>2. \A S : Book!Min(S) = RB!Min(S) /\ Book!Max(S) = RB!Max(S)
    BY Zenon DEF Book!Min, RB!Min, Book!Max, RB!Max
  <1>3. InOrder(tree)
    BY <1>1, OrderedIs
  <1>4. N # {} => Book!Leftmost(tree) = Book!Min(N) /\ Book!Rightmost(tree) = Book!Max(N)
    BY <1>2, <1>3, SameBook DEF InOrder
  <1>5. \A n \in N : Book!Successor(tree, n) = IF next(n) = {} THEN Book!Nil ELSE Book!Min(next(n))
    BY <1>2, <1>3, SameBook DEF InOrder
  <1>6. \A p \in BookPrices : Book!Search(tree, p) = IF p \in N THEN p ELSE Book!Nil
    <2> SUFFICES ASSUME NEW p \in BookPrices
                 PROVE  RB!Search(tree, p) = IF p \in N THEN p ELSE RB!Nil
      BY SameBook
    <2>1. p \in Nat \ {RB!Nil}
      BY BookNil DEF Book!Parameters
    <2> QED
      BY <1>1, <2>1, SearchIs DEF Searched
  <1>7. Book!IsBalanced(tree)
    BY <1>1, IsBalancedIs, SameBook
  <1>8. Book!Keys(tree) = N
    BY BookKeys
  <1> HIDE DEF N
  <1> QED
    BY <1>4, <1>5, <1>6, <1>7, <1>8, BookCopies, Zenon DEF Book!SearchTree

-----------------------------------------------------------------------------
(* What PriceLevels calls the levels of a book. *)
BookLevels(t) == [k \in Keys(t) |-> t.node[k].value]

LEMMA LevelsInit == Book!Init => Book!Levels!Init
  <1> SUFFICES ASSUME Book!Init
               PROVE  Book!Levels!Init
    OBVIOUS
  <1>1. tree = RB!EmptyTree
    BY SameBook DEF Book!Init
  <1>2. Keys(tree) = {}
    BY <1>1, EmptyTreeIs
  <1>3. Book!Keys(tree) = {}
    BY <1>2, BookKeys
  <1> QED
    BY <1>3 DEF Book!Levels!Init

LEMMA LevelsNext ==
    ASSUME Book!Parameters, Booked(tree), [Book!Next]_tree
    PROVE  [Book!Levels!Next]_(BookLevels(tree))
  <1> DEFINE N == Keys(tree)
             l == BookLevels(tree)
             m == BookLevels(tree')
  <1>1. ASSUME NEW p \in BookPrices, Book!DeleteLevel(p)
        PROVE  m = [q \in DOMAIN l \ {p} |-> l[q]]
    <2>1. Keys(tree') = N \ {p} /\ \A n \in N \ {p} : Volume(tree', n) = Volume(tree, n)
      BY <1>1, BookDeletes DEF Book!DeleteLevel
    <2> HIDE DEF N
    <2> QED
      BY <2>1 DEF BookLevels, Volume, N
  <1>2. ASSUME NEW p \in BookPrices, NEW v \in Volumes, Book!SetLevel(p, v)
        PROVE  m = [q \in DOMAIN l \cup {p} |-> IF q = p THEN v ELSE l[q]]
    <2>1. /\ Keys(tree') = N \cup {p}
          /\ \A n \in N \cup {p} : Volume(tree', n) = IF n = p THEN v ELSE Volume(tree, n)
      BY <1>2, BookSets DEF Book!SetLevel
    <2> HIDE DEF N
    <2> QED
      BY <2>1 DEF BookLevels, Volume, N
  <1> QED
    BY <1>1, <1>2 DEF Book!Next, Book!Levels!Next, Book!Levels!Set, Book!Levels!Delete, BookLevels, Book!Keys, Keys

LEMMA BookRefines == Book!Parameters => (Book!Spec => Book!ImplementsLevels)
<1> SUFFICES ASSUME Book!Parameters
             PROVE  Book!Spec => Book!ImplementsLevels
  OBVIOUS
<1>1. LevelsSound /\ [Book!Next]_tree => [Book!Levels!Next]_(BookLevels(tree))
  BY LevelsNext DEF LevelsSound
<1> QED
  BY <1>1, LevelsInit, BookInvariant, PTL DEF Book!Spec, Book!ImplementsLevels, Book!Levels!Spec, BookLevels,
                                           Book!Keys, Keys

-----------------------------------------------------------------------------
(***************************************************************************)
(* What holds of a part holds of the parts together                        *)
(***************************************************************************)
(* Dca2 as Dca2Proofs has it: the definitions are the same. *)
Strategy == INSTANCE Dca2Proofs WITH kline <- target

LEMMA SameStrategy ==
    /\ Dca!Parameters => Strategy!Parameters
    /\ Dca!Init => Strategy!Init
    /\ [Dca!Next]_(Dca!vars) => [Strategy!Next]_(Strategy!vars)
  <1>1. Dca!Parameters => Strategy!Parameters
    BY Zenon DEF Dca!Parameters, Strategy!Parameters
  <1>2. Dca!Init => Strategy!Init
    BY Zenon DEF Dca!Init, Strategy!Init
  <1>3. \A i : Dca!Fill(i) <=> Strategy!Fill(i)
    BY ZenonT(40) DEF Dca!Fill, Strategy!Fill, Dca!loop, Strategy!loop, Dca!work, Strategy!work, Dca!stateVars,
                      Strategy!stateVars, Dca!bookVars, Strategy!bookVars, Dca!statsVars, Strategy!statsVars,
                      Dca!bounds, Strategy!bounds, Dca!IDs, Strategy!IDs, Dca!IsOpen, Strategy!IsOpen, Dca!Of,
                      Strategy!Of, Dca!OpenOf, Strategy!OpenOf, Dca!Traded, Strategy!Traded, Dca!Best,
                      Strategy!Best
  <1>4. \A i : Dca!CancelOne(i) <=> Strategy!CancelOne(i)
    BY ZenonT(40) DEF Dca!CancelOne, Strategy!CancelOne, Dca!loop, Strategy!loop, Dca!work, Strategy!work,
                      Dca!stateVars, Strategy!stateVars, Dca!bookVars, Strategy!bookVars, Dca!statsVars,
                      Strategy!statsVars, Dca!bounds, Strategy!bounds, Dca!IsOpen, Strategy!IsOpen
  <1>5. \A i : Dca!FoundFilled(i) <=> Strategy!FoundFilled(i)
    BY ZenonT(40) DEF Dca!FoundFilled, Strategy!FoundFilled, Dca!exchangeVars, Strategy!exchangeVars, Dca!loop,
                      Strategy!loop, Dca!work, Strategy!work, Dca!statsVars, Strategy!statsVars, Dca!bounds,
                      Strategy!bounds, Dca!Emit, Strategy!Emit, Dca!FilledState, Strategy!FilledState
  <1>6. Dca!HandleFill <=> Strategy!HandleFill
    BY ZenonT(40) DEF Dca!HandleFill, Strategy!HandleFill, Dca!loop, Strategy!loop, Dca!work, Strategy!work,
                      Dca!bounds, Strategy!bounds, Dca!Emit, Strategy!Emit, Dca!Change, Strategy!Change,
                      Dca!Wait, Strategy!Wait, Dca!ProcessTrade, Strategy!ProcessTrade, Dca!FilledState,
                      Strategy!FilledState
  <1>7. Dca!OnKLine <=> Strategy!OnKLine
    BY ZenonT(40) DEF Dca!OnKLine, Strategy!OnKLine, Dca!exchangeVars, Strategy!exchangeVars, Dca!loop,
                      Strategy!loop, Dca!work, Strategy!work, Dca!stateVars, Strategy!stateVars, Dca!bookVars,
                      Strategy!bookVars, Dca!statsVars, Strategy!statsVars, Dca!bounds, Strategy!bounds,
                      Dca!NoneStale, Strategy!NoneStale
  <1>8. Dca!KLineEmits <=> Strategy!KLineEmits
    BY ZenonT(40) DEF Dca!KLineEmits, Strategy!KLineEmits, Dca!exchangeVars, Strategy!exchangeVars, Dca!loop,
                      Strategy!loop, Dca!work, Strategy!work, Dca!bookVars, Strategy!bookVars, Dca!statsVars,
                      Strategy!statsVars, Dca!AwaitsFill, Strategy!AwaitsFill, Dca!Emit, Strategy!Emit
  <1>9. Dca!Ticks <=> Strategy!Ticks
    BY ZenonT(40) DEF Dca!Ticks, Strategy!Ticks, Dca!exchangeVars, Strategy!exchangeVars, Dca!work,
                      Strategy!work, Dca!bookVars, Strategy!bookVars, Dca!statsVars, Strategy!statsVars,
                      Dca!bounds, Strategy!bounds, Dca!Triggered, Strategy!Triggered
  <1>10. Dca!Tick <=> Strategy!Tick
    BY ZenonT(40) DEF Dca!Tick, Strategy!Tick, Dca!StateTransition, Strategy!StateTransition, Dca!exchangeVars,
                      Strategy!exchangeVars, Dca!work, Strategy!work, Dca!bookVars, Strategy!bookVars,
                      Dca!statsVars, Strategy!statsVars, Dca!bounds, Strategy!bounds, Dca!Triggered,
                      Strategy!Triggered
  <1>11. Dca!Send <=> Strategy!Send
    BY ZenonT(40) DEF Dca!Send, Strategy!Send, Dca!exchangeVars, Strategy!exchangeVars, Dca!work, Strategy!work,
                      Dca!bookVars, Strategy!bookVars, Dca!statsVars, Strategy!statsVars, Dca!bounds,
                      Strategy!bounds
  <1>12. Dca!TooEarly <=> Strategy!TooEarly
    BY ZenonT(40) DEF Dca!TooEarly, Strategy!TooEarly, Dca!exchangeVars, Strategy!exchangeVars, Dca!loop,
                      Strategy!loop, Dca!work, Strategy!work, Dca!bookVars, Strategy!bookVars, Dca!statsVars,
                      Strategy!statsVars, Dca!bounds, Strategy!bounds, Dca!Receive, Strategy!Receive
  <1>13. Dca!OpenRound <=> Strategy!OpenRound
    BY ZenonT(40) DEF Dca!OpenRound, Strategy!OpenRound, Dca!exchangeVars, Strategy!exchangeVars, Dca!loop,
                      Strategy!loop, Dca!work, Strategy!work, Dca!bounds, Strategy!bounds, Dca!Receive,
                      Strategy!Receive
  <1>14. Dca!BeginPlacing <=> Strategy!BeginPlacing
    BY ZenonT(40) DEF Dca!BeginPlacing, Strategy!BeginPlacing, Dca!exchangeVars, Strategy!exchangeVars,
                      Dca!bookVars, Strategy!bookVars, Dca!statsVars, Strategy!statsVars, Dca!bounds,
                      Strategy!bounds, Dca!Receive, Strategy!Receive
  <1>15. Dca!Place <=> Strategy!Place
    BY ZenonT(40) DEF Dca!Place, Strategy!Place, Dca!loop, Strategy!loop, Dca!statsVars, Strategy!statsVars,
                      Dca!bounds, Strategy!bounds, Dca!New, Strategy!New, Dca!Known, Strategy!Known
  <1>16. Dca!PlaceFails <=> Strategy!PlaceFails
    BY ZenonT(40) DEF Dca!PlaceFails, Strategy!PlaceFails, Dca!exchangeVars, Strategy!exchangeVars, Dca!loop,
                      Strategy!loop, Dca!bookVars, Strategy!bookVars, Dca!statsVars, Strategy!statsVars, Dca!CanFail,
                      Strategy!CanFail, Dca!NoneStale, Strategy!NoneStale
  <1>17. Dca!Placed <=> Strategy!Placed
    BY ZenonT(40) DEF Dca!Placed, Strategy!Placed, Dca!exchangeVars, Strategy!exchangeVars, Dca!work,
                      Strategy!work, Dca!statsVars, Strategy!statsVars, Dca!bounds, Strategy!bounds, Dca!Change,
                      Strategy!Change, Dca!Process, Strategy!Process, Dca!ReadyUnlessFailed,
                      Strategy!ReadyUnlessFailed, Dca!SumFunctionOnSet, Strategy!SumFunctionOnSet, Dca!Restrict,
                      Strategy!Restrict, Dca!FoldFunctionOnSet, Strategy!FoldFunctionOnSet, Dca!MapThenFoldSet,
                      Strategy!MapThenFoldSet
  <1>18. Dca!OrderFilled <=> Strategy!OrderFilled
    BY ZenonT(40) DEF Dca!OrderFilled, Strategy!OrderFilled, Dca!exchangeVars, Strategy!exchangeVars, Dca!loop,
                      Strategy!loop, Dca!work, Strategy!work, Dca!bookVars, Strategy!bookVars, Dca!statsVars,
                      Strategy!statsVars, Dca!bounds, Strategy!bounds, Dca!Receive, Strategy!Receive
  <1>19. Dca!TargetReached <=> Strategy!TargetReached
    BY ZenonT(40) DEF Dca!TargetReached, Strategy!TargetReached, Dca!exchangeVars, Strategy!exchangeVars,
                      Dca!work, Strategy!work, Dca!bookVars, Strategy!bookVars, Dca!statsVars,
                      Strategy!statsVars, Dca!bounds, Strategy!bounds, Dca!Receive, Strategy!Receive
  <1>20. Dca!BeginCancelling <=> Strategy!BeginCancelling
    BY ZenonT(40) DEF Dca!BeginCancelling, Strategy!BeginCancelling, Dca!exchangeVars, Strategy!exchangeVars,
                      Dca!work, Strategy!work, Dca!bookVars, Strategy!bookVars, Dca!statsVars,
                      Strategy!statsVars, Dca!bounds, Strategy!bounds, Dca!Receive, Strategy!Receive
  <1>21. Dca!Cancelled <=> Strategy!Cancelled
    BY ZenonT(40) DEF Dca!Cancelled, Strategy!Cancelled, Dca!exchangeVars, Strategy!exchangeVars, Dca!work,
                      Strategy!work, Dca!statsVars, Strategy!statsVars, Dca!bounds, Strategy!bounds,
                      Dca!AllClosed, Strategy!AllClosed
  <1>22. Dca!PlaceTakeProfit <=> Strategy!PlaceTakeProfit
    BY ZenonT(40) DEF Dca!PlaceTakeProfit, Strategy!PlaceTakeProfit, Dca!statsVars, Strategy!statsVars, Dca!New,
                      Strategy!New, Dca!Change, Strategy!Change, Dca!Absolute, Strategy!Absolute,
                      Dca!Known, Strategy!Known, Dca!Process, Strategy!Process, Dca!SumFunctionOnSet,
                      Strategy!SumFunctionOnSet, Dca!Restrict, Strategy!Restrict, Dca!FoldFunctionOnSet,
                      Strategy!FoldFunctionOnSet, Dca!MapThenFoldSet, Strategy!MapThenFoldSet
  <1>23. Dca!PlaceTakeProfitFails <=> Strategy!PlaceTakeProfitFails
    BY ZenonT(40) DEF Dca!PlaceTakeProfitFails, Strategy!PlaceTakeProfitFails, Dca!exchangeVars,
                      Strategy!exchangeVars, Dca!statsVars, Strategy!statsVars, Dca!Change, Strategy!Change,
                      Dca!CanFail, Strategy!CanFail, Dca!NoneStale, Strategy!NoneStale, Dca!Process,
                      Strategy!Process, Dca!SumFunctionOnSet, Strategy!SumFunctionOnSet,
                      Dca!Restrict, Strategy!Restrict, Dca!FoldFunctionOnSet, Strategy!FoldFunctionOnSet,
                      Dca!MapThenFoldSet, Strategy!MapThenFoldSet
  <1>24. Dca!CloseRound <=> Strategy!CloseRound
    BY ZenonT(40) DEF Dca!CloseRound, Strategy!CloseRound, Dca!exchangeVars, Strategy!exchangeVars, Dca!work,
                      Strategy!work, Dca!bookVars, Strategy!bookVars, Dca!IDs, Strategy!IDs, Dca!IsOpen,
                      Strategy!IsOpen, Dca!CanFail, Strategy!CanFail, Dca!NoneStale, Strategy!NoneStale,
                      Dca!Receive, Strategy!Receive,
                      Dca!Value, Strategy!Value, Dca!Sum, Strategy!Sum, Dca!Closed, Strategy!Closed,
                      Dca!FromNext, Strategy!FromNext, Dca!Calculated, Strategy!Calculated, Dca!CalculatedUpTo,
                      Strategy!CalculatedUpTo, Dca!CalculateProfit, Strategy!CalculateProfit, Dca!Max,
                      Strategy!Max, Dca!SumFunctionOnSet, Strategy!SumFunctionOnSet, Dca!FoldFunctionOnSet,
                      Strategy!FoldFunctionOnSet, Dca!MapThenFoldSet, Strategy!MapThenFoldSet
  <1>25. Dca!QueryOpenOrders <=> Strategy!QueryOpenOrders
    BY ZenonT(40) DEF Dca!QueryOpenOrders, Strategy!QueryOpenOrders, Dca!exchangeVars, Strategy!exchangeVars,
                      Dca!bookVars, Strategy!bookVars, Dca!statsVars, Strategy!statsVars, Dca!bounds,
                      Strategy!bounds, Dca!IDs, Strategy!IDs, Dca!IsOpen, Strategy!IsOpen
  <1>26. Dca!Crash <=> Strategy!Crash
    BY ZenonT(40) DEF Dca!Crash, Strategy!Crash, Dca!NoneStale, Strategy!NoneStale
  <1>27. Dca!Restart <=> Strategy!Restart
    BY ZenonT(40) DEF Dca!Restart, Strategy!Restart, Dca!exchangeVars, Strategy!exchangeVars, Dca!work,
                      Strategy!work, Dca!bookVars, Strategy!bookVars, Dca!statsVars, Strategy!statsVars,
                      Dca!bounds, Strategy!bounds
  <1>28. Dca!RecoverState = Strategy!RecoverState
    BY ZenonT(40) DEF Dca!RecoverState, Strategy!RecoverState, Dca!IDs, Strategy!IDs, Dca!IsOpen,
                      Strategy!IsOpen, Dca!Of, Strategy!Of, Dca!OpenedIDs, Strategy!OpenedIDs, Dca!CurrentRound,
                      Strategy!CurrentRound, Dca!Count, Strategy!Count, Dca!StateOfBuys, Strategy!StateOfBuys,
                      Dca!Cardinality, Strategy!Cardinality
  <1>29. Dca!RecoverPosition = Strategy!RecoverPosition
    BY ZenonT(40) DEF Dca!RecoverPosition, Strategy!RecoverPosition, Dca!IDs, Strategy!IDs, Dca!IsOpen,
                      Strategy!IsOpen, Dca!Of, Strategy!Of, Dca!Change, Strategy!Change, Dca!CurrentRound,
                      Strategy!CurrentRound, Dca!SumFunctionOnSet, Strategy!SumFunctionOnSet,
                      Dca!FoldFunctionOnSet, Strategy!FoldFunctionOnSet, Dca!MapThenFoldSet,
                      Strategy!MapThenFoldSet
  <1>30. \A s : Dca!Readopt(s) <=> Strategy!Readopt(s)
    BY ZenonT(40) DEF Dca!Readopt, Strategy!Readopt, Dca!Emit, Strategy!Emit, Dca!FilledState,
                      Strategy!FilledState, Dca!OpenedIDs, Strategy!OpenedIDs, Dca!PutAside, Strategy!PutAside
  <1>31. Dca!CalculateProfit <=> Strategy!CalculateProfit
    BY ZenonT(40) DEF Dca!CalculateProfit, Strategy!CalculateProfit, Dca!IDs, Strategy!IDs, Dca!IsOpen,
                      Strategy!IsOpen, Dca!Value, Strategy!Value, Dca!Sum, Strategy!Sum, Dca!Closed,
                      Strategy!Closed, Dca!FromNext, Strategy!FromNext, Dca!Calculated, Strategy!Calculated,
                      Dca!CalculatedUpTo, Strategy!CalculatedUpTo, Dca!Max, Strategy!Max, Dca!SumFunctionOnSet,
                      Strategy!SumFunctionOnSet, Dca!FoldFunctionOnSet, Strategy!FoldFunctionOnSet,
                      Dca!MapThenFoldSet, Strategy!MapThenFoldSet, Dca!CanFail, Strategy!CanFail,
                      Dca!NoneStale, Strategy!NoneStale
  <1>32. Dca!Recover <=> Strategy!Recover
    BY <1>28, <1>29, <1>30, <1>31, Zenon DEF Dca!Recover, Strategy!Recover, Dca!exchangeVars,
                                             Strategy!exchangeVars
  <1>33. Dca!RecoverFails <=> Strategy!RecoverFails
    BY <1>28, Zenon DEF Dca!RecoverFails, Strategy!RecoverFails, Dca!exchangeVars, Strategy!exchangeVars,
                        Dca!work, Strategy!work, Dca!bookVars, Strategy!bookVars, Dca!statsVars,
                        Strategy!statsVars, Dca!bounds, Strategy!bounds
  <1>34. Dca!BeginSelling <=> Strategy!BeginSelling
    BY ZenonT(40) DEF Dca!BeginSelling, Strategy!BeginSelling, Dca!exchangeVars, Strategy!exchangeVars,
                      Dca!bookVars, Strategy!bookVars, Dca!statsVars, Strategy!statsVars, Dca!bounds,
                      Strategy!bounds, Dca!Receive, Strategy!Receive, Dca!Absolute, Strategy!Absolute
  <1>35. Dca!IDs = Strategy!IDs
    BY Zenon DEF Dca!IDs, Strategy!IDs
  <1>36. UNCHANGED Dca!vars <=> UNCHANGED Strategy!vars
    BY Zenon DEF Dca!vars, Strategy!vars, Dca!exchangeVars, Strategy!exchangeVars, Dca!loop, Strategy!loop,
                 Dca!work, Strategy!work, Dca!stateVars, Strategy!stateVars, Dca!bookVars, Strategy!bookVars,
                 Dca!statsVars, Strategy!statsVars, Dca!bounds, Strategy!bounds
  <1>37. Dca!Next <=> Strategy!Next
    BY <1>3, <1>4, <1>5, <1>6, <1>7, <1>8, <1>9, <1>10, <1>11, <1>12, <1>13, <1>14, <1>15, <1>16, <1>17, <1>18,
       <1>19, <1>20, <1>21, <1>22, <1>23, <1>24, <1>25, <1>26, <1>27, <1>32, <1>33, <1>34, <1>35, Zenon
       DEF Dca!Next, Strategy!Next, Dca!RunState, Strategy!RunState, Dca!Placing, Strategy!Placing,
           Dca!Cancelling, Strategy!Cancelling, Dca!TakingProfit, Strategy!TakingProfit
  <1> QED
    BY <1>1, <1>2, <1>36, <1>37, Zenon

(* A step of the parts is one of a part, and the others stay. *)
LEMMA PartsStep ==
    ASSUME [PartsNext]_<<part, vars, dca2Vars, tree, twapVars>>
    PROVE  [Next]_vars /\ [Dca!Next]_(Dca!vars) /\ [Book!Next]_tree /\ [Twap!Next]_(Twap!vars)
  <1>1. dca2Vars' = dca2Vars => UNCHANGED Dca!vars
    BY Zenon DEF dca2Vars, Dca!vars, Dca!exchangeVars, Dca!stateVars, Dca!loop, Dca!work, Dca!bookVars,
                 Dca!statsVars, Dca!bounds
  <1>2. twapVars' = twapVars => UNCHANGED Twap!vars
    BY Zenon DEF twapVars, Twap!vars, Twap!exchangeVars, Twap!bookVars, Twap!updaterVars
  <1> QED
    BY <1>1, <1>2, Zenon DEF PartsNext

LEMMA PartsOf == PartsSpec => Spec /\ Dca!Spec /\ Book!Spec /\ Twap!Spec
<1>1. PartsInit => Init /\ Dca!Init /\ Book!Init /\ Twap!Init
  BY DEF PartsInit
<1> QED
  BY <1>1, PartsStep, PTL DEF PartsSpec, Spec, Dca!Spec, Book!Spec, Twap!Spec

LEMMA StrategyOf == PartsSpec => Strategy!Spec
<1>1. Dca!Spec => Strategy!Spec
  BY SameStrategy, PTL DEF Dca!Spec, Strategy!Spec
<1> QED
  BY <1>1, PartsOf, PTL

(* Until the first crash a round of dca2 ends with everything sold that was
   bought, unless a fill was on its way as the take-profit order was placed or a
   K-line signal was left for TakeProfitReady, and without failed requests the
   profit counts every order once (pkg/strategy/dca2/state.go). *)
THEOREM RoundSettledInvariant == PartsSpec => []RoundSettled
<1>1. Dca!RoundSettled <=> Strategy!RoundSettled
  BY Zenon DEF Dca!RoundSettled, Strategy!RoundSettled, Dca!IDs, Strategy!IDs, Dca!IsOpen, Strategy!IsOpen,
               Dca!Of, Strategy!Of, Dca!Value, Strategy!Value, Dca!Sum, Strategy!Sum, Dca!Executed,
               Strategy!Executed, Dca!Idle, Strategy!Idle, Dca!SumFunctionOnSet, Strategy!SumFunctionOnSet,
               Dca!FoldFunctionOnSet, Strategy!FoldFunctionOnSet, Dca!MapThenFoldSet, Strategy!MapThenFoldSet
<1>2. Strategy!Parameters
  BY PartsAssumption, SameStrategy
<1> QED
  BY <1>1, <1>2, StrategyOf, Strategy!RoundSettledInvariant, PTL DEF RoundSettled

(* Until a K-line signal is left for TakeProfitReady, no buy order that dca2
   follows is open beside a take-profit order, and the orders of a round are
   placed when the take-profit order of the round before is closed, after
   crashes too (pkg/strategy/dca2/state.go). *)
THEOREM SellsAloneInvariant == PartsSpec => []SellsAlone
<1>1. Dca!SellsAlone <=> Strategy!SellsAlone
  BY Zenon DEF Dca!SellsAlone, Strategy!SellsAlone, Dca!IDs, Strategy!IDs, Dca!IsOpen, Strategy!IsOpen, Dca!Of,
               Strategy!Of, Dca!OpenOf, Strategy!OpenOf
<1>2. Strategy!Parameters
  BY PartsAssumption, SameStrategy
<1> QED
  BY <1>1, <1>2, StrategyOf, Strategy!SellsAloneInvariant, PTL DEF SellsAlone

(* The start after the first crash of dca2 rebuilds the position the orders made
   and follows every open order, unless something trades between its two queries,
   or before it a fill was late or a K-line signal was left for TakeProfitReady
   (pkg/strategy/dca2/recover.go). *)
THEOREM RecoveredRightAlways == PartsSpec => RecoveredRight
<1> DEFINE Found == pc = "recover" /\ pc' = "select" /\ crashes <= 1 /\ ~late /\ ~stale
                    /\ \A o \in opened : orders[o.id].executed = o.executed
           A == Found => /\ base' = Strategy!Executed("BUY") - Strategy!Executed("SELL")
                         /\ state' # "OpenPositionOrdersCancelling" =>
                               active' = {i \in Strategy!IDs : Strategy!IsOpen(i)}
           B == Found => /\ base' = Dca!Executed("BUY") - Dca!Executed("SELL")
                         /\ state' # "OpenPositionOrdersCancelling" => active' = {i \in Dca!IDs : Dca!IsOpen(i)}
<1>1. [A]_(Strategy!vars) => [B]_(Dca!vars)
  <2>1. UNCHANGED Strategy!vars => UNCHANGED Dca!vars
    BY Zenon DEF Dca!vars, Strategy!vars, Dca!exchangeVars, Strategy!exchangeVars, Dca!loop, Strategy!loop,
                 Dca!work, Strategy!work, Dca!stateVars, Strategy!stateVars, Dca!bookVars, Strategy!bookVars,
                 Dca!statsVars, Strategy!statsVars, Dca!bounds, Strategy!bounds
  <2>2. A => B
    BY Zenon DEF Dca!IDs, Strategy!IDs, Dca!IsOpen, Strategy!IsOpen, Dca!Of, Strategy!Of, Dca!Executed,
                 Strategy!Executed, Dca!SumFunctionOnSet, Strategy!SumFunctionOnSet, Dca!FoldFunctionOnSet,
                 Strategy!FoldFunctionOnSet, Dca!MapThenFoldSet, Strategy!MapThenFoldSet
  <2> QED
    BY <2>1, <2>2
<1>2. Strategy!RecoveredRight => [][A]_(Strategy!vars)
  BY PTL DEF Strategy!RecoveredRight
<1>3. [][B]_(Dca!vars) => Dca!RecoveredRight
  BY PTL DEF Dca!RecoveredRight
<1>4. Strategy!Parameters
  BY PartsAssumption, SameStrategy
<1> HIDE DEF A, B
<1> QED
  BY <1>1, <1>2, <1>3, <1>4, StrategyOf, Strategy!RecoveredRightAlways, PTL DEF RecoveredRight

(* What a TWAP execution traded and what can still be traded stays within its
   target until an order is made without knowing all that was traded
   (pkg/bbgo/twap_order_executor.go:137). *)
THEOREM TargetIsKept == PartsSpec => []TargetKept
<1>1. Executions \subseteq Twap!Execution
  BY PartsAssumption
<1> QED
  BY <1>1, PartsOf, TargetKeptInvariant, PTL DEF TargetKept

(* Each level of a side of an RBTOrderBook is found, first, last, next and by its
   price, in a tree that stays balanced, and a copy of a limited depth holds the
   best levels, after any updates of any prices (pkg/types/rbtree.go,
   pkg/types/rbtorderbook.go). *)
THEOREM SearchTreeInvariant == PartsSpec => []SearchTree
<1>1. Book!Parameters
  BY PartsAssumption
<1>2. LevelsSound => SearchTree
  BY <1>1, BookOrder DEF LevelsSound, SearchTree
<1> QED
  BY <1>1, <1>2, PartsOf, BookInvariant, PTL

(* A side of an RBTOrderBook implements a map of prices to volumes: an update of
   a level changes the volume at its price, and no rotation, and no node that is
   renamed as another is deleted, changes any other (pkg/types/rbtree.go). *)
THEOREM LevelsImplemented == PartsSpec => ImplementsLevels
<1>1. Book!Parameters
  BY PartsAssumption
<1> QED
  BY <1>1, PartsOf, BookRefines, PTL DEF ImplementsLevels

(* The types of the four parts: of the matching (pkg/backtest/matching.go); of
   dca2 (pkg/strategy/dca2); the links of the nodes of a book are a tree, each
   node the child of its parent (pkg/types/rbtree_node.go); and a TWAP execution
   follows and stores orders of the exchange only, believes of none more than it
   traded, and counts no trade twice (pkg/bbgo/twap_order_executor.go). *)
THEOREM AllTypesCorrect == PartsSpec => []AllTypesOK
<1>1. Strategy!Parameters /\ Book!Parameters /\ Executions \subseteq Twap!Execution
  BY PartsAssumption, SameStrategy
<1>2. Strategy!TypeOK => Dca!TypeOK
  BY Zenon DEF Dca!TypeOK, Strategy!TypeOK, Dca!IDs, Strategy!IDs, Dca!State, Strategy!State, Dca!Order,
               Strategy!Order, Dca!Update, Strategy!Update
<1>3. LevelsSound => Book!TypeOK
  BY <1>1, BookTypes DEF LevelsSound
<1> QED
  BY <1>1, <1>2, <1>3, PartsOf, StrategyOf, TypeCorrect, Strategy!Dca2TypeCorrect, BookInvariant, TwapTypeCorrect,
     PTL DEF AllTypesOK
=============================================================================
