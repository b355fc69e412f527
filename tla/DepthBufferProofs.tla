------------------------- MODULE DepthBufferProofs --------------------------
(***************************************************************************)
(* Theorems about the depth buffer, for any number of fetch goroutines,    *)
(* updates, price levels and disconnections: types, that what the buffer   *)
(* commits to has no hole, and that it never waits for a snapshot nobody   *)
(* fetches.                                                                *)
(***************************************************************************)
EXTENDS DepthBuffer, Lemmas

-----------------------------------------------------------------------------
(* The last change of a level, and two runs of changes put together. *)

LEMMA LastChangeIs ==
    ASSUME NEW l, NEW a \in Int, NEW b \in Int, NEW k \in a .. b, k % Levels = l,
           \A j \in a .. b : j % Levels = l => j <= k
    PROVE  LastChange(l, a, b) = k
  <1> DEFINE H == {j \in a .. b : j % Levels = l}
  <1>1. k \in H /\ \A j \in H : j <= k
    OBVIOUS
  <1>2. H \subseteq Int
    OBVIOUS
  <1>3. LastChange(l, a, b) = CHOOSE i \in H : \A j \in H : j <= i
    BY <1>1 DEF LastChange
  <1>4. \A i \in H : (\A j \in H : j <= i) => i = k
    <2> HIDE DEF H
    <2> QED
      BY <1>1, <1>2
  <1> HIDE DEF H
  <1> QED
    BY <1>1, <1>3, <1>4

LEMMA LastChangeNone ==
    ASSUME NEW l, NEW a \in Int, NEW b \in Int, \A j \in a .. b : j % Levels # l
    PROVE  LastChange(l, a, b) = 0
  BY DEF LastChange

LEMMA LastChangeCases ==
    ASSUME NEW l, NEW a \in Nat \ {0}, NEW b \in Nat
    PROVE  \/ /\ LastChange(l, a, b) = 0
              /\ \A j \in a .. b : j % Levels # l
           \/ /\ LastChange(l, a, b) \in a .. b
              /\ LastChange(l, a, b) % Levels = l
              /\ \A j \in a .. b : j % Levels = l => j <= LastChange(l, a, b)
  <1> DEFINE H == {j \in a .. b : j % Levels = l}
  <1>1. CASE H = {}
    BY <1>1, LastChangeNone
  <1>2. CASE H # {}
    <2>1. H \in SUBSET (0 .. b)
      OBVIOUS
    <2>2. PICK k \in H : \A j \in H : j <= k
      <3> HIDE DEF H
      <3> QED
        BY <1>2, <2>1, GreatestNat
    <2>3. LastChange(l, a, b) = k
      BY <2>2, LastChangeIs
    <2> QED
      BY <2>2, <2>3
  <1> QED
    BY <1>1, <1>2

(* The changes a to n of a level are those from c on, or else those before. *)
LEMMA LastChangeConcat ==
    ASSUME NEW l, NEW a \in Nat \ {0}, NEW c \in Nat \ {0}, NEW m \in Nat, NEW n \in Nat,
           a <= c, c <= m + 1, m <= n
    PROVE  LastChange(l, a, n) = IF LastChange(l, c, n) = 0 THEN LastChange(l, a, m)
                                                            ELSE LastChange(l, c, n)
  <1> DEFINE later == LastChange(l, c, n)
             early == LastChange(l, a, m)
  <1>1. CASE later # 0
    <2>1. later \in c .. n /\ later % Levels = l /\ \A j \in c .. n : j % Levels = l => j <= later
      BY <1>1, LastChangeCases
    <2>2. later \in a .. n /\ \A j \in a .. n : j % Levels = l => j <= later
      BY <2>1
    <2> HIDE DEF later
    <2>3. LastChange(l, a, n) = later
      BY <2>1, <2>2, LastChangeIs
    <2> QED
      BY <1>1, <2>3 DEF later
  <1>2. CASE later = 0
    <2>1. \A j \in c .. n : j % Levels # l
      BY <1>2, LastChangeCases
    <2>2. \A j \in a .. n : j % Levels = l => j \in a .. m
      BY <2>1
    <2>3. CASE early = 0
      <3>1. \A j \in a .. m : j % Levels # l
        BY <2>3, LastChangeCases
      <3>2. LastChange(l, a, n) = 0
        BY <2>2, <3>1, LastChangeNone
      <3> QED
        BY <1>2, <2>3, <3>2
    <2>4. CASE early # 0
      <3>1. early \in a .. m /\ early % Levels = l /\ \A j \in a .. m : j % Levels = l => j <= early
        BY <2>4, LastChangeCases
      <3>2. early \in a .. n /\ \A j \in a .. n : j % Levels = l => j <= early
        BY <2>2, <3>1
      <3> HIDE DEF early
      <3>3. LastChange(l, a, n) = early
        BY <3>1, <3>2, LastChangeIs
      <3> QED
        BY <1>2, <3>3 DEF early
    <2> QED
      BY <2>3, <2>4
  <1> QED
    BY <1>1, <1>2

LEMMA LastChangeType ==
    ASSUME NEW l, NEW a \in Nat, NEW b \in Versions
    PROVE  LastChange(l, a, b) \in Versions
  <1> DEFINE H == {j \in a .. b : j % Levels = l}
  <1>1. b \in Nat
    BY DepthAssumption DEF Versions
  <1>2. CASE H = {}
    <2>1. \A j \in a .. b : j % Levels # l
      BY <1>2
    <2>2. LastChange(l, a, b) = 0
      BY <1>1, <2>1, LastChangeNone
    <2>3. 0 \in Versions
      BY DepthAssumption DEF Versions
    <2> QED
      BY <2>2, <2>3
  <1>3. CASE H # {}
    <2>1. H \in SUBSET (0 .. b)
      BY <1>1
    <2>2. PICK k \in H : \A j \in H : j <= k
      <3> HIDE DEF H
      <3> QED
        BY <1>1, <1>3, <2>1, GreatestNat
    <2>3. LastChange(l, a, b) = k
      BY <1>1, <2>2, LastChangeIs
    <2> QED
      BY <1>1, <2>1, <2>3, DepthAssumption DEF Versions
  <1> QED
    BY <1>2, <1>3

LEMMA BookAtType ==
    ASSUME NEW v \in Versions
    PROVE  BookAt(v) \in Book
  <1>1. \A l \in 0 .. Levels - 1 : LastChange(l, 1, v) \in Versions
    BY LastChangeType
  <1> QED
    BY <1>1 DEF BookAt, Book

LEMMA ApplyType ==
    ASSUME NEW b \in Book, NEW u \in Update
    PROVE  Apply(b, u) \in Book
  <1>1. u.first \in Nat /\ u.final \in Versions
    BY DepthAssumption DEF Update, Versions
  <1>2. \A l \in 0 .. Levels - 1 : LastChange(l, u.first, u.final) \in Versions
    BY <1>1, LastChangeType
  <1> QED
    BY <1>2 DEF Apply, Book

-----------------------------------------------------------------------------
(* What the loop of fetchAndPush computes after each buffered update. *)

LEMMA ReachIs ==
    ASSUME buffer \in Seq(Update), NEW v \in Versions
    PROVE  /\ Reach(v) \in [0 .. Len(buffer) -> Versions \cup {-1}]
           /\ Reach(v)[0] = v
           /\ \A i \in 1 .. Len(buffer) :
                  Reach(v)[i] = IF Reach(v)[i - 1] = -1 \/ Missing(buffer[i], Reach(v)[i - 1]) THEN -1
                                ELSE IF buffer[i].first < Reach(v)[i - 1] + 1 THEN Reach(v)[i - 1]
                                ELSE buffer[i].final
  <1> DEFINE N == Len(buffer)
             V == Versions \cup {-1}
             Step(i, r) == IF r = -1 \/ Missing(buffer[i], r) THEN -1
                           ELSE IF buffer[i].first < r + 1 THEN r ELSE buffer[i].final
             D == [i \in 1 .. N |-> [r \in V |-> Step(i, r)]]
             Def(g) == [i \in 0 .. N |-> IF i = 0 THEN v ELSE Step(i, g[i - 1])]
  <1>1. N \in Nat /\ v \in V
    OBVIOUS
  <1>2. \A i \in 1 .. N : buffer[i].final \in Versions
    <2>1. \A i \in 1 .. N : buffer[i] \in Update
      OBVIOUS
    <2> QED
      BY <2>1 DEF Update
  <1>3. \A i \in 1 .. N, r \in V : Step(i, r) \in V
    BY <1>2
  <1> HIDE DEF N, V, Step
  <1>4. D \in [1 .. N -> [V -> V]]
    BY <1>3
  <1>5. PICK g : Recursion(g, N, V, v, D)
    <2> HIDE DEF D
    <2> QED
      BY <1>1, <1>4, RecursionExists
  <1>6. \A i \in 1 .. N : g[i] = Step(i, g[i - 1])
    <2> SUFFICES ASSUME NEW i \in 1 .. N
                 PROVE  g[i] = Step(i, g[i - 1])
      OBVIOUS
    <2>1. g[i - 1] \in V
      BY <1>1, <1>5 DEF Recursion
    <2> QED
      BY <1>5, <2>1 DEF Recursion
  <1>7. g = Def(g)
    BY <1>1, <1>5, <1>6 DEF Recursion
  <1>8. Reach(v) = CHOOSE h : h = Def(h)
    BY DEF Reach, N, Step
  <1> DEFINE R == Reach(v)
  <1>9. R = Def(R)
    <2> HIDE DEF Def
    <2> QED
      BY <1>7, <1>8
  <1>10. R[0] = v /\ \A i \in 1 .. N : R[i] = Step(i, R[i - 1])
    <2> HIDE DEF R
    <2> QED
      BY <1>1, <1>9
  <1>11. \A i \in 0 .. N : R[i] \in V
    <2>1. \A i \in 1 .. N : R[i - 1] \in V => R[i] \in V
      BY <1>3, <1>10
    <2> HIDE DEF R
    <2> QED
      BY <1>1, <1>10, <2>1, ValuesInduction
  <1>12. R \in [0 .. N -> V]
    <2> HIDE DEF R
    <2> QED
      BY <1>9, <1>11
  <1> QED
    BY <1>10, <1>12 DEF N, V, Step

(* The updates taken from the first i buffered ones. *)
Pushed(v) ==
    CHOOSE push : push = [i \in 0 .. Len(buffer) |->
        IF i = 0 THEN <<>> ELSE IF i \in Used(v) THEN Append(push[i - 1], buffer[i]) ELSE push[i - 1]]

LEMMA PushedIs ==
    ASSUME buffer \in Seq(Update), NEW v \in Versions
    PROVE  /\ Pushed(v) \in [0 .. Len(buffer) -> Seq(Update)]
           /\ Pushed(v)[0] = <<>>
           /\ \A i \in 1 .. Len(buffer) :
                  Pushed(v)[i] = IF i \in Used(v) THEN Append(Pushed(v)[i - 1], buffer[i])
                                 ELSE Pushed(v)[i - 1]
           /\ PushUpdates(v) = Pushed(v)[Len(buffer)]
  <1> DEFINE N == Len(buffer)
             V == Seq(Update)
             U == Used(v)
             Step(i, us) == IF i \in U THEN Append(us, buffer[i]) ELSE us
             D == [i \in 1 .. N |-> [us \in V |-> Step(i, us)]]
             Def(g) == [i \in 0 .. N |-> IF i = 0 THEN <<>> ELSE Step(i, g[i - 1])]
             P == Pushed(v)
  <1>1. N \in Nat /\ <<>> \in V
    OBVIOUS
  <1>2. \A i \in 1 .. N : buffer[i] \in Update
    OBVIOUS
  <1>3. \A i \in 1 .. N, us \in V : Step(i, us) \in V
    <2> HIDE DEF U, N
    <2> QED
      BY <1>2
  <1>4. P = CHOOSE h : h = Def(h)
    BY DEF Pushed
  <1>5. PushUpdates(v) = P[N]
    BY DEF Pushed, PushUpdates
  <1> HIDE DEF N, V, U, Step, P
  <1>6. D \in [1 .. N -> [V -> V]]
    BY <1>3
  <1>7. PICK g : Recursion(g, N, V, <<>>, D)
    <2> HIDE DEF D
    <2> QED
      BY <1>1, <1>6, RecursionExists
  <1>8. \A i \in 1 .. N : g[i] = Step(i, g[i - 1])
    <2> SUFFICES ASSUME NEW i \in 1 .. N
                 PROVE  g[i] = Step(i, g[i - 1])
      OBVIOUS
    <2>1. g[i - 1] \in V
      BY <1>1, <1>7 DEF Recursion
    <2> QED
      BY <1>7, <2>1 DEF Recursion
  <1>9. g = Def(g)
    BY <1>1, <1>7, <1>8 DEF Recursion
  <1>10. P = Def(P)
    <2> HIDE DEF Def
    <2> QED
      BY <1>4, <1>9
  <1>11. P[0] = <<>> /\ \A i \in 1 .. N : P[i] = Step(i, P[i - 1])
    BY <1>1, <1>10
  <1>12. \A i \in 0 .. N : P[i] \in V
    <2>1. \A i \in 1 .. N : P[i - 1] \in V => P[i] \in V
      BY <1>3, <1>11
    <2> QED
      BY <1>1, <1>11, <2>1, ValuesInduction
  <1>13. P \in [0 .. N -> V]
    BY <1>10, <1>12
  <1> QED
    BY <1>5, <1>11, <1>13 DEF N, V, U, Step, P

(* The book after the first i updates. *)
After(b, us) ==
    CHOOSE after : after = [i \in 0 .. Len(us) |-> IF i = 0 THEN b ELSE Apply(after[i - 1], us[i])]

LEMMA AfterIs ==
    ASSUME NEW b \in Book, NEW us \in Seq(Update)
    PROVE  /\ After(b, us) \in [0 .. Len(us) -> Book]
           /\ After(b, us)[0] = b
           /\ \A i \in 1 .. Len(us) : After(b, us)[i] = Apply(After(b, us)[i - 1], us[i])
           /\ ApplyAll(b, us) = After(b, us)[Len(us)]
  <1> DEFINE N == Len(us)
             D == [i \in 1 .. N |-> [c \in Book |-> Apply(c, us[i])]]
             Def(g) == [i \in 0 .. N |-> IF i = 0 THEN b ELSE Apply(g[i - 1], us[i])]
             A == After(b, us)
  <1>1. N \in Nat /\ \A i \in 1 .. N : us[i] \in Update
    OBVIOUS
  <1>2. A = CHOOSE h : h = Def(h)
    BY DEF After
  <1>3. ApplyAll(b, us) = A[N]
    BY DEF After, ApplyAll
  <1> HIDE DEF N, A
  <1>4. \A i \in 1 .. N, c \in Book : Apply(c, us[i]) \in Book
    BY <1>1, ApplyType
  <1>5. D \in [1 .. N -> [Book -> Book]]
    BY <1>4
  <1>6. PICK g : Recursion(g, N, Book, b, D)
    <2> HIDE DEF D
    <2> QED
      BY <1>1, <1>5, RecursionExists
  <1>7. \A i \in 1 .. N : g[i] = Apply(g[i - 1], us[i])
    <2> SUFFICES ASSUME NEW i \in 1 .. N
                 PROVE  g[i] = Apply(g[i - 1], us[i])
      OBVIOUS
    <2>1. g[i - 1] \in Book
      BY <1>1, <1>6 DEF Recursion
    <2> QED
      BY <1>6, <2>1 DEF Recursion
  <1>8. g = Def(g)
    BY <1>1, <1>6, <1>7 DEF Recursion
  <1>9. A = Def(A)
    <2> HIDE DEF Def
    <2> QED
      BY <1>2, <1>8
  <1>10. A[0] = b /\ \A i \in 1 .. N : A[i] = Apply(A[i - 1], us[i])
    BY <1>1, <1>9
  <1>11. \A i \in 0 .. N : A[i] \in Book
    <2>1. \A i \in 1 .. N : A[i - 1] \in Book => A[i] \in Book
      BY <1>4, <1>10
    <2> QED
      BY <1>1, <1>10, <2>1, ValuesInduction
  <1>12. A \in [0 .. N -> Book]
    BY <1>9, <1>11
  <1> QED
    BY <1>3, <1>10, <1>12 DEF N, A

LEMMA ApplyAllType ==
    ASSUME NEW b \in Book, NEW us \in Seq(Update)
    PROVE  ApplyAll(b, us) \in Book
  <1>1. Len(us) \in 0 .. Len(us)
    OBVIOUS
  <1> QED
    BY <1>1, AfterIs

LEMMA ApplyAllEmpty ==
    ASSUME NEW b \in Book
    PROVE  ApplyAll(b, <<>>) = b
  <1>1. <<>> \in Seq(Update) /\ Len(<<>>) = 0
    OBVIOUS
  <1>2. After(b, <<>>)[0] = b /\ ApplyAll(b, <<>>) = After(b, <<>>)[Len(<<>>)]
    BY <1>1, AfterIs, ZenonT(60)
  <1> QED
    BY <1>1, <1>2

(* One update more. *)
LEMMA ApplyAllAppend ==
    ASSUME NEW b \in Book, NEW us \in Seq(Update), NEW u \in Update
    PROVE  ApplyAll(b, Append(us, u)) = Apply(ApplyAll(b, us), u)
  <1> DEFINE N == Len(us)
             more == Append(us, u)
             A == After(b, us)
             B == After(b, more)
             S == {i \in 0 .. N : A[i] = B[i]}
  <1>1. more \in Seq(Update) /\ N \in Nat /\ Len(more) = N + 1 /\ more[N + 1] = u
    OBVIOUS
  <1>2. \A i \in 1 .. N : more[i] = us[i]
    OBVIOUS
  <1>3. /\ A[0] = b /\ \A i \in 1 .. N : A[i] = Apply(A[i - 1], us[i])
        /\ ApplyAll(b, us) = A[N]
    <2> HIDE DEF more, B, S
    <2> QED
      BY AfterIs, ZenonT(60)
  <1>4. /\ B[0] = b /\ \A i \in 1 .. N + 1 : B[i] = Apply(B[i - 1], more[i])
        /\ ApplyAll(b, more) = B[N + 1]
    <2> HIDE DEF N, more
    <2>1. /\ B[0] = b /\ \A i \in 1 .. Len(more) : B[i] = Apply(B[i - 1], more[i])
          /\ ApplyAll(b, more) = B[Len(more)]
      BY <1>1, AfterIs, ZenonT(60)
    <2> HIDE DEF B
    <2> QED
      BY <1>1, <2>1
  <1> HIDE DEF N, more, A, B
  <1>5. 0 \in S
    BY <1>1, <1>3, <1>4
  <1>6. ASSUME NEW i \in 0 .. N - 1, i \in S
        PROVE  i + 1 \in S
    <2>1. i + 1 \in 1 .. N /\ i + 1 \in 1 .. N + 1 /\ (i + 1) - 1 = i
      BY <1>1
    <2>2. A[i + 1] = Apply(A[i], us[i + 1]) /\ B[i + 1] = Apply(B[i], more[i + 1])
      BY <1>3, <1>4, <2>1
    <2> QED
      BY <1>1, <1>2, <1>6, <2>1, <2>2
  <1>7. N \in S
    <2> HIDE DEF S
    <2>1. 0 .. N \subseteq S
      BY <1>1, <1>5, <1>6, IntervalInduction
    <2> QED
      BY <1>1, <2>1
  <1>8. N + 1 \in 1 .. N + 1 /\ (N + 1) - 1 = N
    BY <1>1
  <1>9. B[N + 1] = Apply(B[N], more[N + 1])
    BY <1>4, <1>8
  <1> QED
    BY <1>1, <1>3, <1>4, <1>7, <1>9 DEF more

-----------------------------------------------------------------------------
(* Types.  An update the exchange publishes has one. *)

LEMMA HeadType ==
    ASSUME NEW us \in Seq(Update), us # <<>>
    PROVE  Head(us) \in Update /\ Tail(us) \in Seq(Update)
  OBVIOUS

LEMMA PublishType ==
    ASSUME TypeOK, NEW width \in 1 .. MaxWidth, Publish(width)
    PROVE  version' \in Versions /\ feed' \in Seq(Update)
  <1> DEFINE u == [first |-> version + 1, final |-> version + width]
  <1>1. version + width \in Versions /\ version + 1 \in Versions
    BY DepthAssumption DEF Publish, TypeOK, Versions
  <1>2. u \in Update
    BY <1>1 DEF Update
  <1> HIDE DEF u
  <1>3. version' = version + width /\ feed' = Append(feed, u)
    BY DEF Publish, u
  <1> QED
    BY <1>1, <1>2, <1>3 DEF TypeOK

LEMMA FetchType ==
    ASSUME TypeOK, NEW f \in Fetchers, TryFetch(f)
    PROVE  TypeOK'
  <1> USE DEF exchangeVars, bufferVars, fetchVars
  <1>1. CASE Fetch(f)
    BY <1>1 DEF Fetch, TypeOK
  <1>2. CASE FetchRefused(f)
    <2>1. 0 \in Versions
      BY DepthAssumption DEF Versions
    <2> QED
      BY <1>2, <2>1 DEF FetchRefused, ResetSnapshot, TypeOK
  <1>3. CASE FetchAccepted(f)
    <2> DEFINE v == fetched[f]
               R == Reach(v)
               us == PushUpdates(v)
    <2>1. v \in Versions /\ buffer \in Seq(Update)
      BY DEF TypeOK
    <2>2. Len(buffer) \in 0 .. Len(buffer)
      BY <2>1
    <2>3. R \in [0 .. Len(buffer) -> Versions \cup {-1}]
      BY <2>1, ReachIs
    <2>4. us \in Seq(Update)
      <3>1. Pushed(v)[Len(buffer)] \in Seq(Update) /\ us = Pushed(v)[Len(buffer)]
        <4> HIDE DEF v
        <4> QED
          BY <2>1, <2>2, PushedIs
      <3> QED
        BY <3>1
    <2>5. BookAt(v) \in Book
      BY <2>1, BookAtType
    <2>6. ApplyAll(BookAt(v), us) \in Book
      <3> HIDE DEF v, us
      <3> QED
        BY <2>4, <2>5, ApplyAllType
    <2>7. R[Len(buffer)] \in Versions
      BY <1>3, <2>2, <2>3 DEF FetchAccepted, Refused
    <2>8. /\ final' = R[Len(buffer)] /\ committed' = ApplyAll(BookAt(v), us) /\ base' = v
          /\ updates' = [updates EXCEPT ![f] = us] /\ pc' = [pc EXCEPT ![f] = "load"]
          /\ buffer' = <<>> /\ ready' = TRUE
          /\ UNCHANGED <<exchangeVars, resetC, once, adding, fetched, book>>
      BY <1>3 DEF FetchAccepted
    <2> HIDE DEF v, R, us
    <2> QED
      BY <2>1, <2>4, <2>6, <2>7, <2>8 DEF TypeOK
  <1>4. CASE Load(f)
    <2>1. BookAt(fetched[f]) \in Book
      BY BookAtType DEF TypeOK
    <2> QED
      BY <1>4, <2>1 DEF Load, TypeOK
  <1>5. CASE EmitUpdate(f)
    <2>1. Head(updates[f]) \in Update /\ Tail(updates[f]) \in Seq(Update)
      BY <1>5, HeadType DEF EmitUpdate, TypeOK
    <2>2. Apply(book, Head(updates[f])) \in Book
      BY <2>1, ApplyType DEF TypeOK
    <2> QED
      BY <1>5, <2>1, <2>2 DEF EmitUpdate, TypeOK
  <1>6. CASE FetchEnd(f)
    <2>1. 0 \in Versions
      BY DepthAssumption DEF Versions
    <2> QED
      BY <1>6, <2>1 DEF FetchEnd, TypeOK
  <1> QED
    BY <1>1, <1>2, <1>3, <1>4, <1>5, <1>6 DEF TryFetch

LEMMA NextType == TypeOK /\ [Next]_vars => TypeOK'
  <1> SUFFICES ASSUME TypeOK, [Next]_vars
               PROVE  TypeOK'
    OBVIOUS
  <1> USE DEF exchangeVars, bufferVars, fetchVars
  <1>0. 0 \in Versions /\ <<>> \in Seq(Update)
    BY DepthAssumption DEF Versions
  <1>1. ASSUME NEW width \in 1 .. MaxWidth, Publish(width)
        PROVE  TypeOK'
    BY <1>1, PublishType DEF Publish, TypeOK
  <1>2. CASE Reset
    <2>1. resets + 1 \in 0 .. MaxResets
      BY <1>2, DepthAssumption DEF Reset, TypeOK
    <2> QED
      BY <1>0, <1>2, <2>1 DEF Reset, ResetSnapshot, TypeOK
  <1>3. CASE AddUpdate
    <2>1. Head(feed) \in Update /\ Tail(feed) \in Seq(Update)
      BY <1>3, HeadType DEF AddUpdate, TypeOK
    <2> QED
      BY <1>3, <2>1 DEF AddUpdate, TypeOK
  <1>4. ASSUME NEW u \in Update, BufferUpdate(u)
        PROVE  TypeOK'
    <2>1. buffer' \in Seq(Update)
      BY <1>4 DEF BufferUpdate, TypeOK
    <2>2. pc' \in [Fetchers -> {"none", "fetch", "fetched", "load", "emit"}]
      BY <1>4 DEF BufferUpdate, DoOnce, TypeOK
    <2>3. once' \in BOOLEAN
      BY <1>4, Zenon DEF BufferUpdate, DoOnce, TypeOK
    <2> QED
      BY <1>4, <2>1, <2>2, <2>3 DEF BufferUpdate, TypeOK
  <1>5. ASSUME NEW u \in Update, FoundMissing(u)
        PROVE  TypeOK'
    <2>1. <<u>> \in Seq(Update)
      OBVIOUS
    <2> QED
      BY <1>0, <1>5, <2>1 DEF FoundMissing, DropSnapshot, ResetSnapshot, TypeOK
  <1>6. ASSUME NEW u \in Update, Accept(u)
        PROVE  TypeOK'
    <2>1. u.final \in Versions /\ Apply(committed, u) \in Book
      BY ApplyType DEF Update, TypeOK
    <2> QED
      BY <1>6, <2>1 DEF Accept, TypeOK
  <1>7. ASSUME NEW u \in Update, Push(u)
        PROVE  TypeOK'
    <2>1. Apply(book, u) \in Book
      BY ApplyType DEF TypeOK
    <2> QED
      BY <1>7, <2>1 DEF Push, TypeOK
  <1>8. CASE \E f \in Fetchers : TryFetch(f)
    BY <1>8, FetchType
  <1>9. CASE UNCHANGED vars
    BY <1>9 DEF vars, TypeOK
  <1> QED
    BY <1>1, <1>2, <1>3, <1>4, <1>5, <1>6, <1>7, <1>8, <1>9 DEF Next, Stream

(* The state of the buffer, of the goroutines around it and of the subscriber's
   book keep their types; the levels of a book are versions of the exchange. *)
THEOREM TypeCorrect == Spec => []TypeOK
  <1>1. Init => TypeOK
    <2>1. 0 \in Versions /\ <<>> \in Seq(Update)
      BY DepthAssumption DEF Versions
    <2>2. BookAt(0) \in Book
      BY <2>1, BookAtType
    <2> SUFFICES ASSUME Init
                 PROVE  TypeOK
      OBVIOUS
    <2>3. resets \in 0 .. MaxResets
      BY DepthAssumption DEF Init
    <2>4. /\ pc \in [Fetchers -> {"none", "fetch", "fetched", "load", "emit"}]
          /\ fetched \in [Fetchers -> Versions]
          /\ updates \in [Fetchers -> Seq(Update)]
      BY <2>1 DEF Init
    <2>5. adding \in {<<>>} \cup ({"lock", "push"} \X Update)
      BY DEF Init
    <2> QED
      BY <2>1, <2>2, <2>3, <2>4, <2>5 DEF Init, TypeOK
  <1> QED
    BY <1>1, NextType, PTL DEF Spec

-----------------------------------------------------------------------------
(* An update with changes among the first n. *)
Published(u, n) == 1 <= u.first /\ u.first <= u.final /\ u.final <= n

(* The updates us and the one an AddUpdate holds back from the mutex begin
   after n. *)
LaterThan(n, us, held) ==
    /\ \A i \in DOMAIN us : n < us[i].first
    /\ held # <<>> /\ held[1] = "lock" => n < held[2].first

(* Updates are delivered in the order they were published in. *)
Ordered ==
    /\ \A i \in DOMAIN feed : Published(feed[i], version)
    /\ \A i, j \in DOMAIN feed : i < j => feed[i].final < feed[j].first
    /\ adding # <<>> =>
           /\ Published(adding[2], version)
           /\ \A i \in DOMAIN feed : adding[2].final < feed[i].first
    /\ \A i \in DOMAIN buffer :
           Published(buffer[i], version) /\ LaterThan(buffer[i].final, feed, adding)
    /\ \A f \in Fetchers : fetched[f] <= version

(* The levels show the changes a to final, and below those the snapshot. *)
ShowsFrom(a) ==
    \A l \in 0 .. Levels - 1 :
        committed[l] = IF LastChange(l, a, final) = 0 THEN LastChange(l, 1, base)
                                                      ELSE LastChange(l, a, final)

(* The snapshot alone, or the snapshot and a run of changes without a hole
   that begins within it or right after it, perhaps not beyond it yet. *)
Gapless ==
    ready =>
        \/ final = base /\ committed = BookAt(base)
        \/ /\ final <= version
           /\ LaterThan(final, feed, adding)
           /\ \E a \in 1 .. base + 1 : a <= final + 1 /\ ShowsFrom(a)

-----------------------------------------------------------------------------
(* An update that begins right after a version brings its book to the version
   it ends at. *)
LEMMA ApplyNext ==
    ASSUME NEW r \in Nat, NEW u \in Update, u.first = r + 1, u.first <= u.final
    PROVE  Apply(BookAt(r), u) = BookAt(u.final)
  <1>1. u.first \in Nat \ {0} /\ u.final \in Nat /\ r <= u.final
    BY DepthAssumption DEF Update, Versions
  <1>2. \A l \in 0 .. Levels - 1 :
            LastChange(l, 1, u.final) = IF LastChange(l, u.first, u.final) = 0 THEN LastChange(l, 1, r)
                                        ELSE LastChange(l, u.first, u.final)
    BY <1>1, LastChangeConcat
  <1> QED
    BY <1>2 DEF Apply, BookAt

(* When no buffered update is missing, the updates taken from the buffer bring
   the snapshot to the version reached, which is the snapshot's own or where a
   buffered update ends. *)
LEMMA PushedBook ==
    ASSUME buffer \in Seq(Update), NEW v \in Versions, Reach(v)[Len(buffer)] # -1,
           \A i \in DOMAIN buffer : 1 <= buffer[i].first /\ buffer[i].first <= buffer[i].final
    PROVE  /\ ApplyAll(BookAt(v), PushUpdates(v)) = BookAt(Reach(v)[Len(buffer)])
           /\ v <= Reach(v)[Len(buffer)]
           /\ \/ Reach(v)[Len(buffer)] = v
              \/ \E i \in DOMAIN buffer : Reach(v)[Len(buffer)] = buffer[i].final
  <1> DEFINE N == Len(buffer)
             R == Reach(v)
             P == Pushed(v)
             B(i) == ApplyAll(BookAt(v), P[i])
             Good(i) == /\ B(i) = BookAt(R[i])
                        /\ v <= R[i]
                        /\ R[i] = v \/ \E j \in DOMAIN buffer : R[i] = buffer[j].final
             S == {i \in 0 .. N : R[i] # -1 => Good(i)}
  <1>1. N \in Nat /\ DOMAIN buffer = 1 .. N /\ \A i \in 1 .. N : buffer[i] \in Update
    OBVIOUS
  <1>2. v \in Nat /\ Versions \subseteq Nat
    BY DepthAssumption DEF Versions
  <1>3. /\ R \in [0 .. N -> Versions \cup {-1}]
        /\ R[0] = v
        /\ \A i \in 1 .. N :
               R[i] = IF R[i - 1] = -1 \/ Missing(buffer[i], R[i - 1]) THEN -1
                      ELSE IF buffer[i].first < R[i - 1] + 1 THEN R[i - 1]
                      ELSE buffer[i].final
    BY ReachIs
  <1>4. /\ P \in [0 .. N -> Seq(Update)]
        /\ P[0] = <<>>
        /\ \A i \in 1 .. N : P[i] = IF i \in Used(v) THEN Append(P[i - 1], buffer[i]) ELSE P[i - 1]
        /\ PushUpdates(v) = P[N]
    BY PushedIs
  <1>5. \A i \in 1 .. N : i \in Used(v) <=> buffer[i].first = R[i - 1] + 1
    BY <1>1 DEF Used
  <1>6. BookAt(v) \in Book
    BY BookAtType
  <1>7. \A i \in 1 .. N : /\ buffer[i].first \in Nat /\ buffer[i].final \in Nat
                          /\ 1 <= buffer[i].first /\ buffer[i].first <= buffer[i].final
    BY <1>1, <1>2 DEF Update
  <1> HIDE DEF N, R, P
  <1>8. 0 \in S
    <2>1. B(0) = BookAt(R[0])
      BY <1>3, <1>4, <1>6, ApplyAllEmpty
    <2> QED
      BY <1>1, <1>2, <1>3, <2>1
  <1>9. ASSUME NEW k \in 0 .. N - 1, k \in S
        PROVE  k + 1 \in S
    <2> SUFFICES ASSUME R[k + 1] # -1
                 PROVE  Good(k + 1)
      BY <1>1
    <2> DEFINE i == k + 1
               u == buffer[i]
    <2>1. i \in 1 .. N /\ i - 1 = k /\ k \in 0 .. N
      BY <1>1
    <2>2. /\ R[k] # -1 /\ ~ Missing(u, R[k])
          /\ R[i] = IF u.first < R[k] + 1 THEN R[k] ELSE u.final
      BY <1>3, <2>1
    <2>3. R[k] \in Nat /\ Good(k)
      <3>1. R[k] \in Versions
        BY <1>3, <2>1, <2>2
      <3>2. Good(k)
        BY <1>9, <2>2
      <3> HIDE DEF Good
      <3> QED
        BY <1>2, <2>2, <3>1, <3>2
    <2>4. u.first <= R[k] + 1
      BY <1>7, <2>1, <2>2, <2>3 DEF Missing
    <2>5. CASE u.first < R[k] + 1
      <3>1. i \notin Used(v)
        BY <1>5, <1>7, <2>1, <2>3, <2>5
      <3>2. P[i] = P[k] /\ R[i] = R[k]
        BY <1>4, <2>1, <2>2, <2>5, <3>1
      <3> QED
        BY <2>3, <3>2
    <2>6. CASE u.first = R[k] + 1
      <3>1. i \in Used(v)
        BY <1>5, <2>1, <2>6
      <3>2. P[i] = Append(P[k], u) /\ R[i] = u.final
        <4>1. P[i] = Append(P[k], u)
          BY <1>4, <2>1, <3>1
        <4>2. ~(u.first < R[k] + 1)
          BY <2>3, <2>6
        <4> QED
          BY <2>2, <4>1, <4>2
      <3>3. P[k] \in Seq(Update) /\ u \in Update
        BY <1>1, <1>4, <2>1
      <3>4. B(i) = Apply(B(k), u)
        BY <1>6, <3>2, <3>3, ApplyAllAppend
      <3>5. Apply(BookAt(R[k]), u) = BookAt(u.final)
        BY <1>7, <2>1, <2>3, <2>6, <3>3, ApplyNext
      <3>6. v <= R[i]
        BY <1>2, <1>7, <2>1, <2>3, <2>6, <3>2
      <3> QED
        BY <1>1, <2>1, <2>3, <3>2, <3>4, <3>5, <3>6
    <2> QED
      BY <1>7, <2>1, <2>3, <2>4, <2>5, <2>6
  <1>10. N \in S
    <2> HIDE DEF S
    <2>1. 0 .. N \subseteq S
      BY <1>1, <1>8, <1>9, IntervalInduction
    <2> QED
      BY <1>1, <2>1
  <1> QED
    BY <1>4, <1>10 DEF N, R

LEMMA InitOrdered == Init => Ordered /\ Gapless
  BY DEF Init, Ordered, Gapless

(* Delivery keeps its order. *)
LEMMA NextOrdered == TypeOK /\ Ordered /\ [Next]_vars => Ordered'
  <1> SUFFICES ASSUME TypeOK, Ordered, [Next]_vars
               PROVE  Ordered'
    OBVIOUS
  <1> USE DEF exchangeVars, bufferVars, fetchVars
  <1>0. /\ version \in Nat /\ Versions \subseteq Nat
        /\ \A i \in DOMAIN feed : feed[i] \in Update
        /\ \A i \in DOMAIN buffer : buffer[i] \in Update
        /\ adding # <<>> => adding[2] \in Update
        /\ \A u \in Update : u.first \in Nat /\ u.final \in Nat
    <2>1. version \in Nat /\ Versions \subseteq Nat
      BY DepthAssumption DEF TypeOK, Versions
    <2>2. \A u \in Update : u.first \in Nat /\ u.final \in Nat
      BY <2>1 DEF Update
    <2>3. (\A i \in DOMAIN feed : feed[i] \in Update) /\ \A i \in DOMAIN buffer : buffer[i] \in Update
      BY DEF TypeOK
    <2>4. adding # <<>> => adding[2] \in Update
      BY DEF TypeOK
    <2> QED
      BY <2>1, <2>2, <2>3, <2>4
  <1>1. CASE UNCHANGED <<version, feed, adding, buffer, fetched>>
    BY <1>1 DEF Ordered, Published, LaterThan
  <1>2. ASSUME NEW width \in 1 .. MaxWidth, Publish(width)
        PROVE  Ordered'
    <2> DEFINE new == [first |-> version + 1, final |-> version + width]
    <2>1. /\ version' = version + width /\ feed' = Append(feed, new)
          /\ UNCHANGED <<buffer, adding, fetched>>
      BY <1>2 DEF Publish
    <2>2. new.first = version + 1 /\ new.final = version + width /\ width \in Nat /\ 1 <= width
      BY DepthAssumption
    <2> HIDE DEF new
    <2>3. /\ DOMAIN feed' = 1 .. Len(feed) + 1
          /\ \A i \in DOMAIN feed : feed'[i] = feed[i]
          /\ feed'[Len(feed) + 1] = new
          /\ DOMAIN feed = 1 .. Len(feed) /\ Len(feed) \in Nat
      BY <2>1 DEF TypeOK
    <2>4. \A u : u \in Update /\ Published(u, version) => Published(u, version') /\ u.final < new.first
      BY <1>0, <2>1, <2>2 DEF Published
    <2>5. Published(new, version')
      BY <1>0, <2>1, <2>2 DEF Published
    <2>6. \A i \in DOMAIN feed' : i \in DOMAIN feed \/ i = Len(feed) + 1
      BY <2>3
    <2>7. \A i \in DOMAIN feed' : Published(feed'[i], version')
      BY <1>0, <2>3, <2>4, <2>5, <2>6 DEF Ordered
    <2>8. \A i, j \in DOMAIN feed' : i < j => feed'[i].final < feed'[j].first
      BY <1>0, <2>3, <2>4, <2>6 DEF Ordered
    <2>9. adding' # <<>> => /\ Published(adding'[2], version')
                            /\ \A i \in DOMAIN feed' : adding'[2].final < feed'[i].first
      BY <1>0, <2>1, <2>3, <2>4, <2>6 DEF Ordered
    <2>10. \A i \in DOMAIN buffer' : Published(buffer'[i], version') /\ LaterThan(buffer'[i].final, feed', adding')
      BY <1>0, <2>1, <2>3, <2>4, <2>6 DEF Ordered, LaterThan
    <2>11. \A f \in Fetchers : fetched'[f] <= version'
      <3>1. \A f \in Fetchers : fetched[f] \in Nat /\ fetched[f] <= version
        BY <1>0 DEF Ordered, TypeOK
      <3> QED
        BY <1>0, <2>1, <2>2, <3>1
    <2> QED
      BY <2>7, <2>8, <2>9, <2>10, <2>11 DEF Ordered
  <1>3. CASE Reset
    BY <1>3 DEF Reset, Ordered, Published, LaterThan
  <1>4. CASE AddUpdate
    <2> DEFINE u == Head(feed)
               later == Tail(feed)
    <2>1. /\ adding = <<>> /\ feed # <<>> /\ adding' = <<"lock", u>> /\ feed' = later
          /\ UNCHANGED <<version, buffer, fetched>>
      BY <1>4 DEF AddUpdate
    <2>2. /\ u = feed[1] /\ 1 \in DOMAIN feed
          /\ \A i \in DOMAIN later : i + 1 \in DOMAIN feed /\ later[i] = feed[i + 1] /\ 1 < i + 1
          /\ \A i \in DOMAIN later : i \in Nat
      BY <2>1 DEF TypeOK
    <2> HIDE DEF u, later
    <2>3. \A i, j \in DOMAIN later : i < j => i + 1 < j + 1
      BY <2>2
    <2>4. adding'[1] = "lock" /\ adding'[2] = u
      BY <2>1
    <2>5. Published(u, version) /\ \A i \in DOMAIN later : Published(later[i], version) /\ u.final < later[i].first
      BY <2>2 DEF Ordered
    <2>6. \A i, j \in DOMAIN later : i < j => later[i].final < later[j].first
      BY <2>2, <2>3 DEF Ordered
    <2>7. \A i \in DOMAIN buffer : /\ Published(buffer[i], version) /\ buffer[i].final < u.first
                                   /\ \A j \in DOMAIN later : buffer[i].final < later[j].first
      BY <2>2 DEF Ordered, LaterThan
    <2>9. \A i \in DOMAIN buffer : LaterThan(buffer[i].final, feed', adding')
      BY <2>1, <2>4, <2>7 DEF LaterThan
    <2> QED
      BY <2>1, <2>4, <2>5, <2>6, <2>7, <2>9 DEF Ordered
  <1>5. ASSUME NEW u \in Update, BufferUpdate(u)
        PROVE  Ordered'
    <2>1. /\ adding = <<"lock", u>> /\ adding' = <<>> /\ buffer' = Append(buffer, u)
          /\ UNCHANGED <<version, feed, fetched>>
      BY <1>5 DEF BufferUpdate
    <2>2. adding[2] = u /\ adding # <<>> /\ adding[1] = "lock"
      BY <2>1
    <2>3. Published(u, version) /\ \A i \in DOMAIN feed : u.final < feed[i].first
      BY <2>2 DEF Ordered
    <2>4. \A i \in DOMAIN buffer' : \/ i \in DOMAIN buffer /\ buffer'[i] = buffer[i]
                                    \/ buffer'[i] = u
      BY <2>1 DEF TypeOK
    <2>6. \A i \in DOMAIN buffer' : Published(buffer'[i], version) /\ LaterThan(buffer'[i].final, feed', adding')
      BY <2>1, <2>3, <2>4 DEF Ordered, LaterThan
    <2> QED
      BY <2>1, <2>6 DEF Ordered
  <1>6. ASSUME NEW u \in Update, FoundMissing(u)
        PROVE  Ordered'
    <2>1. /\ adding = <<"lock", u>> /\ adding' = <<>> /\ buffer' = <<u>>
          /\ UNCHANGED <<version, feed, fetched>>
      BY <1>6 DEF FoundMissing
    <2>2. adding[2] = u /\ adding # <<>>
      BY <2>1
    <2>3. Published(u, version) /\ \A i \in DOMAIN feed : u.final < feed[i].first
      BY <2>2 DEF Ordered
    <2>4. \A i \in DOMAIN buffer' : buffer'[i] = u
      BY <2>1
    <2>6. \A i \in DOMAIN buffer' : Published(buffer'[i], version) /\ LaterThan(buffer'[i].final, feed', adding')
      BY <2>1, <2>3, <2>4 DEF LaterThan
    <2> QED
      BY <2>1, <2>6 DEF Ordered
  <1>7. ASSUME NEW u \in Update, Accept(u)
        PROVE  Ordered'
    <2>1. /\ adding = <<"lock", u>> /\ adding' = <<"push", u>>
          /\ UNCHANGED <<version, feed, buffer, fetched>>
      BY <1>7 DEF Accept
    <2>2. adding[2] = u /\ adding'[2] = u /\ adding # <<>> /\ adding'[1] = "push"
      BY <2>1
    <2> QED
      BY <2>1, <2>2 DEF Ordered, Published, LaterThan
  <1>8. ASSUME NEW u \in Update, Push(u)
        PROVE  Ordered'
    BY <1>8 DEF Push, Ordered, Published, LaterThan
  <1>9. ASSUME NEW f \in Fetchers, TryFetch(f)
        PROVE  Ordered'
    <2>1. CASE Fetch(f)
      <3>1. /\ fetched' = [fetched EXCEPT ![f] = version]
            /\ UNCHANGED <<version, feed, adding, buffer>>
        BY <2>1 DEF Fetch
      <3>2. \A g \in Fetchers : fetched'[g] <= version
        BY <1>0, <3>1 DEF Ordered, TypeOK
      <3> QED
        BY <3>1, <3>2 DEF Ordered, Published, LaterThan
    <2>2. CASE FetchRefused(f)
      BY <1>1, <2>2 DEF FetchRefused
    <2>3. CASE FetchAccepted(f)
      BY <2>3 DEF FetchAccepted, Ordered, Published, LaterThan
    <2>4. CASE Load(f)
      BY <1>1, <2>4 DEF Load
    <2>5. CASE EmitUpdate(f)
      BY <1>1, <2>5 DEF EmitUpdate
    <2>6. CASE FetchEnd(f)
      <3>1. /\ fetched' = [fetched EXCEPT ![f] = 0]
            /\ UNCHANGED <<version, feed, adding, buffer>>
        BY <2>6 DEF FetchEnd
      <3>2. \A g \in Fetchers : fetched'[g] <= version
        BY <1>0, <3>1 DEF Ordered, TypeOK
      <3> QED
        BY <3>1, <3>2 DEF Ordered, Published, LaterThan
    <2> QED
      BY <1>9, <2>1, <2>2, <2>3, <2>4, <2>5, <2>6 DEF TryFetch
  <1>10. CASE UNCHANGED vars
    BY <1>1, <1>10 DEF vars
  <1> QED
    BY <1>2, <1>3, <1>4, <1>5, <1>6, <1>7, <1>8, <1>9, <1>10 DEF Next, Stream

LEMMA NextGapless == TypeOK /\ Ordered /\ Gapless /\ [Next]_vars => Gapless'
  <1> SUFFICES ASSUME TypeOK, Ordered, Gapless, [Next]_vars
               PROVE  Gapless'
    OBVIOUS
  <1> USE DEF exchangeVars, bufferVars, fetchVars
  <1>0. /\ version \in Nat /\ final \in Nat /\ base \in Nat /\ Versions \subseteq Nat
        /\ \A u \in Update : u.first \in Nat /\ u.final \in Nat
    <2>1. version \in Nat /\ final \in Nat /\ base \in Nat /\ Versions \subseteq Nat
      BY DepthAssumption DEF TypeOK, Versions
    <2> QED
      BY <2>1 DEF Update
  <1>1. ASSUME UNCHANGED <<final, ready, base, committed>>, version <= version',
               version' \in Nat, LaterThan(final, feed, adding) /\ final <= version => LaterThan(final, feed', adding')
        PROVE  Gapless'
    BY <1>0, <1>1 DEF Gapless, ShowsFrom
  <1>2. ASSUME ~ready'
        PROVE  Gapless'
    BY <1>2 DEF Gapless
  <1>3. ASSUME NEW width \in 1 .. MaxWidth, Publish(width)
        PROVE  Gapless'
    <2> DEFINE new == [first |-> version + 1, final |-> version + width]
    <2>1. /\ version' = version + width /\ feed' = Append(feed, new)
          /\ UNCHANGED <<adding, final, ready, base, committed>>
      BY <1>3 DEF Publish
    <2>2. new.first = version + 1 /\ width \in Nat
      BY DepthAssumption
    <2> HIDE DEF new
    <2>3. \A i \in DOMAIN feed' : (i \in DOMAIN feed /\ feed'[i] = feed[i]) \/ feed'[i] = new
      BY <2>1 DEF TypeOK
    <2>4. LaterThan(final, feed, adding) /\ final <= version => LaterThan(final, feed', adding')
      BY <1>0, <2>1, <2>2, <2>3 DEF LaterThan
    <2> QED
      BY <1>0, <1>1, <2>1, <2>2, <2>4
  <1>4. CASE Reset
    BY <1>2, <1>4 DEF Reset, ResetSnapshot
  <1>5. CASE AddUpdate
    <2>1. /\ feed # <<>> /\ adding' = <<"lock", Head(feed)>> /\ feed' = Tail(feed)
          /\ UNCHANGED <<version, final, ready, base, committed>>
      BY <1>5 DEF AddUpdate
    <2>2. /\ Head(feed) = feed[1] /\ 1 \in DOMAIN feed
          /\ \A i \in DOMAIN Tail(feed) : i + 1 \in DOMAIN feed /\ Tail(feed)[i] = feed[i + 1]
      BY <2>1 DEF TypeOK
    <2>3. LaterThan(final, feed, adding) => LaterThan(final, feed', adding')
      BY <2>1, <2>2 DEF LaterThan
    <2> QED
      BY <1>0, <1>1, <2>1, <2>3
  <1>6. ASSUME NEW u \in Update, BufferUpdate(u)
        PROVE  Gapless'
    BY <1>2, <1>6 DEF BufferUpdate
  <1>7. ASSUME NEW u \in Update, FoundMissing(u)
        PROVE  Gapless'
    BY <1>2, <1>7 DEF FoundMissing, DropSnapshot, ResetSnapshot
  <1>8. ASSUME NEW u \in Update, Accept(u)
        PROVE  Gapless'
    <2>1. /\ adding = <<"lock", u>> /\ ready /\ ~Missing(u, final)
          /\ final' = u.final /\ committed' = Apply(committed, u) /\ adding' = <<"push", u>>
          /\ UNCHANGED <<version, feed, ready, base>>
      BY <1>8 DEF Accept
    <2>2. adding[1] = "lock" /\ adding[2] = u /\ adding # <<>> /\ adding'[1] = "push"
      BY <2>1
    <2>3. /\ u.first \in Nat \ {0} /\ u.final \in Nat /\ u.first <= u.final /\ u.final <= version
          /\ u.first <= final + 1
      BY <1>0, <2>1, <2>2 DEF Ordered, Published, Missing
    <2>4. LaterThan(u.final, feed', adding')
      BY <2>1, <2>2 DEF Ordered, LaterThan
    <2>5. \A l \in 0 .. Levels - 1 :
              committed'[l] = IF LastChange(l, u.first, u.final) = 0 THEN committed[l]
                              ELSE LastChange(l, u.first, u.final)
      BY <2>1 DEF Apply
    <2>6. SUFFICES \E a \in 1 .. base + 1 :
                       /\ a <= u.final + 1
                       /\ \A l \in 0 .. Levels - 1 :
                              committed'[l] = IF LastChange(l, a, u.final) = 0 THEN LastChange(l, 1, base)
                                              ELSE LastChange(l, a, u.final)
      BY <2>1, <2>3, <2>4 DEF Gapless, ShowsFrom
    <2>7. CASE final = base /\ committed = BookAt(base)
      <3>1. u.first \in 1 .. base + 1 /\ u.first <= u.final + 1
        BY <1>0, <2>3, <2>7
      <3>2. \A l \in 0 .. Levels - 1 : committed[l] = LastChange(l, 1, base)
        BY <2>7 DEF BookAt
      <3> QED
        BY <2>5, <3>1, <3>2
    <2>8. CASE /\ LaterThan(final, feed, adding)
               /\ \E a \in 1 .. base + 1 : a <= final + 1 /\ ShowsFrom(a)
      <3>1. PICK a \in 1 .. base + 1 : a <= final + 1 /\ ShowsFrom(a)
        BY <2>8
      <3>2. u.first = final + 1
        BY <1>0, <2>2, <2>3, <2>8 DEF LaterThan
      <3>3. a \in Nat \ {0} /\ a <= u.final + 1 /\ a <= u.first /\ final <= u.final
        BY <1>0, <2>3, <3>1, <3>2
      <3>4. \A l \in 0 .. Levels - 1 :
                LastChange(l, a, u.final) = IF LastChange(l, u.first, u.final) = 0 THEN LastChange(l, a, final)
                                            ELSE LastChange(l, u.first, u.final)
        BY <1>0, <2>3, <3>2, <3>3, LastChangeConcat
      <3>5. \A l \in 0 .. Levels - 1 :
                committed[l] = IF LastChange(l, a, final) = 0 THEN LastChange(l, 1, base)
                               ELSE LastChange(l, a, final)
        BY <3>1 DEF ShowsFrom
      <3>6. \A l \in 0 .. Levels - 1 :
                committed'[l] = IF LastChange(l, a, u.final) = 0 THEN LastChange(l, 1, base)
                                ELSE LastChange(l, a, u.final)
        BY <2>5, <3>4, <3>5
      <3> QED
        BY <3>1, <3>3, <3>6
    <2> QED
      BY <2>1, <2>7, <2>8 DEF Gapless
  <1>9. ASSUME NEW u \in Update, Push(u)
        PROVE  Gapless'
    <2>1. /\ adding' = <<>> /\ UNCHANGED <<version, feed, final, ready, base, committed>>
      BY <1>9 DEF Push
    <2>2. LaterThan(final, feed, adding) => LaterThan(final, feed', adding')
      BY <2>1 DEF LaterThan
    <2> QED
      BY <1>0, <1>1, <2>1, <2>2
  <1>10. ASSUME NEW f \in Fetchers, TryFetch(f)
         PROVE  Gapless'
    <2>1. CASE FetchAccepted(f)
      <3> DEFINE v == fetched[f]
                 reached == Reach(v)[Len(buffer)]
      <3>1. /\ buffer \in Seq(Update) /\ v \in Versions /\ v \in Nat
        BY <1>0 DEF TypeOK
      <3>2. /\ final' = reached /\ reached # -1 /\ base' = v
            /\ committed' = ApplyAll(BookAt(v), PushUpdates(v))
            /\ UNCHANGED <<version, feed, adding>>
        BY <2>1 DEF FetchAccepted, Refused
      <3>3. \A i \in DOMAIN buffer : /\ Published(buffer[i], version)
                                     /\ LaterThan(buffer[i].final, feed, adding)
        BY DEF Ordered
      <3>4. \A i \in DOMAIN buffer : 1 <= buffer[i].first /\ buffer[i].first <= buffer[i].final
        BY <3>3 DEF Published
      <3>5. /\ committed' = BookAt(reached) /\ v <= reached
            /\ reached = v \/ \E i \in DOMAIN buffer : reached = buffer[i].final
        <4> HIDE DEF v
        <4> QED
          BY <3>1, <3>2, <3>4, PushedBook
      <3> HIDE DEF v, reached
      <3>6. CASE reached = v
        BY <3>2, <3>5, <3>6 DEF Gapless
      <3>7. CASE \E i \in DOMAIN buffer : reached = buffer[i].final
        <4>1. PICK i \in DOMAIN buffer : reached = buffer[i].final
          BY <3>7
        <4>2. reached \in Nat /\ reached <= version /\ LaterThan(reached, feed, adding)
          <5>1. buffer[i] \in Update
            BY <3>1
          <5> QED
            BY <1>0, <3>3, <4>1, <5>1 DEF Published
        <4>3. \A l \in 0 .. Levels - 1 :
                  LastChange(l, 1, reached) = IF LastChange(l, v + 1, reached) = 0 THEN LastChange(l, 1, v)
                                              ELSE LastChange(l, v + 1, reached)
          BY <3>1, <3>5, <4>2, LastChangeConcat
        <4>4. \A l \in 0 .. Levels - 1 : committed'[l] = LastChange(l, 1, reached)
          BY <3>5 DEF BookAt
        <4>5. v + 1 \in 1 .. base' + 1 /\ v + 1 <= reached + 1
          BY <3>1, <3>2, <3>5, <4>2
        <4>6. \A l \in 0 .. Levels - 1 :
                  committed'[l] = IF LastChange(l, v + 1, final') = 0 THEN LastChange(l, 1, base')
                                  ELSE LastChange(l, v + 1, final')
          BY <3>2, <4>3, <4>4
        <4>7. final' <= version' /\ LaterThan(final', feed', adding') /\ v + 1 <= final' + 1
          BY <3>2, <4>2, <4>5
        <4> QED
          BY <4>5, <4>6, <4>7 DEF Gapless, ShowsFrom
      <3> QED
        BY <3>5, <3>6, <3>7
    <2>2. CASE FetchRefused(f)
      BY <1>2, <2>2 DEF FetchRefused, ResetSnapshot
    <2>3. CASE Fetch(f) \/ Load(f) \/ EmitUpdate(f) \/ FetchEnd(f)
      <3>1. UNCHANGED <<version, feed, adding, final, ready, base, committed>>
        BY <2>3 DEF Fetch, Load, EmitUpdate, FetchEnd
      <3> QED
        BY <1>0, <1>1, <3>1
    <2> QED
      BY <1>10, <2>1, <2>2, <2>3 DEF TryFetch
  <1>11. CASE UNCHANGED vars
    BY <1>0, <1>1, <1>11 DEF vars
  <1> QED
    BY <1>3, <1>4, <1>5, <1>6, <1>7, <1>8, <1>9, <1>10, <1>11 DEF Next, Stream

(* A run of changes that has caught up with the snapshot is the exchange's
   book. *)
LEMMA GaplessIsComplete == TypeOK /\ Gapless => NoSilentGap
  <1> SUFFICES ASSUME TypeOK, Gapless, ready, final >= base
               PROVE  committed = BookAt(final)
    BY DEF NoSilentGap
  <1>1. final \in Nat /\ base \in Nat
    BY DepthAssumption DEF TypeOK, Versions
  <1>2. CASE final = base /\ committed = BookAt(base)
    BY <1>2
  <1>3. CASE \E a \in 1 .. base + 1 : a <= final + 1 /\ ShowsFrom(a)
    <2>1. PICK a \in 1 .. base + 1 : a <= final + 1 /\ ShowsFrom(a)
      BY <1>3
    <2>2. \A l \in 0 .. Levels - 1 :
              LastChange(l, 1, final) = IF LastChange(l, a, final) = 0 THEN LastChange(l, 1, base)
                                        ELSE LastChange(l, a, final)
      BY <1>1, LastChangeConcat
    <2>3. \A l \in 0 .. Levels - 1 : committed[l] = BookAt(final)[l]
      BY <2>1, <2>2 DEF ShowsFrom, BookAt
    <2>4. DOMAIN committed = 0 .. Levels - 1 /\ committed = [l \in DOMAIN committed |-> committed[l]]
      BY DEF TypeOK, Book
    <2> QED
      BY <2>3, <2>4 DEF BookAt
  <1> QED
    BY <1>2, <1>3 DEF Gapless

(* Once the buffer has caught up with its snapshot, the snapshot and the updates
   it took since are the exchange's book at finalUpdateID: no change between
   them is missing, however often the connection broke and however many
   fetches overlapped (AddUpdate, fetchAndPush). *)
THEOREM NoSilentGapInvariant == Spec => []NoSilentGap
  <1>1. TypeOK /\ Ordered /\ Gapless /\ [Next]_vars => Ordered' /\ Gapless'
    BY NextOrdered, NextGapless
  <1> QED
    BY TypeCorrect, InitOrdered, <1>1, GaplessIsComplete, PTL DEF Spec

-----------------------------------------------------------------------------
(* The part of the type invariant the proof needs. *)
PcType == pc \in [Fetchers -> {"none", "fetch", "fetched", "load", "emit"}]

LEMMA NextPcType == PcType /\ [Next]_vars => PcType'
  <1> SUFFICES ASSUME PcType, [Next]_vars
               PROVE  PcType'
    OBVIOUS
  <1> USE DEF PcType, exchangeVars, bufferVars, fetchVars
  <1>1. CASE \E width \in 1 .. MaxWidth : Publish(width)
    BY <1>1 DEF Publish
  <1>2. CASE Reset
    BY <1>2 DEF Reset
  <1>3. CASE AddUpdate
    BY <1>3 DEF AddUpdate
  <1>4. ASSUME NEW u \in Update, BufferUpdate(u) \/ FoundMissing(u) \/ Accept(u) \/ Push(u)
        PROVE  PcType'
    BY <1>4 DEF BufferUpdate, DoOnce, FoundMissing, Accept, Push
  <1>5. ASSUME NEW f \in Fetchers, TryFetch(f)
        PROVE  PcType'
    BY <1>5 DEF TryFetch, Fetch, FetchRefused, FetchAccepted, Load, EmitUpdate, FetchEnd
  <1>6. CASE UNCHANGED vars
    BY <1>6 DEF vars
  <1> QED
    BY <1>1, <1>2, <1>3, <1>4, <1>5, <1>6 DEF Next, Stream

(* Consuming the reset signal re-arms the Reonce, spending the Reonce starts a
   fetch, and a fetch ends with a snapshot or with a new signal. *)
LEMMA NextFetchComing == PcType /\ FetchComing /\ [Next]_vars => FetchComing'
  <1> SUFFICES ASSUME PcType, FetchComing, [Next]_vars
               PROVE  FetchComing'
    OBVIOUS
  <1> USE DEF PcType, FetchComing, exchangeVars, bufferVars, fetchVars
  <1>1. CASE UNCHANGED <<ready, once, resetC, pc>>
    BY <1>1
  <1>2. CASE \E width \in 1 .. MaxWidth : Publish(width)
    BY <1>1, <1>2 DEF Publish
  <1>3. CASE Reset
    BY <1>3 DEF Reset, ResetSnapshot
  <1>4. CASE AddUpdate
    BY <1>4 DEF AddUpdate
  <1>5. ASSUME NEW u \in Update, BufferUpdate(u)
        PROVE  FetchComing'
    <2>1. CASE once
      BY <1>5, <2>1 DEF BufferUpdate, DoOnce
    <2>2. CASE ~once
      <3>1. PICK f \in Fetchers : pc' = [pc EXCEPT ![f] = "fetch"]
        BY <1>5, <2>2 DEF BufferUpdate, DoOnce
      <3>2. pc'[f] = "fetch"
        BY <3>1
      <3> QED
        BY <3>2
    <2> QED
      BY <2>1, <2>2
  <1>6. ASSUME NEW u \in Update, FoundMissing(u) \/ Accept(u) \/ Push(u)
        PROVE  FetchComing'
    BY <1>1, <1>6 DEF FoundMissing, DropSnapshot, ResetSnapshot, Accept, Push
  <1>7. ASSUME NEW f \in Fetchers, TryFetch(f)
        PROVE  FetchComing'
    <2>1. CASE Fetch(f)
      <3>1. pc[f] = "fetch" /\ pc' = [pc EXCEPT ![f] = "fetched"] /\ UNCHANGED <<ready, once, resetC>>
        BY <2>1 DEF Fetch
      <3>2. pc'[f] = "fetched"
        BY <3>1
      <3> QED
        BY <3>1, <3>2
    <2>2. CASE FetchRefused(f)
      BY <2>2 DEF FetchRefused, ResetSnapshot
    <2>3. CASE FetchAccepted(f)
      BY <2>3 DEF FetchAccepted
    <2>4. CASE EmitUpdate(f)
      BY <1>1, <2>4 DEF EmitUpdate
    <2>5. CASE Load(f) \/ FetchEnd(f)
      <3>1. /\ pc[f] \notin {"fetch", "fetched"}
            /\ \A g \in Fetchers \ {f} : pc'[g] = pc[g]
            /\ UNCHANGED <<ready, once, resetC>>
        BY <2>5 DEF Load, FetchEnd
      <3> QED
        BY <3>1
    <2> QED
      BY <1>7, <2>1, <2>2, <2>3, <2>4, <2>5 DEF TryFetch
  <1>8. CASE UNCHANGED vars
    BY <1>1, <1>8 DEF vars
  <1> QED
    BY <1>2, <1>3, <1>4, <1>5, <1>6, <1>7, <1>8 DEF Next, Stream

(* Whenever the Reonce is spent and there is no snapshot, a fetch is under way
   or a reset signal waits to re-arm it (AddUpdate and fetchAndPush). *)
THEOREM FetchAlwaysComing == Spec => []FetchComing
  <1>1. Init => PcType /\ FetchComing
    BY DEF Init, PcType, FetchComing
  <1>2. PcType /\ FetchComing /\ [Next]_vars => PcType' /\ FetchComing'
    BY NextPcType, NextFetchComing
  <1> QED
    BY <1>1, <1>2, PTL DEF Spec

=============================================================================
