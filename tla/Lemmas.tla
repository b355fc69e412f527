------------------------------- MODULE Lemmas -------------------------------
(***************************************************************************)
(* Lemmas about what the models are built from.                            *)
(*                                                                         *)
(* Induction, without a predicate as a parameter: the induction theorems   *)
(* of the library are about an operator P(_), which the provers cannot     *)
(* instantiate, so here the predicate is the set of the numbers (or of the *)
(* finite sets) it holds for.  What a recursive function computes, and     *)
(* what a sum over a finite set is, follow from these.                     *)
(*                                                                         *)
(* Red-black trees (RedBlackTree): a tree is described by the set of nodes *)
(* below each of its nodes and by its black heights.  Upsert and Delete    *)
(* keep such a description, whatever the tree: every pass of their loops   *)
(* does, and the loops end within as many passes as the tree has nodes.    *)
(* What is found, the order of the levels and the copies follow from it.   *)
(***************************************************************************)
EXTENDS Integers, Functions, FiniteSetTheorems, SequenceTheorems, WellFoundedInduction, TLAPS

-----------------------------------------------------------------------------
(* Every set of natural numbers that is not empty has a least one: the
   intervals from 0 to its elements are ordered by strict inclusion. *)
LEMMA LeastNat ==
    ASSUME NEW S \in SUBSET Nat, S # {}
    PROVE  \E n \in S : \A m \in S : n <= m
  <1> DEFINE R == StrictSubsetOrdering(Nat)
             F == FiniteSubsetsOf(Nat)
             T == {0 .. n : n \in S}
  <1>1. ASSUME NEW n \in S
        PROVE  0 .. n \in F
    <2>1. IsFiniteSet(0 .. n)
      BY FS_Interval
    <2>2. 0 .. n \in SUBSET Nat
      OBVIOUS
    <2> QED
      BY <2>1, <2>2 DEF FiniteSubsetsOf
  <1>2. IsWellFoundedOn(R, F)
    BY FS_StrictSubsetOrderingWellFounded
  <1>3. T \subseteq F /\ T # {}
    BY <1>1
  <1>4. PICK X \in T : \A Y \in T : <<Y, X>> \notin R
    <2> HIDE DEF R, F, T
    <2> QED
      BY <1>2, <1>3, WFMin
  <1>5. PICK n \in S : X = 0 .. n
    OBVIOUS
  <1>6. ASSUME NEW m \in S, m < n
        PROVE  FALSE
    <2>1. n \in 0 .. n /\ n \notin 0 .. m
      BY <1>6
    <2>2. <<0 .. m, 0 .. n>> \in R
      BY <1>6, <2>1 DEF StrictSubsetOrdering
    <2> QED
      BY <1>4, <1>5, <2>2
  <1> QED
    BY <1>6

(* What holds at 0 and passes from i to i + 1 holds up to n. *)
LEMMA IntervalInduction ==
    ASSUME NEW n \in Nat, NEW S, 0 \in S,
           \A i \in 0 .. n - 1 : i \in S => i + 1 \in S
    PROVE  0 .. n \subseteq S
  <1> DEFINE T == (0 .. n) \ S
  <1> SUFFICES ASSUME T # {}
               PROVE  FALSE
    OBVIOUS
  <1>1. PICK m \in T : \A k \in T : m <= k
    <2>1. T \in SUBSET Nat
      OBVIOUS
    <2> HIDE DEF T
    <2> QED
      BY <2>1, LeastNat
  <1>2. m # 0 /\ m - 1 \in 0 .. n - 1
    OBVIOUS
  <1>3. m - 1 \in S
    BY <1>1, <1>2
  <1>4. (m - 1) + 1 \in S
    BY <1>2, <1>3
  <1> QED
    BY <1>4

LEMMA NatSetInduction ==
    ASSUME NEW S, 0 \in S, \A i \in Nat : i \in S => i + 1 \in S
    PROVE  Nat \subseteq S
  <1> SUFFICES ASSUME NEW n \in Nat
               PROVE  n \in S
    OBVIOUS
  <1>1. 0 .. n \subseteq S
    BY IntervalInduction
  <1> QED
    BY <1>1

(* A set of natural numbers with a bound has a greatest one. *)
LEMMA GreatestNat ==
    ASSUME NEW b \in Nat, NEW S \in SUBSET (0 .. b), S # {}
    PROVE  \E n \in S : \A m \in S : m <= n
  <1> DEFINE T == {b - n : n \in S}
  <1>1. T \in SUBSET Nat /\ T # {}
    <2>1. ASSUME NEW n \in S
          PROVE  b - n \in Nat
      OBVIOUS
    <2> QED
      BY <2>1
  <1>2. PICK t \in T : \A u \in T : t <= u
    <2> HIDE DEF T
    <2> QED
      BY <1>1, LeastNat
  <1>3. PICK n \in S : t = b - n
    OBVIOUS
  <1>4. ASSUME NEW m \in S
        PROVE  m <= n
    <2>1. b - m \in T
      OBVIOUS
    <2> QED
      BY <1>2, <1>3, <2>1
  <1> QED
    BY <1>4

-----------------------------------------------------------------------------
(* g begins with c, and D[i] makes its value at i of the one before. *)
Recursion(g, n, V, c, D) ==
    /\ g \in [0 .. n -> V]
    /\ g[0] = c
    /\ \A i \in 1 .. n : g[i] = D[i][g[i - 1]]

(* A function defined by its value at 0 and by what it makes of one value for
   the next one exists. *)
LEMMA RecursionExists ==
    ASSUME NEW n \in Nat, NEW V, NEW c \in V, NEW D \in [1 .. n -> [V -> V]]
    PROVE  \E g : Recursion(g, n, V, c, D)
  <1> DEFINE Upto(k, g) == g[0] = c /\ \A i \in 1 .. k : g[i] = D[i][g[i - 1]]
             S == {k \in 0 .. n : \E g \in [0 .. n -> V] : Upto(k, g)}
  <1>1. 0 \in S
    <2>1. Upto(0, [i \in 0 .. n |-> c])
      OBVIOUS
    <2>2. [i \in 0 .. n |-> c] \in [0 .. n -> V]
      OBVIOUS
    <2> HIDE DEF Upto
    <2> QED
      BY <2>1, <2>2
  <1>2. ASSUME NEW k \in 0 .. n - 1, k \in S
        PROVE  k + 1 \in S
    <2>1. PICK g \in [0 .. n -> V] : Upto(k, g)
      BY <1>2
    <2> DEFINE h == [g EXCEPT ![k + 1] = D[k + 1][g[k]]]
    <2>2. h \in [0 .. n -> V]
      <3>1. k + 1 \in 1 .. n /\ g[k] \in V
        OBVIOUS
      <3>2. D[k + 1][g[k]] \in V
        BY <3>1
      <3> QED
        BY <3>2
    <2>3. h[0] = c
      BY <2>1
    <2>4. ASSUME NEW i \in 1 .. k + 1
          PROVE  h[i] = D[i][h[i - 1]]
      <3>1. h[i - 1] = g[i - 1]
        BY <2>4
      <3>2. CASE i = k + 1
        BY <3>1, <3>2
      <3>3. CASE i # k + 1
        <4>1. i \in 1 .. k /\ h[i] = g[i]
          BY <3>3
        <4> QED
          BY <4>1, <3>1, <2>1
      <3> QED
        BY <3>2, <3>3
    <2> HIDE DEF h
    <2>5. Upto(k + 1, h)
      BY <2>3, <2>4
    <2> HIDE DEF Upto
    <2> QED
      BY <2>2, <2>5
  <1>3. n \in S
    <2> HIDE DEF S
    <2>1. 0 .. n \subseteq S
      BY <1>1, <1>2, IntervalInduction
    <2> QED
      BY <2>1
  <1> QED
    BY <1>3 DEF Recursion

(* The values of a function on 0 .. n are in V when the first one is and each
   makes the next one be. *)
LEMMA ValuesInduction ==
    ASSUME NEW n \in Nat, NEW V, NEW f, f[0] \in V,
           \A i \in 1 .. n : f[i - 1] \in V => f[i] \in V
    PROVE  \A i \in 0 .. n : f[i] \in V
  <1> DEFINE S == {i \in 0 .. n : f[i] \in V}
  <1>1. 0 \in S
    OBVIOUS
  <1>2. ASSUME NEW i \in 0 .. n - 1, i \in S
        PROVE  i + 1 \in S
    <2>1. i + 1 \in 1 .. n /\ (i + 1) - 1 = i
      OBVIOUS
    <2> QED
      BY <1>2, <2>1
  <1> HIDE DEF S
  <1>3. 0 .. n \subseteq S
    BY <1>1, <1>2, IntervalInduction
  <1> QED
    BY <1>3 DEF S

-----------------------------------------------------------------------------
(* A property of finite sets that passes from the strict subsets of a set to
   the set holds for all subsets of a finite set. *)
LEMMA SubsetInduction ==
    ASSUME NEW S, IsFiniteSet(S), NEW Q,
           \A T \in SUBSET S : (\A U \in SUBSET T : U # T => U \in Q) => T \in Q
    PROVE  SUBSET S \subseteq Q
  <1> DEFINE R == StrictSubsetOrdering(S)
             F == FiniteSubsetsOf(S)
             B == (SUBSET S) \ Q
  <1> SUFFICES ASSUME B # {}
               PROVE  FALSE
    OBVIOUS
  <1>1. IsWellFoundedOn(R, F)
    BY FS_StrictSubsetOrderingWellFounded
  <1>2. B \subseteq F
    BY FS_Subset DEF FiniteSubsetsOf
  <1>3. PICK T \in B : \A U \in B : <<U, T>> \notin R
    <2> HIDE DEF R, F, B
    <2> QED
      BY <1>1, <1>2, WFMin
  <1>4. ASSUME NEW U \in SUBSET T, U # T
        PROVE  U \in Q
    <2>1. <<U, T>> \in R
      BY <1>4 DEF StrictSubsetOrdering
    <2> QED
      BY <1>3, <2>1
  <1> QED
    BY <1>4

(* What holds for the empty set, and when one element more is added, holds for
   a finite set. *)
LEMMA FiniteSetInduction ==
    ASSUME NEW S, IsFiniteSet(S), NEW Q, {} \in Q,
           \A T \in SUBSET S : \A x \in S \ T : T \in Q => T \cup {x} \in Q
    PROVE  S \in Q
  <1>1. ASSUME NEW T \in SUBSET S, \A U \in SUBSET T : U # T => U \in Q
        PROVE  T \in Q
    <2>1. CASE T = {}
      BY <2>1
    <2>2. CASE T # {}
      <3>1. PICK x : x \in T
        BY <2>2
      <3>2. T \ {x} \in Q /\ T \ {x} \in SUBSET S /\ x \in S \ (T \ {x})
        BY <1>1, <3>1
      <3>3. (T \ {x}) \cup {x} = T
        BY <3>1
      <3>4. (T \ {x}) \cup {x} \in Q
        BY <3>2
      <3> QED
        BY <3>3, <3>4
    <2> QED
      BY <2>1, <2>2
  <1>2. SUBSET S \subseteq Q
    BY <1>1, SubsetInduction
  <1> QED
    BY <1>2

-----------------------------------------------------------------------------
(* The sum of f[x] for x in a finite set, SumFunctionOnSet(f, S): the library
   adds the elements in the order CHOOSE picks them. *)

First(S) == CHOOSE x \in S : TRUE

LEMMA FirstIn ==
    ASSUME NEW S, S # {}
    PROVE  First(S) \in S
  BY DEF First

(* iter is the sum of each subset of S. *)
Sums(f, S, iter) ==
    iter = [T \in SUBSET S |-> IF T = {} THEN 0 ELSE f[First(T)] + iter[T \ {First(T)}]]

LEMMA SumsExist ==
    ASSUME NEW S, IsFiniteSet(S), NEW f, \A x \in S : f[x] \in Int
    PROVE  \E iter : Sums(f, S, iter)
  <1> DEFINE N == Cardinality(S)
             P == SUBSET S
             Step(g, T) == IF T = {} THEN 0 ELSE f[First(T)] + g[T \ {First(T)}]
             Upto(n, g) == \A T \in P : Cardinality(T) <= n => g[T] = Step(g, T)
             K == {n \in 0 .. N : \E g : g = [T \in P |-> g[T]] /\ Upto(n, g)}
  <1>1. N \in Nat /\ \A T \in P : IsFiniteSet(T) /\ Cardinality(T) \in Nat /\ Cardinality(T) <= N
    BY FS_CardinalityType, FS_Subset
  <1>2. \A T \in P : T # {} => /\ T \ {First(T)} \in P
                               /\ Cardinality(T \ {First(T)}) = Cardinality(T) - 1
    BY <1>1, FirstIn, FS_RemoveElement
  <1>3. \A T \in P : Cardinality(T) = 0 <=> T = {}
    BY <1>1, FS_EmptySet
  <1> HIDE DEF N, P
  <1>4. 0 \in K
    <2> DEFINE g == [T \in P |-> 0]
    <2>1. g = [T \in P |-> g[T]]
      OBVIOUS
    <2>2. Upto(0, g)
      BY <1>1, <1>3
    <2> HIDE DEF g, Upto
    <2> QED
      BY <1>1, <2>1, <2>2
  <1>5. ASSUME NEW n \in 0 .. N - 1, n \in K
        PROVE  n + 1 \in K
    <2>1. PICK g : g = [T \in P |-> g[T]] /\ Upto(n, g)
      BY <1>5
    <2> DEFINE h == [T \in P |-> IF Cardinality(T) <= n THEN g[T] ELSE Step(g, T)]
    <2>2. h = [T \in P |-> h[T]]
      OBVIOUS
    <2>3. ASSUME NEW T \in P, Cardinality(T) <= n + 1
          PROVE  h[T] = Step(h, T)
      <3>1. h[T] = Step(g, T)
        BY <2>1
      <3>2. T # {} => h[T \ {First(T)}] = g[T \ {First(T)}]
        BY <1>1, <1>2, <2>3
      <3> HIDE DEF h
      <3> QED
        BY <3>1, <3>2
    <2> HIDE DEF h
    <2>4. Upto(n + 1, h)
      BY <2>3
    <2> HIDE DEF Upto
    <2> QED
      BY <1>1, <2>2, <2>4
  <1>6. PICK g : g = [T \in P |-> g[T]] /\ Upto(N, g)
    <2> HIDE DEF K
    <2>1. 0 .. N \subseteq K
      BY <1>1, <1>4, <1>5, IntervalInduction
    <2> HIDE DEF Upto
    <2>2. N \in K
      BY <1>1, <2>1
    <2> QED
      BY <2>2 DEF K
  <1>7. g = [T \in P |-> Step(g, T)]
    BY <1>1, <1>6
  <1> QED
    BY <1>7 DEF Sums, P

LEMMA SumsDef ==
    ASSUME NEW S, IsFiniteSet(S), NEW f, \A x \in S : f[x] \in Int
    PROVE  \E iter : Sums(f, S, iter) /\ SumFunctionOnSet(f, S) = iter[S]
  <1> DEFINE chosen == CHOOSE iter : Sums(f, S, iter)
  <1>1. Sums(f, S, chosen)
    BY SumsExist
  <1>2. SumFunctionOnSet(f, S) = chosen[S]
    BY DEF SumFunctionOnSet, FoldFunctionOnSet, MapThenFoldSet, Sums, First
  <1> HIDE DEF chosen
  <1> QED
    BY <1>1, <1>2

(* Two functions of which the sums are taken agree on a set: so do the sums,
   whatever larger sets they are the sums of subsets of. *)
LEMMA SumsAgree ==
    ASSUME NEW S, IsFiniteSet(S), NEW V, NEW W, S \subseteq V, S \subseteq W,
           NEW f, NEW g, \A x \in S : f[x] = g[x],
           NEW a, NEW b, Sums(f, V, a), Sums(g, W, b)
    PROVE  a[S] = b[S]
  <1> DEFINE Q == {T \in SUBSET S : a[T] = b[T]}
  <1>1. ASSUME NEW T \in SUBSET S, \A U \in SUBSET T : U # T => U \in Q
        PROVE  T \in Q
    <2>1. T \in SUBSET V /\ T \in SUBSET W
      OBVIOUS
    <2>2. /\ a[T] = IF T = {} THEN 0 ELSE f[First(T)] + a[T \ {First(T)}]
          /\ b[T] = IF T = {} THEN 0 ELSE g[First(T)] + b[T \ {First(T)}]
      BY <2>1 DEF Sums
    <2>3. CASE T = {}
      BY <2>2, <2>3
    <2>4. CASE T # {}
      <3>1. First(T) \in T
        BY <2>4, FirstIn
      <3>2. T \ {First(T)} \in Q
        BY <1>1, <3>1
      <3>3. f[First(T)] = g[First(T)]
        BY <3>1
      <3> QED
        BY <2>2, <2>4, <3>2, <3>3
    <2> QED
      BY <2>3, <2>4
  <1>2. SUBSET S \subseteq Q
    <2> HIDE DEF Q
    <2> QED
      BY <1>1, SubsetInduction
  <1> QED
    BY <1>2

LEMMA SumAgree ==
    ASSUME NEW S, IsFiniteSet(S), NEW f, NEW g, \A x \in S : f[x] \in Int /\ f[x] = g[x]
    PROVE  SumFunctionOnSet(f, S) = SumFunctionOnSet(g, S)
  <1>1. PICK a : Sums(f, S, a) /\ SumFunctionOnSet(f, S) = a[S]
    BY SumsDef
  <1>2. PICK b : Sums(g, S, b) /\ SumFunctionOnSet(g, S) = b[S]
    BY SumsDef
  <1> QED
    BY <1>1, <1>2, SumsAgree

LEMMA SumEmpty ==
    ASSUME NEW f
    PROVE  SumFunctionOnSet(f, {}) = 0
  <1>1. PICK a : Sums(f, {}, a) /\ SumFunctionOnSet(f, {}) = a[{}]
    BY FS_EmptySet, SumsDef
  <1> QED
    BY <1>1 DEF Sums

LEMMA SumFirst ==
    ASSUME NEW S, IsFiniteSet(S), S # {}, NEW f, \A x \in S : f[x] \in Int
    PROVE  SumFunctionOnSet(f, S) = f[First(S)] + SumFunctionOnSet(f, S \ {First(S)})
  <1> DEFINE T == S \ {First(S)}
  <1>1. IsFiniteSet(T) /\ T \subseteq S
    BY FS_Subset
  <1>2. PICK a : Sums(f, S, a) /\ SumFunctionOnSet(f, S) = a[S]
    BY SumsDef
  <1>3. PICK b : Sums(f, T, b) /\ SumFunctionOnSet(f, T) = b[T]
    BY <1>1, SumsDef
  <1>4. a[S] = f[First(S)] + a[T]
    BY <1>2 DEF Sums
  <1>5. a[T] = b[T]
    <2> HIDE DEF T
    <2> QED
      BY <1>1, <1>2, <1>3, SumsAgree
  <1> QED
    BY <1>2, <1>3, <1>4, <1>5

LEMMA SumType ==
    ASSUME NEW S, IsFiniteSet(S), NEW f, \A x \in S : f[x] \in Int
    PROVE  SumFunctionOnSet(f, S) \in Int
  <1> DEFINE Q == {T \in SUBSET S : SumFunctionOnSet(f, T) \in Int}
  <1>1. ASSUME NEW T \in SUBSET S, \A U \in SUBSET T : U # T => U \in Q
        PROVE  T \in Q
    <2>1. IsFiniteSet(T)
      BY FS_Subset
    <2>2. CASE T = {}
      BY <2>2, SumEmpty
    <2>3. CASE T # {}
      <3>1. First(T) \in T
        BY <2>3, FirstIn
      <3>2. SumFunctionOnSet(f, T) = f[First(T)] + SumFunctionOnSet(f, T \ {First(T)})
        BY <2>1, <2>3, SumFirst
      <3>3. T \ {First(T)} \in Q
        BY <1>1, <3>1
      <3> QED
        BY <3>1, <3>2, <3>3
    <2> QED
      BY <2>2, <2>3
  <1>2. SUBSET S \subseteq Q
    <2> HIDE DEF Q
    <2> QED
      BY <1>1, SubsetInduction
  <1> QED
    BY <1>2

(* The order of the elements makes no difference. *)
LEMMA SumRemove ==
    ASSUME NEW S, IsFiniteSet(S), NEW f, \A x \in S : f[x] \in Int, NEW y \in S
    PROVE  SumFunctionOnSet(f, S) = f[y] + SumFunctionOnSet(f, S \ {y})
  <1> DEFINE Sum(T) == SumFunctionOnSet(f, T)
             Q == {T \in SUBSET S : \A x \in T : Sum(T) = f[x] + Sum(T \ {x})}
  <1>0. \A T \in SUBSET S : IsFiniteSet(T) /\ Sum(T) \in Int
    BY FS_Subset, SumType
  <1>1. \A T \in SUBSET S : T # {} => Sum(T) = f[First(T)] + Sum(T \ {First(T)})
    BY <1>0, SumFirst
  <1> HIDE DEF Sum
  <1>2. ASSUME NEW T \in SUBSET S, \A U \in SUBSET T : U # T => U \in Q
        PROVE  T \in Q
    <2> SUFFICES ASSUME NEW x \in T
                 PROVE  Sum(T) = f[x] + Sum(T \ {x})
      OBVIOUS
    <2> DEFINE c == First(T)
    <2>1. c \in T
      BY FirstIn
    <2>2. Sum(T) = f[c] + Sum(T \ {c})
      BY <1>1
    <2> HIDE DEF c
    <2>3. CASE x = c
      BY <2>2, <2>3
    <2>4. CASE x # c
      <3>1. Sum(T \ {c}) = f[x] + Sum((T \ {c}) \ {x})
        BY <1>2, <2>1, <2>4
      <3>2. Sum(T \ {x}) = f[c] + Sum((T \ {x}) \ {c})
        BY <1>2, <2>1, <2>4
      <3>3. (T \ {c}) \ {x} = (T \ {x}) \ {c}
        OBVIOUS
      <3>4. PICK rest \in Int : rest = Sum((T \ {x}) \ {c})
        BY <1>0
      <3>5. Sum(T \ {c}) = f[x] + rest /\ Sum(T \ {x}) = f[c] + rest
        BY <3>1, <3>2, <3>3, <3>4
      <3>6. f[c] \in Int /\ f[x] \in Int
        BY <2>1
      <3> QED
        BY <2>2, <3>5, <3>6
    <2> QED
      BY <2>3, <2>4
  <1>3. SUBSET S \subseteq Q
    <2> HIDE DEF Q
    <2> QED
      BY <1>2, SubsetInduction
  <1>4. S \in Q
    BY <1>3
  <1> QED
    BY <1>4 DEF Sum

LEMMA SumAdd ==
    ASSUME NEW S, IsFiniteSet(S), NEW y, y \notin S, NEW f, \A x \in S \cup {y} : f[x] \in Int
    PROVE  SumFunctionOnSet(f, S \cup {y}) = f[y] + SumFunctionOnSet(f, S)
  <1>1. IsFiniteSet(S \cup {y})
    BY FS_AddElement
  <1>2. (S \cup {y}) \ {y} = S
    OBVIOUS
  <1> QED
    BY <1>1, <1>2, SumRemove

(* The sum over two sets that have nothing in common. *)
LEMMA SumUnion ==
    ASSUME NEW S, IsFiniteSet(S), NEW T, IsFiniteSet(T), S \cap T = {},
           NEW f, \A x \in S \cup T : f[x] \in Int
    PROVE  SumFunctionOnSet(f, S \cup T) = SumFunctionOnSet(f, S) + SumFunctionOnSet(f, T)
  <1> DEFINE Q == {U \in SUBSET T : SumFunctionOnSet(f, S \cup U) =
                                        SumFunctionOnSet(f, S) + SumFunctionOnSet(f, U)}
  <1>1. SumFunctionOnSet(f, S) \in Int
    BY SumType
  <1>2. {} \in Q
    <2>1. S \cup {} = S
      OBVIOUS
    <2> QED
      BY <1>1, <2>1, SumEmpty
  <1>3. ASSUME NEW U \in SUBSET T, NEW x \in T \ U, U \in Q
        PROVE  U \cup {x} \in Q
    <2> DEFINE W == S \cup (U \cup {x})
    <2>1. IsFiniteSet(U) /\ IsFiniteSet(S \cup U)
      BY FS_Subset, FS_Union
    <2>2. SumFunctionOnSet(f, U \cup {x}) = f[x] + SumFunctionOnSet(f, U)
      BY <2>1, SumAdd
    <2>3. SumFunctionOnSet(f, W) = f[x] + SumFunctionOnSet(f, S \cup U)
      <3>1. SumFunctionOnSet(f, (S \cup U) \cup {x}) = f[x] + SumFunctionOnSet(f, S \cup U)
        BY <2>1, SumAdd
      <3>2. (S \cup U) \cup {x} = W
        OBVIOUS
      <3> HIDE DEF W
      <3> QED
        BY <3>1, <3>2
    <2>4. SumFunctionOnSet(f, U) \in Int
      BY <2>1, SumType
    <2>5. SumFunctionOnSet(f, S \cup U) = SumFunctionOnSet(f, S) + SumFunctionOnSet(f, U)
      BY <1>3
    <2>6. f[x] \in Int
      OBVIOUS
    <2>7. SumFunctionOnSet(f, W) = SumFunctionOnSet(f, S) + SumFunctionOnSet(f, U \cup {x})
      <3> HIDE DEF Q, W
      <3> QED
        BY <1>1, <2>2, <2>3, <2>4, <2>5, <2>6
    <2> QED
      BY <2>7
  <1>4. T \in Q
    <2> HIDE DEF Q
    <2> QED
      BY <1>2, <1>3, FiniteSetInduction
  <1> QED
    BY <1>4

(* A sum is not smaller when its summands are not. *)
LEMMA SumMonotone ==
    ASSUME NEW S, IsFiniteSet(S), NEW f, NEW g,
           \A x \in S : f[x] \in Int /\ g[x] \in Int /\ f[x] <= g[x]
    PROVE  SumFunctionOnSet(f, S) <= SumFunctionOnSet(g, S)
  <1> DEFINE Q == {T \in SUBSET S : SumFunctionOnSet(f, T) <= SumFunctionOnSet(g, T)}
  <1>1. {} \in Q
    BY SumEmpty
  <1>2. ASSUME NEW T \in SUBSET S, NEW x \in S \ T, T \in Q
        PROVE  T \cup {x} \in Q
    <2>1. IsFiniteSet(T)
      BY FS_Subset
    <2>2. /\ SumFunctionOnSet(f, T \cup {x}) = f[x] + SumFunctionOnSet(f, T)
          /\ SumFunctionOnSet(g, T \cup {x}) = g[x] + SumFunctionOnSet(g, T)
      BY <2>1, SumAdd
    <2>3. SumFunctionOnSet(f, T) \in Int /\ SumFunctionOnSet(g, T) \in Int
      BY <2>1, SumType
    <2>4. SumFunctionOnSet(f, T) <= SumFunctionOnSet(g, T)
      BY <1>2
    <2>5. SumFunctionOnSet(f, T \cup {x}) <= SumFunctionOnSet(g, T \cup {x})
      BY <2>2, <2>3, <2>4
    <2> QED
      BY <2>5
  <1>3. S \in Q
    <2> HIDE DEF Q
    <2> QED
      BY <1>1, <1>2, FiniteSetInduction
  <1> QED
    BY <1>3

(* One summand changes. *)
LEMMA SumChange ==
    ASSUME NEW S, IsFiniteSet(S), NEW f, NEW g, NEW y \in S, NEW d \in Int,
           \A x \in S : f[x] \in Int /\ (x # y => g[x] = f[x]), g[y] = f[y] + d
    PROVE  SumFunctionOnSet(g, S) = SumFunctionOnSet(f, S) + d
  <1> DEFINE T == S \ {y}
  <1>1. IsFiniteSet(T) /\ \A x \in T : f[x] \in Int /\ f[x] = g[x]
    BY FS_Subset
  <1>2. \A x \in S : g[x] \in Int
    OBVIOUS
  <1>3. SumFunctionOnSet(f, S) = f[y] + SumFunctionOnSet(f, T)
    BY SumRemove
  <1>4. SumFunctionOnSet(g, S) = g[y] + SumFunctionOnSet(g, T)
    BY <1>2, SumRemove
  <1> HIDE DEF T
  <1>5. SumFunctionOnSet(f, T) = SumFunctionOnSet(g, T) /\ SumFunctionOnSet(f, T) \in Int
    BY <1>1, SumAgree, SumType
  <1>6. f[y] \in Int
    OBVIOUS
  <1> QED
    BY <1>3, <1>4, <1>5, <1>6

(* The first of a sequence of summands leaves it. *)
LEMMA SumShift ==
    ASSUME NEW n \in Nat, NEW f, NEW g,
           \A k \in 1 .. n + 1 : f[k] \in Int, \A k \in 1 .. n : g[k] = f[k + 1]
    PROVE  SumFunctionOnSet(f, 1 .. n + 1) = f[1] + SumFunctionOnSet(g, 1 .. n)
  <1> DEFINE P == {k \in 0 .. n : SumFunctionOnSet(f, 1 .. k + 1) = f[1] + SumFunctionOnSet(g, 1 .. k)}
  <1>0. 1 \in 1 .. n + 1 /\ f[1] \in Int /\ \A k \in 1 .. n : g[k] \in Int
    OBVIOUS
  <1>1. 0 \in P
    <2>1. 1 .. 0 + 1 = {} \cup {1} /\ 1 .. 0 = {}
      OBVIOUS
    <2>2. SumFunctionOnSet(f, {} \cup {1}) = f[1] + SumFunctionOnSet(f, {})
      BY <1>0, FS_EmptySet, SumAdd
    <2>3. SumFunctionOnSet(f, {}) = 0 /\ SumFunctionOnSet(g, {}) = 0
      BY SumEmpty
    <2> QED
      BY <1>0, <2>1, <2>2, <2>3
  <1>2. ASSUME NEW k \in 0 .. n - 1, k \in P
        PROVE  k + 1 \in P
    <2> DEFINE S == 1 .. k + 1
               T == 1 .. k
    <2>1. 1 .. (k + 1) + 1 = S \cup {k + 2} /\ 1 .. k + 1 = T \cup {k + 1}
      OBVIOUS
    <2>2. IsFiniteSet(S) /\ IsFiniteSet(T) /\ k + 2 \notin S /\ k + 1 \notin T
      BY FS_Interval
    <2>3. (\A x \in S \cup {k + 2} : f[x] \in Int) /\ (\A x \in T \cup {k + 1} : g[x] \in Int)
      BY <1>0
    <2>4. k + 1 \in 1 .. n /\ (k + 1) + 1 = k + 2
      OBVIOUS
    <2>5. f[k + 2] = g[k + 1] /\ f[k + 2] \in Int
      BY <2>3, <2>4
    <2> HIDE DEF S, T
    <2>6. SumFunctionOnSet(f, S \cup {k + 2}) = f[k + 2] + SumFunctionOnSet(f, S)
      BY <2>2, <2>3, SumAdd
    <2>7. SumFunctionOnSet(g, T \cup {k + 1}) = g[k + 1] + SumFunctionOnSet(g, T)
      BY <2>2, <2>3, SumAdd
    <2>8. SumFunctionOnSet(f, S) = f[1] + SumFunctionOnSet(g, T)
      BY <1>2 DEF S, T
    <2>9. SumFunctionOnSet(g, T) \in Int
      BY <2>2, <2>3, SumType
    <2>10. SumFunctionOnSet(f, 1 .. (k + 1) + 1) = f[1] + SumFunctionOnSet(g, 1 .. k + 1)
      <3>1. SumFunctionOnSet(f, 1 .. (k + 1) + 1) = f[k + 2] + SumFunctionOnSet(f, S)
        BY <2>1, <2>6
      <3>2. SumFunctionOnSet(g, 1 .. k + 1) = g[k + 1] + SumFunctionOnSet(g, T)
        BY <2>1, <2>7
      <3> QED
        BY <1>0, <2>5, <2>8, <2>9, <3>1, <3>2
    <2> QED
      BY <2>10
  <1> HIDE DEF P
  <1>3. 0 .. n \subseteq P
    BY <1>1, <1>2, IntervalInduction
  <1> QED
    BY <1>3 DEF P

(* The sum over a set is that over a part of it and over the rest. *)
LEMMA SumSplit ==
    ASSUME NEW S, IsFiniteSet(S), NEW T \in SUBSET S, NEW f, \A x \in S : f[x] \in Int
    PROVE  SumFunctionOnSet(f, S) = SumFunctionOnSet(f, T) + SumFunctionOnSet(f, S \ T)
  <1> DEFINE U == S \ T
  <1>1. IsFiniteSet(T) /\ IsFiniteSet(U)
    BY FS_Subset
  <1>2. T \cap U = {} /\ T \cup U = S
    OBVIOUS
  <1> HIDE DEF U
  <1>3. SumFunctionOnSet(f, T \cup U) = SumFunctionOnSet(f, T) + SumFunctionOnSet(f, U)
    BY <1>1, <1>2, SumUnion
  <1> QED
    BY <1>2, <1>3 DEF U

(* Summands of zero, and of the other sign. *)
LEMMA SumZero ==
    ASSUME NEW S, IsFiniteSet(S), NEW f, \A x \in S : f[x] = 0
    PROVE  SumFunctionOnSet(f, S) = 0
  <1> DEFINE Q == {T \in SUBSET S : SumFunctionOnSet(f, T) = 0}
  <1>1. {} \in Q
    BY SumEmpty
  <1>2. ASSUME NEW T \in SUBSET S, NEW x \in S \ T, T \in Q
        PROVE  T \cup {x} \in Q
    <2>1. IsFiniteSet(T) /\ \A y \in S : f[y] \in Int
      BY FS_Subset
    <2>2. SumFunctionOnSet(f, T \cup {x}) = f[x] + SumFunctionOnSet(f, T)
      BY <2>1, SumAdd
    <2> QED
      BY <1>2, <2>2
  <1>3. S \in Q
    <2> HIDE DEF Q
    <2> QED
      BY <1>1, <1>2, FiniteSetInduction
  <1> QED
    BY <1>3

LEMMA SumNegated ==
    ASSUME NEW S, IsFiniteSet(S), NEW f, NEW g, \A x \in S : f[x] \in Int /\ g[x] = -f[x]
    PROVE  SumFunctionOnSet(g, S) = -SumFunctionOnSet(f, S)
  <1> DEFINE Q == {T \in SUBSET S : SumFunctionOnSet(g, T) = -SumFunctionOnSet(f, T)}
  <1>1. {} \in Q
    BY SumEmpty
  <1>2. ASSUME NEW T \in SUBSET S, NEW x \in S \ T, T \in Q
        PROVE  T \cup {x} \in Q
    <2>1. IsFiniteSet(T) /\ \A y \in S : g[y] \in Int
      BY FS_Subset
    <2>2. /\ SumFunctionOnSet(f, T \cup {x}) = f[x] + SumFunctionOnSet(f, T)
          /\ SumFunctionOnSet(g, T \cup {x}) = g[x] + SumFunctionOnSet(g, T)
      BY <2>1, SumAdd
    <2>3. SumFunctionOnSet(f, T) \in Int /\ SumFunctionOnSet(g, T) = -SumFunctionOnSet(f, T)
      BY <1>2, <2>1, SumType
    <2>4. f[x] \in Int /\ g[x] = -f[x]
      OBVIOUS
    <2>5. SumFunctionOnSet(g, T \cup {x}) = -SumFunctionOnSet(f, T \cup {x})
      BY <2>2, <2>3, <2>4
    <2> QED
      BY <2>5
  <1>3. S \in Q
    <2> HIDE DEF Q
    <2> QED
      BY <1>1, <1>2, FiniteSetInduction
  <1> QED
    BY <1>3

-----------------------------------------------------------------------------
(* The red-black tree of pkg/types/rbtree.go. *)
RB == INSTANCE RedBlackTree

(***************************************************************************)
(* The heap of nodes                                                       *)
(***************************************************************************)
Sides == {"left", "right"}

Keys(t) == DOMAIN t.node

(* Nodes that link to the nodes of N. *)
Nodes(N) == [red : BOOLEAN, left : N \cup {RB!Nil}, right : N \cup {RB!Nil}, parent : N \cup {RB!Nil}, value : Int]

Heap(t) ==
    LET N == DOMAIN t.node
    IN  /\ N \subseteq Nat \ {RB!Nil} /\ IsFiniteSet(N)
        /\ t \in [root : N \cup {RB!Nil}, node : [N -> Nodes(N)]]

Child(t, n, s) == t.node[n][s]

Parent(t, n) == t.node[n].parent

Volume(t, n) == t.node[n].value

(* As a number, which the heights add. *)
Black(t, n) == IF t.node[n].red THEN 0 ELSE 1

(* u is the heap t in which n has a colour, *)
Painted(t, u, n, c) ==
    /\ Heap(u) /\ Keys(u) = Keys(t) /\ u.root = t.root
    /\ \A m \in Keys(t) : /\ Black(u, m) = IF m = n THEN c ELSE Black(t, m)
                          /\ Parent(u, m) = Parent(t, m)
                          /\ Volume(u, m) = Volume(t, m)
    /\ \A m \in Keys(t), s \in Sides : Child(u, m, s) = Child(t, m, s)

(* or a parent, *)
Adopted(t, u, n, p) ==
    /\ Heap(u) /\ Keys(u) = Keys(t) /\ u.root = t.root
    /\ \A m \in Keys(t) : /\ Black(u, m) = Black(t, m)
                          /\ Parent(u, m) = IF m = n THEN p ELSE Parent(t, m)
                          /\ Volume(u, m) = Volume(t, m)
    /\ \A m \in Keys(t), s \in Sides : Child(u, m, s) = Child(t, m, s)

(* or a child, *)
Linked(t, u, n, d, c) ==
    /\ Heap(u) /\ Keys(u) = Keys(t) /\ u.root = t.root
    /\ \A m \in Keys(t) : /\ Black(u, m) = Black(t, m)
                          /\ Parent(u, m) = Parent(t, m)
                          /\ Volume(u, m) = Volume(t, m)
    /\ \A m \in Keys(t), s \in Sides : Child(u, m, s) = IF m = n /\ s = d THEN c ELSE Child(t, m, s)

(* or in which new hangs below p in the place of old, *)
Hung(t, u, p, old, new) ==
    /\ Heap(u) /\ Keys(u) = Keys(t) /\ u.root = IF p = RB!Nil THEN new ELSE t.root
    /\ \A m \in Keys(t) : /\ Black(u, m) = Black(t, m)
                          /\ Parent(u, m) = Parent(t, m)
                          /\ Volume(u, m) = Volume(t, m)
    /\ \A m \in Keys(t), s \in Sides :
          Child(u, m, s) = IF m = p /\ s = RB!SideOf(t, old, p) THEN new ELSE Child(t, m, s)

(* or in which y has risen above x, and inner has changed from y to x. *)
Rotated(t, u, x, d, y, inner, p) ==
    /\ Heap(u) /\ Keys(u) = Keys(t) /\ u.root = IF p = RB!Nil THEN y ELSE t.root
    /\ \A m \in Keys(t) : /\ Black(u, m) = Black(t, m)
                          /\ Volume(u, m) = Volume(t, m)
                          /\ Parent(u, m) = IF m = x THEN y ELSE IF m = y THEN p
                                            ELSE IF m = inner THEN x ELSE Parent(t, m)
    /\ \A m \in Keys(t), s \in Sides :
          Child(u, m, s) = IF m = x THEN IF s = d THEN Child(t, m, s) ELSE inner
                           ELSE IF m = y THEN IF s = d THEN x ELSE Child(t, m, s)
                           ELSE IF m = p /\ s = RB!SideOf(t, x, p) THEN y
                           ELSE Child(t, m, s)

LEMMA PaintIs ==
    ASSUME NEW t, Heap(t), NEW n \in Keys(t) \cup {RB!Nil}, NEW red \in BOOLEAN
    PROVE  Painted(t, RB!Paint(t, n, red), n, IF red THEN 0 ELSE 1)
  BY DEF Painted, RB!Paint, Heap, Nodes, Sides, Keys, Child, Parent, Volume, Black

LEMMA SetParentIs ==
    ASSUME NEW t, Heap(t), NEW n \in Keys(t) \cup {RB!Nil}, NEW p \in Keys(t) \cup {RB!Nil}
    PROVE  Adopted(t, RB!SetParent(t, n, p), n, p)
  BY DEF Adopted, RB!SetParent, Heap, Nodes, Sides, Keys, Child, Parent, Volume, Black

LEMMA SetChildIs ==
    ASSUME NEW t, Heap(t), NEW n \in Keys(t), NEW d \in Sides, NEW c \in Keys(t) \cup {RB!Nil}
    PROVE  Linked(t, RB!SetChild(t, n, d, c), n, d, c)
  BY DEF Linked, RB!SetChild, Heap, Nodes, Sides, Keys, Child, Parent, Volume, Black

LEMMA SideOfIs ==
    ASSUME NEW t, NEW n, NEW p
    PROVE  /\ RB!SideOf(t, n, p) \in Sides
           /\ RB!SideOf(t, n, p) = IF Child(t, p, "left") = n THEN "left" ELSE "right"
  BY DEF RB!SideOf, Sides, Child

LEMMA OtherIs ==
    ASSUME NEW s \in Sides
    PROVE  /\ RB!Other(s) \in Sides /\ RB!Other(s) # s /\ RB!Other(RB!Other(s)) = s
           /\ \A d \in Sides : d = s \/ d = RB!Other(s)
  BY DEF RB!Other, Sides

LEMMA HangIs ==
    ASSUME NEW t, Heap(t), NEW p \in Keys(t) \cup {RB!Nil}, NEW old, NEW new \in Keys(t) \cup {RB!Nil}
    PROVE  Hung(t, RB!Hang(t, p, old, new), p, old, new)
  <1>0. RB!Nil \notin Keys(t)
    BY DEF Heap, Keys
  <1>1. CASE p = RB!Nil
    <2>1. RB!Hang(t, p, old, new) = [t EXCEPT !.root = new]
      BY <1>1 DEF RB!Hang
    <2> QED
      BY <1>0, <1>1, <2>1 DEF Hung, Heap, Nodes, Keys, Child, Parent, Volume, Black
  <1>2. CASE p # RB!Nil
    <2>1. p \in Keys(t) /\ RB!SideOf(t, old, p) \in Sides
      BY <1>2, SideOfIs
    <2>2. Linked(t, RB!Hang(t, p, old, new), p, RB!SideOf(t, old, p), new)
      BY <1>2, <2>1, SetChildIs DEF RB!Hang
    <2> QED
      BY <1>2, <2>2 DEF Hung, Linked
  <1> QED
    BY <1>1, <1>2

LEMMA RotateIs ==
    ASSUME NEW t, Heap(t), NEW x \in Keys(t), NEW d \in Sides,
           NEW o, o = RB!Other(d),
           NEW y \in Keys(t), y = Child(t, x, o), y # x,
           NEW inner, inner = Child(t, y, d), inner \notin {x, y},
           NEW p, p = Parent(t, x), p \notin {x, y}
    PROVE  Rotated(t, RB!Rotate(t, x, d), x, d, y, inner, p)
  <1> DEFINE a == RB!SetChild(t, x, o, inner)
             b == RB!SetParent(a, inner, x)
             c == RB!Hang(b, p, x, y)
             e == RB!SetParent(c, y, p)
             f == RB!SetChild(e, y, d, x)
             u == RB!SetParent(f, x, y)
  <1>0. /\ inner \in Keys(t) \cup {RB!Nil} /\ p \in Keys(t) \cup {RB!Nil} /\ RB!Nil \notin Keys(t)
        /\ o \in Sides /\ o # d /\ \A s \in Sides : s = d \/ s = o
    BY OtherIs DEF Heap, Nodes, Child, Parent, Keys, Sides
  <1>1. RB!Rotate(t, x, d) = u
    BY DEF RB!Rotate, Child, Parent
  <1>2. Linked(t, a, x, o, inner)
    BY <1>0, SetChildIs
  <1> HIDE DEF a
  <1>3. Keys(a) = Keys(t) /\ Heap(a)
    BY <1>2 DEF Linked
  <1>4. Adopted(a, b, inner, x)
    BY <1>0, <1>3, SetParentIs
  <1> HIDE DEF b
  <1>5. Keys(b) = Keys(t) /\ Heap(b)
    BY <1>3, <1>4 DEF Adopted
  <1>6. Hung(b, c, p, x, y)
    BY <1>0, <1>5, HangIs
  <1> HIDE DEF c
  <1>7. Keys(c) = Keys(t) /\ Heap(c)
    BY <1>5, <1>6 DEF Hung
  <1>8. Adopted(c, e, y, p)
    BY <1>0, <1>7, SetParentIs
  <1> HIDE DEF e
  <1>9. Keys(e) = Keys(t) /\ Heap(e)
    BY <1>7, <1>8 DEF Adopted
  <1>10. Linked(e, f, y, d, x)
    BY <1>9, SetChildIs
  <1> HIDE DEF f
  <1>11. Keys(f) = Keys(t) /\ Heap(f)
    BY <1>9, <1>10 DEF Linked
  <1>12. Adopted(f, u, x, y)
    BY <1>11, SetParentIs
  <1> HIDE DEF u
  <1>13. p # RB!Nil => RB!SideOf(b, x, p) = RB!SideOf(t, x, p)
    BY <1>0, <1>2, <1>3, <1>4, Z3 DEF Adopted, Linked, RB!SideOf, Child, Sides
  <1>14. Heap(u) /\ Keys(u) = Keys(t) /\ u.root = IF p = RB!Nil THEN y ELSE t.root
    BY <1>2, <1>4, <1>6, <1>8, <1>10, <1>11, <1>12 DEF Linked, Adopted, Hung
  <1>15. ASSUME NEW m \in Keys(t)
         PROVE  /\ Black(u, m) = Black(t, m)
                /\ Volume(u, m) = Volume(t, m)
                /\ Parent(u, m) = IF m = x THEN y ELSE IF m = y THEN p ELSE IF m = inner THEN x ELSE Parent(t, m)
    BY <1>2, <1>3, <1>4, <1>5, <1>6, <1>7, <1>8, <1>9, <1>10, <1>11, <1>12, Z3 DEF Linked, Adopted, Hung
  <1>16. ASSUME NEW m \in Keys(t), NEW s \in Sides
         PROVE  Child(u, m, s) = IF m = x THEN IF s = d THEN Child(t, m, s) ELSE inner
                                 ELSE IF m = y THEN IF s = d THEN x ELSE Child(t, m, s)
                                 ELSE IF m = p /\ s = RB!SideOf(t, x, p) THEN y
                                 ELSE Child(t, m, s)
    BY <1>0, <1>2, <1>3, <1>4, <1>5, <1>6, <1>7, <1>8, <1>9, <1>10, <1>11, <1>12, <1>13, Z3
       DEF Linked, Adopted, Hung
  <1> QED
    BY <1>1, <1>14, <1>15, <1>16 DEF Rotated

-----------------------------------------------------------------------------
(***************************************************************************)
(* Search trees                                                            *)
(*                                                                         *)
(* The nodes N of a heap, sub[n] those at and below n.                     *)
(***************************************************************************)
(* m belongs on this side of n. *)
On(side, m, n) == IF side = "left" THEN m < n ELSE n < m

Tree(t, N, sub) ==
    /\ Heap(t) /\ N \subseteq Keys(t)
    /\ t.root \in N \cup {RB!Nil} /\ sub[t.root] = N /\ sub[RB!Nil] = {}
    /\ t.root # RB!Nil => Parent(t, t.root) = RB!Nil
    /\ \A n \in N \ {t.root} :
          Parent(t, n) \in N /\ \E s \in Sides : Child(t, Parent(t, n), s) = n
    /\ \A n \in N, s \in Sides :
          /\ Child(t, n, s) \in N \cup {RB!Nil}
          /\ Child(t, n, s) # RB!Nil => Parent(t, Child(t, n, s)) = n
          /\ \A m \in sub[Child(t, n, s)] : On(s, m, n)
    /\ \A n \in N : /\ sub[n] \subseteq N
                    /\ sub[n] = {n} \cup sub[Child(t, n, "left")] \cup sub[Child(t, n, "right")]

LEMMA TreeNats ==
    ASSUME NEW t, NEW N, NEW sub, Tree(t, N, sub)
    PROVE  N \subseteq Nat /\ IsFiniteSet(N) /\ RB!Nil \notin N /\ RB!Nil = 0
  <1>1. IsFiniteSet(Keys(t)) /\ N \subseteq Keys(t)
    BY DEF Tree, Heap, Keys
  <1>2. IsFiniteSet(N)
    BY <1>1, FS_Subset
  <1> QED
    BY <1>2 DEF Tree, Heap, Keys, RB!Nil

(* A child of n, and the nodes of the two. *)
LEMMA Below ==
    ASSUME NEW t, NEW N, NEW sub, Tree(t, N, sub), NEW n \in N, NEW s \in Sides
    PROVE  /\ Child(t, n, s) \in N \cup {RB!Nil} /\ sub[Child(t, n, s)] \subseteq sub[n]
           /\ n \in sub[n] /\ n \notin sub[Child(t, n, s)]
           /\ Child(t, n, s) # RB!Nil => /\ Child(t, n, s) \in sub[Child(t, n, s)]
                                           /\ On(s, Child(t, n, s), n) /\ Child(t, n, s) # n
           /\ sub[n] = {n} \cup sub[Child(t, n, s)] \cup sub[Child(t, n, RB!Other(s))]
           /\ sub[Child(t, n, s)] \cap sub[Child(t, n, RB!Other(s))] = {}
  <1>1. Child(t, n, s) \in N \cup {RB!Nil} /\ sub[Child(t, n, s)] \subseteq sub[n] /\ n \in sub[n]
    BY DEF Tree, Sides
  <1>2. \A m \in sub[Child(t, n, s)] : On(s, m, n)
    BY DEF Tree
  <1>3. n \in Nat /\ N \subseteq Nat /\ sub[n] \subseteq N
    BY TreeNats DEF Tree
  <1>4. n \notin sub[Child(t, n, s)]
    BY <1>2, <1>3 DEF On
  <1>5. Child(t, n, s) # RB!Nil => Child(t, n, s) \in sub[Child(t, n, s)]
    BY <1>1 DEF Tree
  <1>6. sub[n] = {n} \cup sub[Child(t, n, s)] \cup sub[Child(t, n, RB!Other(s))]
    BY DEF Tree, Sides, RB!Other
  <1>7. sub[Child(t, n, s)] \cap sub[Child(t, n, RB!Other(s))] = {}
    <2>1. \A m \in sub[Child(t, n, RB!Other(s))] : On(RB!Other(s), m, n)
      BY OtherIs DEF Tree
    <2>2. \A m \in N : ~(On(s, m, n) /\ On(RB!Other(s), m, n))
      <3>1. CASE s = "left"
        BY <1>3, <3>1 DEF On, RB!Other
      <3>2. CASE s = "right"
        BY <1>3, <3>2 DEF On, RB!Other
      <3> QED
        BY <3>1, <3>2 DEF Sides
    <2> QED
      BY <1>1, <1>2, <1>3, <2>1, <2>2
  <1> QED
    BY <1>1, <1>2, <1>4, <1>5, <1>6, <1>7

(* From the leaves up. *)
LEMMA UpInduction ==
    ASSUME NEW t, NEW N, NEW sub, Tree(t, N, sub), NEW Q,
           \A n \in N : (\A s \in Sides : Child(t, n, s) \in Q \cup {RB!Nil}) => n \in Q
    PROVE  N \subseteq Q
  <1> DEFINE R == {T \in SUBSET N : \A n \in N : sub[n] = T => n \in Q}
  <1>1. ASSUME NEW T \in SUBSET N, \A U \in SUBSET T : U # T => U \in R
        PROVE  T \in R
    <2> SUFFICES ASSUME NEW n \in N, sub[n] = T
                 PROVE  n \in Q
      OBVIOUS
    <2>1. ASSUME NEW s \in Sides, Child(t, n, s) # RB!Nil
          PROVE  Child(t, n, s) \in Q
      <3>1. /\ Child(t, n, s) \in N /\ sub[Child(t, n, s)] \in SUBSET T /\ sub[Child(t, n, s)] # T
        BY <2>1, Below
      <3> QED
        BY <1>1, <3>1
    <2> QED
      BY <2>1
  <1> HIDE DEF R
  <1>2. SUBSET N \subseteq R
    BY <1>1, TreeNats, SubsetInduction
  <1> QED
    BY <1>2 DEF R, Tree

(* From the root down. *)
LEMMA DownInduction ==
    ASSUME NEW t, NEW N, NEW sub, Tree(t, N, sub), NEW Q, t.root \in Q \cup {RB!Nil},
           \A n \in N, s \in Sides : n \in Q => Child(t, n, s) \in Q \cup {RB!Nil}
    PROVE  N \subseteq Q
  <1> DEFINE R == {n \in N : n \in Q => sub[n] \subseteq Q}
  <1>1. ASSUME NEW n \in N, \A s \in Sides : Child(t, n, s) \in R \cup {RB!Nil}
        PROVE  n \in R
    <2> SUFFICES ASSUME n \in Q
                 PROVE  sub[n] \subseteq Q
      OBVIOUS
    <2>1. \A s \in Sides : sub[Child(t, n, s)] \subseteq Q
      BY <1>1 DEF Tree
    <2> QED
      BY <2>1 DEF Tree, Sides
  <1> HIDE DEF R
  <1>2. N \subseteq R
    BY <1>1, UpInduction
  <1> QED
    BY <1>2 DEF R, Tree

(* What is below a node is below what is above it. *)
LEMMA Nested ==
    ASSUME NEW t, NEW N, NEW sub, Tree(t, N, sub), NEW d \in N, NEW c \in sub[d]
    PROVE  /\ c \in N /\ sub[c] \subseteq sub[d]
           /\ c # d => Parent(t, c) \in sub[d] /\ c # t.root
           /\ d \in sub[c] => c = d
  <1> DEFINE Q == {n \in N : \A k \in sub[n] : sub[k] \subseteq sub[n] /\ (k # n => Parent(t, k) \in sub[n])}
  <1>1. ASSUME NEW n \in N, \A s \in Sides : Child(t, n, s) \in Q \cup {RB!Nil}
        PROVE  n \in Q
    <2> SUFFICES ASSUME NEW k \in sub[n], k # n
                 PROVE  sub[k] \subseteq sub[n] /\ Parent(t, k) \in sub[n]
      OBVIOUS
    <2>1. PICK s \in Sides : k \in sub[Child(t, n, s)]
      BY DEF Tree, Sides
    <2>2. Child(t, n, s) # RB!Nil
      BY <2>1 DEF Tree
    <2>3. Child(t, n, s) \in Q
      BY <1>1, <2>2
    <2>4. CASE k = Child(t, n, s)
      <3>1. Parent(t, k) = n
        BY <2>2, <2>4 DEF Tree
      <3> QED
        BY <2>4, <3>1, Below
    <2>5. CASE k # Child(t, n, s)
      BY <2>1, <2>3, <2>5, Below
    <2> QED
      BY <2>4, <2>5
  <1>2. N \subseteq Q
    <2> HIDE DEF Q
    <2> QED
      BY <1>1, UpInduction
  <1>3. c \in N /\ sub[c] \subseteq sub[d] /\ (c # d => Parent(t, c) \in sub[d])
    BY <1>2 DEF Tree
  <1>4. ASSUME d \in sub[c], c # d
        PROVE  FALSE
    <2>1. PICK s \in Sides : c \in sub[Child(t, d, s)]
      BY <1>4 DEF Tree, Sides
    <2>2. Child(t, d, s) \in N
      BY <2>1 DEF Tree
    <2>3. sub[c] \subseteq sub[Child(t, d, s)]
      BY <1>2, <2>1, <2>2
    <2> QED
      BY <1>4, <2>3, Below
  <1>5. c # d => c # t.root
    <2>1. c = t.root => d \in sub[c]
      BY DEF Tree
    <2> QED
      BY <1>4, <2>1
  <1> QED
    BY <1>3, <1>4, <1>5

(* The nodes below a node are neighbours in the order. *)
LEMMA Convex ==
    ASSUME NEW t, NEW N, NEW sub, Tree(t, N, sub), NEW n \in N, NEW k \in N \ sub[n]
    PROVE  (\A m \in sub[n] : k < m) \/ (\A m \in sub[n] : m < k)
  <1> DEFINE Apart(i, S) == (\A m \in S : i < m) \/ (\A m \in S : m < i)
             Q == {i \in N : \A j \in N \ sub[i] : Apart(j, sub[i])}
  <1>1. t.root \in Q \cup {RB!Nil}
    BY DEF Tree
  <1>2. ASSUME NEW i \in N, NEW s \in Sides, i \in Q
        PROVE  Child(t, i, s) \in Q \cup {RB!Nil}
    <2> DEFINE c == Child(t, i, s)
    <2> SUFFICES ASSUME c # RB!Nil, NEW j \in N \ sub[c]
                 PROVE  Apart(j, sub[c])
      BY DEF Tree
    <2>1. sub[c] \subseteq sub[i] /\ sub[i] = {i} \cup sub[c] \cup sub[Child(t, i, RB!Other(s))]
      BY Below
    <2>2. CASE j \notin sub[i]
      BY <1>2, <2>1, <2>2
    <2>3. CASE j = i
      BY <2>3 DEF Tree, On
    <2>4. CASE j \in sub[Child(t, i, RB!Other(s))]
      <3>1. On(RB!Other(s), j, i) /\ \A m \in sub[c] : On(s, m, i)
        BY <2>4, OtherIs DEF Tree
      <3>2. i \in Nat /\ j \in Nat /\ sub[c] \subseteq Nat
        <4>1. N \subseteq Nat
          BY TreeNats
        <4>2. sub[i] \subseteq N
          BY DEF Tree
        <4> QED
          BY <2>1, <4>1, <4>2
      <3> QED
        BY <3>1, <3>2, OtherIs DEF On, Sides, RB!Other
    <2> QED
      BY <2>1, <2>2, <2>3, <2>4
  <1> HIDE DEF Q
  <1>3. N \subseteq Q
    BY <1>1, <1>2, DownInduction
  <1> QED
    BY <1>3 DEF Q

-----------------------------------------------------------------------------
(***************************************************************************)
(* Rotations                                                               *)
(***************************************************************************)
(* u is t with y risen to the place of x, which is its child on side d now. *)
Risen(t, u, N, x, d, y) ==
    LET o == RB!Other(d)
    IN  /\ Keys(u) = Keys(t) /\ u.root = IF t.root = x THEN y ELSE t.root
        /\ \A m \in Keys(t) : Black(u, m) = Black(t, m) /\ Volume(u, m) = Volume(t, m)
        /\ \A m \in N \ {x, y}, s \in Sides :
              Child(u, m, s) = IF Child(t, m, s) = x THEN y ELSE Child(t, m, s)
        /\ Child(u, x, d) = Child(t, x, d) /\ Child(u, x, o) = Child(t, y, d)
        /\ Child(u, y, d) = x /\ Child(u, y, o) = Child(t, y, o)
        /\ Parent(u, x) = y /\ Parent(u, y) = Parent(t, x)
        /\ \A m \in N \ {x, y, Child(t, y, d)} : Parent(u, m) = Parent(t, m)

Turned(t, N, sub, x, d, y) ==
    [m \in N \cup {RB!Nil} |-> IF m = y THEN sub[x]
                                 ELSE IF m = x THEN {x} \cup sub[Child(t, x, d)] \cup sub[Child(t, y, d)]
                                 ELSE sub[m]]

LEMMA RotateTree ==
    ASSUME NEW t, NEW N, NEW sub, Tree(t, N, sub), NEW x \in N, NEW d \in Sides,
           NEW y, y = Child(t, x, RB!Other(d)), y # RB!Nil
    PROVE  /\ y \in N /\ Risen(t, RB!Rotate(t, x, d), N, x, d, y)
           /\ Tree(RB!Rotate(t, x, d), N, Turned(t, N, sub, x, d, y))
  <1> DEFINE o == RB!Other(d)
             inner == Child(t, y, d)
             p == Parent(t, x)
             u == RB!Rotate(t, x, d)
             sub2 == Turned(t, N, sub, x, d, y)
  <1>1. /\ o \in Sides /\ o # d /\ RB!Other(o) = d /\ \A s \in Sides : s = d \/ s = o
        /\ "left" \in Sides /\ "right" \in Sides
    BY OtherIs DEF Sides
  <1>2. N \subseteq Nat /\ RB!Nil \notin N /\ N \subseteq Keys(t) /\ Heap(t)
    <2>1. N \subseteq Keys(t) /\ Heap(t)
      BY DEF Tree
    <2> QED
      BY <2>1, TreeNats
  <1>3. y \in N /\ y # x /\ y \in sub[y] /\ sub[y] \subseteq sub[x] /\ x \notin sub[y] /\ On(o, y, x)
        /\ sub[x] = {x} \cup sub[Child(t, x, d)] \cup sub[y] /\ Parent(t, y) = x
    <2>1. Child(t, x, o) \in N
      BY <1>1 DEF Tree
    <2>2. Parent(t, y) = x
      BY <1>1 DEF Tree
    <2> QED
      BY <1>1, <2>1, <2>2, Below
  <1>4. inner \in N \cup {RB!Nil} /\ inner # y /\ inner # x /\ sub[inner] \subseteq sub[y]
        /\ sub[y] = {y} \cup sub[inner] \cup sub[Child(t, y, o)]
    <2>1. inner \in N => inner \in sub[inner]
      BY DEF Tree
    <2> QED
      BY <1>2, <1>3, <2>1, Below
  <1>5. (x = t.root <=> p = RB!Nil) /\ p \in N \cup {RB!Nil} /\ p \notin {x, y}
    <2>1. x # t.root => p \in N /\ \E s \in Sides : Child(t, p, s) = x
      BY DEF Tree
    <2>2. x = t.root => p = RB!Nil
      BY <1>2 DEF Tree
    <2>3. x # t.root => p # x
      BY <2>1, Below
    <2>4. x # t.root => p # y
      <3> SUFFICES ASSUME x # t.root, p = y
                   PROVE  FALSE
        OBVIOUS
      <3>1. PICK s \in Sides : Child(t, y, s) = x
        BY <2>1
      <3>2. sub[x] \subseteq sub[y]
        BY <1>3, <3>1, Below
      <3>3. x \in sub[x]
        BY Below, <1>1
      <3> QED
        BY <1>3, <3>2, <3>3
    <2> QED
      BY <1>2, <1>3, <2>1, <2>2, <2>3, <2>4
  <1>6. Rotated(t, u, x, d, y, inner, p)
    <2> HIDE DEF u, inner, p
    <2>1. x \in Keys(t) /\ y \in Keys(t)
      BY <1>2, <1>3
    <2> QED
      BY <1>1, <1>2, <1>3, <1>4, <1>5, <2>1, RotateIs DEF inner, p, u
  <1>7. ASSUME p # RB!Nil, NEW m \in N, NEW s \in Sides
        PROVE  Child(t, m, s) = x <=> m = p /\ s = RB!SideOf(t, x, p)
    <2>1. PICK r \in Sides : Child(t, p, r) = x
      BY <1>5, <1>7 DEF Tree
    <2>2. Child(t, p, RB!Other(r)) # x
      <3>1. sub[Child(t, p, r)] \cap sub[Child(t, p, RB!Other(r))] = {}
        BY <1>5, <1>7, Below
      <3>2. x \in sub[x]
        BY Below, <1>1
      <3> QED
        BY <2>1, <3>1, <3>2
    <2>3. r = RB!SideOf(t, x, p)
      BY <2>1, <2>2 DEF RB!SideOf, Child, Sides, RB!Other
    <2>4. Child(t, m, s) = x => m = p
      BY <1>2 DEF Tree
    <2> QED
      BY <2>1, <2>2, <2>3, <2>4, OtherIs
  <1>8. ASSUME p = RB!Nil, NEW m \in N, NEW s \in Sides
        PROVE  Child(t, m, s) # x
    BY <1>2, <1>8 DEF Tree
  <1>9. Risen(t, u, N, x, d, y)
    <2> HIDE DEF u, inner, p, o
    <2>1. \A m \in N \ {x, y}, s \in Sides :
             Child(u, m, s) = IF Child(t, m, s) = x THEN y ELSE Child(t, m, s)
      BY <1>2, <1>6, <1>7, <1>8 DEF Rotated
    <2>2. /\ Keys(u) = Keys(t) /\ u.root = IF t.root = x THEN y ELSE t.root
          /\ \A m \in Keys(t) : Black(u, m) = Black(t, m) /\ Volume(u, m) = Volume(t, m)
      BY <1>5, <1>6 DEF Rotated
    <2>3. /\ Child(u, x, d) = Child(t, x, d) /\ Child(u, x, o) = inner
          /\ Child(u, y, d) = x /\ Child(u, y, o) = Child(t, y, o)
          /\ Parent(u, x) = y /\ Parent(u, y) = p
          /\ \A m \in N \ {x, y, inner} : Parent(u, m) = Parent(t, m)
      BY <1>1, <1>2, <1>3, <1>6 DEF Rotated
    <2> QED
      BY <2>1, <2>2, <2>3 DEF Risen, o, inner, p
  <1>10. inner # RB!Nil => Parent(u, inner) = x /\ Parent(t, inner) = y
    <2>1. \A m \in Keys(t) : m = inner /\ m \notin {x, y} => Parent(u, m) = x
      BY <1>6 DEF Rotated
    <2>2. inner # RB!Nil => Parent(t, inner) = y
      BY <1>3 DEF Tree
    <2> QED
      BY <1>2, <1>4, <2>1, <2>2
  <1>11. Heap(u)
    BY <1>6 DEF Rotated
  <1>12. /\ Keys(u) = Keys(t) /\ u.root = IF t.root = x THEN y ELSE t.root
         /\ \A m \in N \ {x, y}, s \in Sides :
               Child(u, m, s) = IF Child(t, m, s) = x THEN y ELSE Child(t, m, s)
         /\ Child(u, x, d) = Child(t, x, d) /\ Child(u, x, o) = inner
         /\ Child(u, y, d) = x /\ Child(u, y, o) = Child(t, y, o)
         /\ Parent(u, x) = y /\ Parent(u, y) = p
         /\ \A m \in N \ {x, y, inner} : Parent(u, m) = Parent(t, m)
    BY <1>9 DEF Risen
  <1>13. /\ sub2[y] = sub[x] /\ sub2[x] = {x} \cup sub[Child(t, x, d)] \cup sub[inner]
         /\ \A m \in N \cup {RB!Nil} : m \notin {x, y} => sub2[m] = sub[m]
    BY <1>2, <1>3 DEF Turned
  <1> HIDE DEF u, inner, p, o, sub2
  <1>14. u.root \in N \cup {RB!Nil} /\ sub2[u.root] = N /\ sub2[RB!Nil] = {}
         /\ (u.root # RB!Nil => Parent(u, u.root) = RB!Nil)
    <2>1. CASE t.root = x
      <3>1. u.root = y /\ Parent(u, y) = RB!Nil
        BY <1>5, <1>12, <2>1
      <3>2. sub2[y] = N /\ sub2[RB!Nil] = {}
        BY <1>2, <1>3, <1>13, <2>1 DEF Tree
      <3> QED
        BY <1>3, <3>1, <3>2
    <2>2. CASE t.root # x
      <3>1. t.root # y
        BY <1>2, <1>3 DEF Tree
      <3>2. t.root # RB!Nil => t.root # inner
        BY <1>2, <1>3, <1>10 DEF Tree
      <3> QED
        <4>1. u.root = t.root /\ t.root \in N \cup {RB!Nil} /\ (t.root # RB!Nil => Parent(t, t.root) = RB!Nil)
          BY <1>12, <2>2 DEF Tree
        <4>2. t.root # RB!Nil => Parent(u, t.root) = RB!Nil
          BY <1>12, <2>2, <3>1, <3>2, <4>1
        <4>3. sub2[t.root] = N /\ sub2[RB!Nil] = {}
          BY <1>2, <1>3, <1>13, <2>2, <3>1, <4>1 DEF Tree
        <4> QED
          BY <4>1, <4>2, <4>3
    <2> QED
      BY <2>1, <2>2
  <1>15. ASSUME NEW n \in N \ {u.root}
         PROVE  Parent(u, n) \in N /\ \E s \in Sides : Child(u, Parent(u, n), s) = n
    <2>1. CASE n = x
      BY <1>1, <1>3, <1>12, <2>1
    <2>2. CASE n = y
      <3>1. p # RB!Nil /\ p \in N
        BY <1>5, <1>12, <1>15, <2>2
      <3>2. Child(t, p, RB!SideOf(t, x, p)) = x
        BY <1>7, <3>1, SideOfIs
      <3> QED
        BY <1>5, <1>12, <2>2, <3>1, <3>2, SideOfIs
    <2>3. CASE n = inner
      BY <1>1, <1>2, <1>10, <1>12, <2>3
    <2>4. CASE n \notin {x, y, inner}
      <3>1. Parent(u, n) = Parent(t, n) /\ n # t.root
        BY <1>12, <1>15, <2>4
      <3>2. PICK s \in Sides : Parent(t, n) \in N /\ Child(t, Parent(t, n), s) = n
        BY <3>1 DEF Tree
      <3>3. Child(u, Parent(t, n), s) = n
        BY <1>1, <1>12, <2>4, <3>2 DEF inner, o
      <3> QED
        BY <3>1, <3>2, <3>3
    <2> QED
      BY <2>1, <2>2, <2>3, <2>4
  <1>16. ASSUME NEW n \in N, NEW s \in Sides
         PROVE  /\ Child(u, n, s) \in N \cup {RB!Nil}
                /\ Child(u, n, s) # RB!Nil => Parent(u, Child(u, n, s)) = n
                /\ \A m \in sub2[Child(u, n, s)] : On(s, m, n)
    <2>0. \A m \in N, r \in Sides :
             /\ Child(t, m, r) \in N \cup {RB!Nil}
             /\ Child(t, m, r) # RB!Nil => Parent(t, Child(t, m, r)) = m
             /\ \A k \in sub[Child(t, m, r)] : On(r, k, m)
      BY DEF Tree
    <2>1. CASE n = x /\ s = d
      <3>1. Child(t, x, d) # x /\ Child(t, x, d) # y
        <4>1. Child(t, x, d) = y => y \in sub[Child(t, x, d)] \cap sub[Child(t, x, RB!Other(d))]
          BY <1>3
        <4> QED
          BY <4>1, Below
      <3>2. Child(t, x, d) # RB!Nil => Child(t, x, d) # inner
        BY <1>3, <1>10, <2>0
      <3> QED
        BY <1>12, <1>13, <2>0, <2>1, <3>1, <3>2
    <2>2. CASE n = x /\ s = o
      <3>1. \A m \in sub[inner] : On(o, m, x)
        BY <1>1, <1>4, <2>0 DEF o
      <3> QED
        BY <1>4, <1>10, <1>12, <1>13, <2>2, <3>1
    <2>3. CASE n = y /\ s = d
      <3>1. On(d, x, y)
        BY <1>1, <1>2, <1>3 DEF On, Sides, o, RB!Other
      <3>2. \A m \in sub[Child(t, x, d)] : m \in Nat /\ On(d, m, x)
        BY <1>2, <1>3, <2>0 DEF Tree
      <3>3. \A m \in sub[Child(t, x, d)] : On(d, m, y)
        BY <1>2, <1>3, <3>1, <3>2 DEF On
      <3>4. \A m \in sub[inner] : On(d, m, y)
        BY <1>3, <2>0 DEF inner
      <3> QED
        BY <1>3, <1>12, <1>13, <2>3, <3>1, <3>3, <3>4
    <2>4. CASE n = y /\ s = o
      <3>1. Child(t, y, o) # x
        BY <1>1, <1>2, <1>3, <1>5, <2>0 DEF p
      <3>2. Child(t, y, o) # y
        BY <1>1, <1>3, Below
      <3>3. Child(t, y, o) # RB!Nil => Child(t, y, o) # inner
        <4>1. inner # RB!Nil => inner \in sub[inner] /\ sub[Child(t, y, d)] \cap sub[Child(t, y, RB!Other(d))] = {}
          BY <1>3, Below DEF inner
        <4> QED
          BY <4>1 DEF inner, o
      <3> QED
        BY <1>3, <1>12, <1>13, <2>0, <2>4, <3>1, <3>2, <3>3
    <2>5. CASE n \notin {x, y} /\ Child(t, n, s) = x
      <3>1. Child(u, n, s) = y /\ p = n
        BY <1>12, <2>0, <2>5, <1>2 DEF p
      <3> QED
        BY <1>3, <1>12, <1>13, <2>0, <2>5, <3>1
    <2>6. CASE n \notin {x, y} /\ Child(t, n, s) # x
      <3>1. Child(u, n, s) = Child(t, n, s)
        BY <1>12, <2>6
      <3>2. Child(t, n, s) # y /\ (Child(t, n, s) # RB!Nil => Child(t, n, s) # inner)
        BY <1>2, <1>3, <1>10, <2>0, <2>6
      <3> QED
        BY <1>12, <1>13, <2>0, <2>6, <3>1, <3>2
    <2> QED
      BY <1>1, <2>1, <2>2, <2>3, <2>4, <2>5, <2>6
  <1>17. ASSUME NEW n \in N
         PROVE  /\ sub2[n] \subseteq N
                /\ sub2[n] = {n} \cup sub2[Child(u, n, "left")] \cup sub2[Child(u, n, "right")]
    <2>1. CASE n = x
      <3>1. sub2[Child(u, x, d)] = sub[Child(t, x, d)]
        <4>1. Child(t, x, d) # x /\ Child(t, x, d) # y
          <5>1. Child(t, x, d) = y => y \in sub[Child(t, x, d)] \cap sub[Child(t, x, RB!Other(d))]
            BY <1>3
          <5> QED
            BY <5>1, Below
        <4> QED
          BY <1>12, <1>13, <4>1, Below
      <3>2. sub2[Child(u, x, o)] = sub[inner]
        BY <1>4, <1>12, <1>13
      <3>3. sub[x] \subseteq N
        BY DEF Tree
      <3>4. sub2[x] = {x} \cup sub2[Child(u, x, d)] \cup sub2[Child(u, x, o)]
        BY <1>13, <3>1, <3>2
      <3> QED
        BY <1>3, <1>4, <1>13, <2>1, <3>3, <3>4 DEF o, RB!Other, Sides
    <2>2. CASE n = y
      <3>1. sub2[Child(u, y, o)] = sub[Child(t, y, o)]
        <4>1. Child(t, y, o) # y
          BY <1>1, <1>3, Below
        <4>2. Child(t, y, o) # x
          BY <1>1, <1>3, <1>5 DEF Tree, p
        <4> QED
          BY <1>1, <1>3, <1>12, <1>13, <4>1, <4>2, Below
      <3>2. sub2[Child(u, y, d)] = {x} \cup sub[Child(t, x, d)] \cup sub[inner]
        BY <1>12, <1>13
      <3>3. sub2[y] = {y} \cup sub2[Child(u, y, d)] \cup sub2[Child(u, y, o)]
        BY <1>3, <1>4, <1>13, <3>1, <3>2
      <3>4. sub[x] \subseteq N
        BY DEF Tree
      <3> QED
        BY <1>13, <2>2, <3>3, <3>4 DEF o, RB!Other, Sides
    <2>3. CASE n \notin {x, y}
      <3>1. ASSUME NEW s \in Sides
            PROVE  sub2[Child(u, n, s)] = sub[Child(t, n, s)]
        <4>1. Child(t, n, s) # y
          BY <1>2, <1>3, <2>3 DEF Tree
        <4> QED
          <5>1. Child(t, n, s) \in N \cup {RB!Nil}
            BY DEF Tree
          <5>2. Child(t, n, s) = x => Child(u, n, s) = y
            BY <1>12, <2>3
          <5>3. Child(t, n, s) # x => Child(u, n, s) = Child(t, n, s)
            BY <1>12, <2>3
          <5> QED
            BY <1>13, <4>1, <5>1, <5>2, <5>3
      <3> QED
        BY <1>13, <2>3, <3>1 DEF Tree, Sides
    <2> QED
      BY <2>1, <2>2, <2>3
  <1>18. Tree(u, N, sub2)
    BY <1>2, <1>11, <1>12, <1>14, <1>15, <1>16, <1>17 DEF Tree
  <1> QED
    BY <1>3, <1>9, <1>18 DEF u, sub2

-----------------------------------------------------------------------------
(***************************************************************************)
(* Colours and heights                                                     *)
(***************************************************************************)
(* b[n] is the number of black nodes on each way from n down to a leaf. *)
Heights(N, b) == b \in [N \cup {RB!Nil} -> Nat] /\ b[RB!Nil] = 0

Level(t, b, n) ==
    \A s \in Sides : b[n] = b[Child(t, n, s)] + Black(t, n)

(* The child of n on this side is black, or no node. *)
BlackChild(t, n, s) == Child(t, n, s) # RB!Nil => Black(t, Child(t, n, s)) = 1

LEMMA IsRedIs ==
    ASSUME NEW t, NEW n
    PROVE  RB!IsRed(t, n) <=> n # RB!Nil /\ Black(t, n) = 0
  BY DEF RB!IsRed, Black

LEMMA BlackIs ==
    ASSUME NEW t, NEW n
    PROVE  Black(t, n) \in {0, 1}
  BY DEF Black

(* The links alone make a tree. *)
LEMMA SameTree ==
    ASSUME NEW t, NEW N, NEW sub, Tree(t, N, sub), NEW u, Heap(u), N \subseteq Keys(u), u.root = t.root,
           \A m \in N : Parent(u, m) = Parent(t, m),
           \A m \in N, s \in Sides : Child(u, m, s) = Child(t, m, s)
    PROVE  Tree(u, N, sub)
  <1>2. /\ Heap(u) /\ N \subseteq Keys(u) /\ u.root = t.root
        /\ \A m \in N : Parent(u, m) = Parent(t, m)
        /\ \A m \in N, s \in Sides : Child(u, m, s) = Child(t, m, s)
    OBVIOUS
  <1>3. /\ u.root \in N \cup {RB!Nil} /\ sub[u.root] = N /\ sub[RB!Nil] = {}
        /\ u.root # RB!Nil => Parent(u, u.root) = RB!Nil
    BY <1>2 DEF Tree
  <1>4. \A m \in N \ {u.root} : Parent(u, m) \in N /\ \E s \in Sides : Child(u, Parent(u, m), s) = m
    BY <1>2 DEF Tree
  <1>5. \A m \in N, s \in Sides :
           /\ Child(u, m, s) \in N \cup {RB!Nil}
           /\ Child(u, m, s) # RB!Nil => Parent(u, Child(u, m, s)) = m
           /\ \A k \in sub[Child(u, m, s)] : On(s, k, m)
    BY <1>2 DEF Tree
  <1>6. \A m \in N : /\ sub[m] \subseteq N
                     /\ sub[m] = {m} \cup sub[Child(u, m, "left")] \cup sub[Child(u, m, "right")]
    BY <1>2 DEF Tree, Sides
  <1> QED
    BY <1>2, <1>3, <1>4, <1>5, <1>6 DEF Tree

LEMMA PaintTree ==
    ASSUME NEW t, NEW N, NEW sub, Tree(t, N, sub), NEW n, NEW c, NEW u, Painted(t, u, n, c)
    PROVE  Tree(u, N, sub)
  <1>1. /\ Heap(u) /\ N \subseteq Keys(u) /\ u.root = t.root
        /\ \A m \in N : Parent(u, m) = Parent(t, m)
        /\ \A m \in N, s \in Sides : Child(u, m, s) = Child(t, m, s)
    BY DEF Painted, Tree
  <1> QED
    BY <1>1, SameTree

(* A node below the root, and its place below its parent. *)
LEMMA PlaceOf ==
    ASSUME NEW t, NEW N, NEW sub, Tree(t, N, sub), NEW n \in N, Parent(t, n) # RB!Nil,
           NEW p, p = Parent(t, n), NEW d, d = RB!SideOf(t, n, p)
    PROVE  /\ p \in N /\ p # n /\ n # t.root /\ d \in Sides /\ Child(t, p, d) = n
           /\ \A m \in N, s \in Sides : Child(t, m, s) = n => m = p /\ s = d
  <1>0. RB!Nil \notin N
    BY TreeNats
  <1>1. n # t.root /\ RB!Nil \notin N
    BY <1>0 DEF Tree
  <1>2. PICK r \in Sides : p \in N /\ Child(t, p, r) = n
    BY <1>1 DEF Tree
  <1>3. Child(t, p, RB!Other(r)) # n
    <2>1. sub[Child(t, p, r)] \cap sub[Child(t, p, RB!Other(r))] = {}
      BY <1>2, Below
    <2>2. n \in sub[n]
      BY DEF Tree
    <2> QED
      BY <1>2, <2>1, <2>2
  <1>4. r = d
    BY <1>2, <1>3 DEF RB!SideOf, Child, Sides, RB!Other
  <1>5. \A m \in N, s \in Sides : Child(t, m, s) = n => m = p
    BY <1>1 DEF Tree
  <1>6. p # n
    BY <1>2, Below
  <1> QED
    BY <1>1, <1>2, <1>3, <1>4, <1>5, <1>6, OtherIs

(* A child is no child of another node, nor on the other side. *)
LEMMA OneParent ==
    ASSUME NEW t, NEW N, NEW sub, Tree(t, N, sub), NEW n \in N, NEW s \in Sides,
           Child(t, n, s) # RB!Nil
    PROVE  /\ Child(t, n, s) \in N /\ Child(t, n, s) # n /\ Parent(t, Child(t, n, s)) = n /\ n # RB!Nil
           /\ RB!SideOf(t, Child(t, n, s), n) = s
           /\ \A m \in N, r \in Sides : Child(t, m, r) = Child(t, n, s) => m = n /\ r = s
  <1>0. RB!Nil \notin N
    BY TreeNats
  <1>1. Child(t, n, s) \in N /\ Parent(t, Child(t, n, s)) = n /\ n # RB!Nil
    BY <1>0 DEF Tree
  <1> QED
    BY <1>1, PlaceOf

SameVolumes(t, u) == Keys(u) = Keys(t) /\ \A m \in Keys(t) : Volume(u, m) = Volume(t, m)

-----------------------------------------------------------------------------
(***************************************************************************)
(* Upsert                                                                  *)
(***************************************************************************)
(* The loop that begins with a new node: only the red node n may have a red
   parent, or be the root. *)
Inserting(t, N, sub, b, n) ==
    /\ Tree(t, N, sub) /\ Heights(N, b) /\ \A m \in N : Level(t, b, m)
    /\ n \in N /\ Black(t, n) = 0
    /\ \A m \in N, s \in Sides : Black(t, m) = 0 /\ Child(t, m, s) # n => BlackChild(t, m, s)
    /\ t.root = n \/ Black(t, t.root) = 1

(* The loop ends. *)
Inserted(t, n) == ~RB!IsRed(t, Parent(t, n))

LEMMA RedParent ==
    ASSUME NEW t, NEW N, NEW sub, NEW b, NEW n, Inserting(t, N, sub, b, n), ~Inserted(t, n),
           NEW p, p = Parent(t, n), NEW g, g = Parent(t, p)
    PROVE  /\ n \in N /\ p \in N /\ g \in N /\ n # p /\ p # g /\ n # g
           /\ Black(t, n) = 0 /\ Black(t, p) = 0 /\ Black(t, g) = 1
           /\ Parent(t, n) # RB!Nil /\ Parent(t, p) # RB!Nil
  <1>1. /\ Tree(t, N, sub) /\ n \in N /\ Black(t, n) = 0 /\ p # RB!Nil /\ Black(t, p) = 0
    BY IsRedIs DEF Inserting, Inserted
  <1>2. p \in N /\ p # n /\ n # t.root
    BY <1>1, PlaceOf
  <1>3. p # t.root
    BY <1>1, <1>2 DEF Inserting
  <1>4. g \in N /\ \E s \in Sides : Child(t, g, s) = p
    BY <1>1, <1>2, <1>3 DEF Tree
  <1>5. PICK s \in Sides : Child(t, g, s) = p
    BY <1>4
  <1>6. g # p /\ g # RB!Nil /\ Parent(t, p) # RB!Nil
    BY <1>1, <1>4, <1>5, Below, TreeNats
  <1>7. Black(t, g) = 1
    BY <1>1, <1>2, <1>4, <1>5, BlackIs DEF Inserting, BlackChild
  <1>8. n # g
    <2> SUFFICES ASSUME n = g
                 PROVE  FALSE
      OBVIOUS
    <2> QED
      BY <1>1, <1>7
  <1> QED
    BY <1>1, <1>2, <1>4, <1>6, <1>7, <1>8

(* A red uncle: the two and the grandparent change their colours. *)
LEMMA RedUncle ==
    ASSUME NEW t, NEW N, NEW sub, NEW b, NEW n, Inserting(t, N, sub, b, n), ~Inserted(t, n),
           NEW p, p = Parent(t, n), NEW g, g = Parent(t, p), NEW d, d = RB!SideOf(t, p, g),
           NEW k, k = Child(t, g, RB!Other(d)), RB!IsRed(t, k),
           NEW t1, Painted(t, t1, p, 1), NEW t2, Painted(t1, t2, k, 1), NEW u, Painted(t2, u, g, 0)
    PROVE  /\ Inserting(u, N, sub, [b EXCEPT ![p] = @ + 1, ![k] = @ + 1], g)
           /\ sub[n] \subseteq sub[g] /\ sub[n] # sub[g] /\ SameVolumes(t, u)
  <1> DEFINE b2 == [b EXCEPT ![p] = @ + 1, ![k] = @ + 1]
  <1>1. /\ Tree(t, N, sub) /\ Heights(N, b) /\ \A m \in N : Level(t, b, m)
        /\ \A m \in N, s \in Sides : Black(t, m) = 0 /\ Child(t, m, s) # n => BlackChild(t, m, s)
        /\ t.root = n \/ Black(t, t.root) = 1
    BY DEF Inserting
  <1>2. /\ n \in N /\ p \in N /\ g \in N /\ n # p /\ p # g /\ n # g
        /\ Black(t, n) = 0 /\ Black(t, p) = 0 /\ Black(t, g) = 1
        /\ Parent(t, n) # RB!Nil /\ Parent(t, p) # RB!Nil
    BY RedParent
  <1>3. /\ d \in Sides /\ RB!Other(d) \in Sides /\ RB!Other(d) # d /\ Child(t, g, d) = p
        /\ \A m \in N, s \in Sides : Child(t, m, s) = p => m = g /\ s = d
        /\ \A s \in Sides : s = d \/ s = RB!Other(d)
    BY <1>1, <1>2, PlaceOf, OtherIs
  <1>4. k # RB!Nil /\ Black(t, k) = 0
    BY IsRedIs
  <1>5. /\ k \in N /\ k # g /\ Parent(t, k) = g
        /\ \A m \in N, s \in Sides : Child(t, m, s) = k => m = g /\ s = RB!Other(d)
    BY <1>1, <1>2, <1>3, <1>4, OneParent
  <1>6. k # p /\ k # n
    BY <1>2, <1>3, <1>5
  <1>9. Tree(u, N, sub)
    BY <1>1, PaintTree
  <1>10. /\ u.root = t.root /\ Keys(u) = Keys(t)
         /\ \A m \in Keys(t) :
               Black(u, m) = IF m = g THEN 0 ELSE IF m = k THEN 1 ELSE IF m = p THEN 1 ELSE Black(t, m)
         /\ \A m \in Keys(t) : Volume(u, m) = Volume(t, m)
         /\ \A m \in Keys(t), s \in Sides : Child(u, m, s) = Child(t, m, s)
    <2>1. /\ t1.root = t.root /\ Keys(t1) = Keys(t)
          /\ \A m \in Keys(t) : Black(t1, m) = (IF m = p THEN 1 ELSE Black(t, m)) /\ Volume(t1, m) = Volume(t, m)
          /\ \A m \in Keys(t), s \in Sides : Child(t1, m, s) = Child(t, m, s)
      BY DEF Painted
    <2>2. /\ t2.root = t1.root /\ Keys(t2) = Keys(t1)
          /\ \A m \in Keys(t1) : Black(t2, m) = (IF m = k THEN 1 ELSE Black(t1, m)) /\ Volume(t2, m) = Volume(t1, m)
          /\ \A m \in Keys(t1), s \in Sides : Child(t2, m, s) = Child(t1, m, s)
      BY DEF Painted
    <2>3. /\ u.root = t2.root /\ Keys(u) = Keys(t2)
          /\ \A m \in Keys(t2) : Black(u, m) = (IF m = g THEN 0 ELSE Black(t2, m)) /\ Volume(u, m) = Volume(t2, m)
          /\ \A m \in Keys(t2), s \in Sides : Child(u, m, s) = Child(t2, m, s)
      BY DEF Painted
    <2> QED
      BY <2>1, <2>2, <2>3
  <1>11. RB!Nil \notin N
    BY <1>1, TreeNats
  <1>19. /\ Black(u, g) = 0 /\ Black(u, p) = 1 /\ Black(u, k) = 1
         /\ \A m \in N : m \notin {g, p, k} => Black(u, m) = Black(t, m)
         /\ \A m \in N, s \in Sides : Child(u, m, s) = Child(t, m, s)
    <2>1. N \subseteq Keys(t)
      BY <1>1 DEF Tree
    <2> QED
      BY <1>2, <1>5, <1>6, <1>10, <2>1
  <1>12. /\ b2[p] = b[p] + 1 /\ b2[k] = b[k] + 1 /\ b2[RB!Nil] = 0
         /\ \A m \in N \cup {RB!Nil} : b[m] \in Nat /\ (m \notin {p, k} => b2[m] = b[m])
         /\ Heights(N, b2)
    BY <1>1, <1>2, <1>5, <1>6, <1>11 DEF Heights
  <1> HIDE DEF b2
  <1>13. ASSUME NEW m \in N
         PROVE  Level(u, b2, m)
    <2> SUFFICES ASSUME NEW s \in Sides
                 PROVE  b2[m] = b2[Child(t, m, s)] + Black(u, m)
      BY <1>19 DEF Level
    <2>0. Child(t, m, s) \in N \cup {RB!Nil} /\ b[m] = b[Child(t, m, s)] + Black(t, m)
      BY <1>1 DEF Tree, Level
    <2>1. CASE m = g
      <3>1. Child(t, m, s) \in {p, k} /\ b2[Child(t, m, s)] = b[Child(t, m, s)] + 1
        BY <1>3, <1>12, <2>1
      <3> QED
        BY <1>2, <1>5, <1>12, <1>19, <2>0, <2>1, <3>1
    <2>2. CASE m # g
      <3>1. Child(t, m, s) \notin {p, k}
        BY <1>3, <1>5, <2>2
      <3> QED
        <4>1. b2[Child(t, m, s)] = b[Child(t, m, s)]
          BY <1>12, <2>0, <3>1
        <4>2. CASE m \in {p, k}
          BY <1>2, <1>4, <1>12, <1>19, <2>0, <2>2, <4>1, <4>2
        <4>3. CASE m \notin {p, k}
          BY <1>12, <1>19, <2>0, <2>2, <4>1, <4>3
        <4> QED
          BY <4>2, <4>3
    <2> QED
      BY <2>1, <2>2
  <1>14. ASSUME NEW m \in N, NEW s \in Sides, Black(u, m) = 0, Child(u, m, s) # g
         PROVE  BlackChild(u, m, s)
    <2>0. Child(u, m, s) = Child(t, m, s) /\ Child(t, m, s) \in N \cup {RB!Nil}
      BY <1>1, <1>19 DEF Tree
    <2>1. CASE m = g
      <3>1. Child(t, m, s) \in {p, k}
        BY <1>3, <2>1
      <3> QED
        BY <1>2, <1>5, <1>19, <2>0, <3>1 DEF BlackChild
    <2>2. CASE m # g
      <3>1. Black(t, m) = 0 /\ m # p
        BY <1>14, <1>19, <2>2
      <3>2. Child(t, m, s) # n
        BY <1>1, <1>11, <3>1, <1>2 DEF Tree
      <3>3. BlackChild(t, m, s)
        BY <1>1, <3>1, <3>2
      <3> QED
        BY <1>14, <1>19, <2>0, <3>3 DEF BlackChild
    <2> QED
      BY <2>1, <2>2
  <1>15. u.root = g \/ Black(u, u.root) = 1
    <2>1. t.root \in N /\ t.root # n
      BY <1>1, <1>2, <1>11, PlaceOf DEF Tree
    <2> QED
      BY <1>1, <1>10, <1>19, <2>1
  <1>16. Black(u, g) = 0
    BY <1>2, <1>19
  <1>17. Inserting(u, N, sub, b2, g)
    BY <1>2, <1>9, <1>12, <1>13, <1>14, <1>15, <1>16 DEF Inserting
  <1>18. sub[n] \subseteq sub[p] /\ sub[p] \subseteq sub[g] /\ g \notin sub[p] /\ g \in sub[g]
    <2>1. Child(t, p, RB!SideOf(t, n, p)) = n /\ RB!SideOf(t, n, p) \in Sides
      BY <1>1, <1>2, PlaceOf
    <2> QED
      BY <1>1, <1>2, <1>3, <2>1, Below
  <1> QED
    BY <1>10, <1>17, <1>18 DEF b2, SameVolumes

(* A red node on the inner side rises above its parent first. *)
TurnedOut(t, u, N, sub, b, n, p, g, d) ==
    /\ Inserting(u, N, sub, b, p) /\ ~Inserted(u, p)
    /\ Parent(u, p) = n /\ Parent(u, n) = g /\ RB!SideOf(u, n, g) = d /\ RB!SideOf(u, p, n) = d
    /\ Child(u, g, RB!Other(d)) = Child(t, g, RB!Other(d))
    /\ SameVolumes(t, u) /\ \A m \in N : Black(u, m) = Black(t, m)

LEMMA InnerTurn ==
    ASSUME NEW t, NEW N, NEW sub, NEW b, NEW n, Inserting(t, N, sub, b, n), ~Inserted(t, n),
           NEW p, p = Parent(t, n), NEW g, g = Parent(t, p), NEW d, d = RB!SideOf(t, p, g),
           d # RB!SideOf(t, n, p), NEW u, u = RB!Rotate(t, p, d)
    PROVE  TurnedOut(t, u, N, Turned(t, N, sub, p, d, n), b, n, p, g, d)
  <1> DEFINE sub2 == Turned(t, N, sub, p, d, n)
             o == RB!Other(d)
  <1>1. /\ Tree(t, N, sub) /\ Heights(N, b) /\ \A m \in N : Level(t, b, m)
        /\ \A m \in N, s \in Sides : Black(t, m) = 0 /\ Child(t, m, s) # n => BlackChild(t, m, s)
        /\ t.root = n \/ Black(t, t.root) = 1
    BY DEF Inserting
  <1>2. /\ n \in N /\ p \in N /\ g \in N /\ n # p /\ p # g /\ n # g
        /\ Black(t, n) = 0 /\ Black(t, p) = 0 /\ Black(t, g) = 1
        /\ Parent(t, n) # RB!Nil /\ Parent(t, p) # RB!Nil
    BY RedParent
  <1>3. /\ d \in Sides /\ o \in Sides /\ o # d /\ Child(t, g, d) = p
        /\ \A m \in N, s \in Sides : Child(t, m, s) = p => m = g /\ s = d
        /\ \A s \in Sides : s = d \/ s = o
    BY <1>1, <1>2, PlaceOf, OtherIs
  <1>4. /\ Child(t, p, o) = n
        /\ \A m \in N, s \in Sides : Child(t, m, s) = n => m = p /\ s = o
    <2>1. /\ RB!SideOf(t, n, p) \in Sides /\ Child(t, p, RB!SideOf(t, n, p)) = n
          /\ \A m \in N, s \in Sides : Child(t, m, s) = n => m = p /\ s = RB!SideOf(t, n, p)
      BY <1>1, <1>2, PlaceOf
    <2> QED
      BY <1>3, <2>1
  <1>5. RB!Nil \notin N
    BY <1>1, TreeNats
  <1>6. Risen(t, u, N, p, d, n) /\ Tree(u, N, sub2)
    BY <1>1, <1>2, <1>3, <1>4, <1>5, RotateTree
  <1> HIDE DEF sub2
  <1>7. /\ Keys(u) = Keys(t) /\ u.root = IF t.root = p THEN n ELSE t.root
        /\ \A m \in Keys(t) : Black(u, m) = Black(t, m) /\ Volume(u, m) = Volume(t, m)
        /\ \A m \in N \ {p, n}, s \in Sides :
              Child(u, m, s) = IF Child(t, m, s) = p THEN n ELSE Child(t, m, s)
        /\ Child(u, p, d) = Child(t, p, d) /\ Child(u, p, o) = Child(t, n, d)
        /\ Child(u, n, d) = p /\ Child(u, n, o) = Child(t, n, o)
        /\ Parent(u, p) = n /\ Parent(u, n) = g
    BY <1>6 DEF Risen
  <1>8. \A m \in N : Black(u, m) = Black(t, m)
    BY <1>1, <1>7 DEF Tree
  <1> HIDE DEF o
  <1>9. b[p] = b[n] /\ \A s \in Sides : b[Child(t, n, s)] = b[n] /\ b[Child(t, p, s)] = b[n]
    <2>1. \A m \in N, s \in Sides : Child(t, m, s) \in N \cup {RB!Nil}
      BY <1>1 DEF Tree
    <2>2. \A m \in N \cup {RB!Nil} : b[m] \in Nat
      BY <1>1 DEF Heights
    <2>3. \A s \in Sides : b[p] = b[Child(t, p, s)] /\ b[n] = b[Child(t, n, s)]
      BY <1>1, <1>2, <2>1, <2>2 DEF Level
    <2> QED
      BY <1>3, <1>4, <2>3
  <1>10. ASSUME NEW m \in N, NEW s \in Sides
         PROVE  b[m] = b[Child(u, m, s)] + Black(u, m)
    <2>0. b[m] = b[Child(t, m, s)] + Black(t, m)
      BY <1>1 DEF Level
    <2>1. CASE m \in {p, n}
      <3>1. b[Child(u, m, s)] = b[Child(t, m, s)]
        BY <1>3, <1>4, <1>7, <1>9, <2>1
      <3> QED
        BY <1>8, <2>0, <3>1
    <2>2. CASE m \notin {p, n}
      <3>1. b[Child(u, m, s)] = b[Child(t, m, s)]
        BY <1>7, <1>9, <2>2
      <3> QED
        BY <1>8, <2>0, <3>1
    <2> QED
      BY <2>1, <2>2
  <1>11. ASSUME NEW m \in N, NEW s \in Sides, Black(u, m) = 0, Child(u, m, s) # p
         PROVE  BlackChild(u, m, s)
    <2>0. Child(u, m, s) \in N \cup {RB!Nil} /\ Black(t, m) = 0
      BY <1>6, <1>8, <1>11 DEF Tree
    <2>1. ASSUME \/ Child(u, m, s) = RB!Nil
                 \/ \E i \in N, r \in Sides : Black(t, i) = 0 /\ Child(t, i, r) = Child(u, m, s)
                                                                        /\ Child(t, i, r) # n
          PROVE  BlackChild(u, m, s)
      <3>1. CASE Child(u, m, s) = RB!Nil
        BY <3>1 DEF BlackChild
      <3>2. CASE Child(u, m, s) # RB!Nil
        <4>1. PICK i \in N, r \in Sides : Black(t, i) = 0 /\ Child(t, i, r) = Child(u, m, s) /\ Child(t, i, r) # n
          BY <2>1, <3>2
        <4>2. BlackChild(t, i, r)
          BY <1>1, <4>1
        <4> QED
          BY <1>8, <2>0, <3>2, <4>1, <4>2 DEF BlackChild
      <3> QED
        BY <3>1, <3>2
    <2>2. CASE m = p /\ s = d
      BY <1>2, <1>3, <1>4, <1>7, <2>1, <2>2
    <2>3. CASE m = p /\ s = o
      <3>1. Child(t, n, d) # n
        BY <1>1, <1>2, <1>3, Below
      <3> QED
        BY <1>2, <1>3, <1>7, <2>1, <2>3, <3>1
    <2>4. CASE m = n
      <3>1. s = o
        BY <1>3, <1>7, <1>11, <2>4
      <3>2. Child(t, n, o) # n
        BY <1>1, <1>2, <1>3, Below
      <3> QED
        BY <1>2, <1>3, <1>7, <2>1, <2>4, <3>1, <3>2
    <2>5. CASE m \notin {p, n}
      <3>1. Child(t, m, s) # p
        BY <1>2, <1>3, <2>0, <2>5
      <3> QED
        BY <1>4, <1>7, <2>0, <2>1, <2>5, <3>1
    <2> QED
      BY <1>3, <2>2, <2>3, <2>4, <2>5
  <1>12. u.root = p \/ Black(u, u.root) = 1
    <2>1. t.root \in N /\ t.root # n /\ t.root # p
      BY <1>1, <1>2, <1>5, PlaceOf DEF Tree
    <2> QED
      BY <1>1, <1>7, <1>8, <2>1
  <1>13. Inserting(u, N, sub2, b, p)
    BY <1>1, <1>2, <1>6, <1>8, <1>10, <1>11, <1>12 DEF Inserting, Level
  <1>14. Child(u, g, d) = n /\ Child(u, g, o) = Child(t, g, o)
    BY <1>2, <1>3, <1>7
  <1>15. RB!SideOf(u, n, g) = d /\ RB!SideOf(u, p, n) = d
    BY <1>2, <1>3, <1>5, <1>6, <1>7, <1>14, OneParent
  <1>16. ~Inserted(u, p)
    BY <1>2, <1>5, <1>7, <1>8, IsRedIs DEF Inserted
  <1> QED
    BY <1>7, <1>8, <1>13, <1>14, <1>15, <1>16 DEF TurnedOut, SameVolumes, sub2, o

(* A red node on the outer side: its parent rises above its grandparent. *)
LEMMA OuterTurn ==
    ASSUME NEW t, NEW N, NEW sub, NEW b, NEW n, Inserting(t, N, sub, b, n), ~Inserted(t, n),
           NEW p, p = Parent(t, n), NEW g, g = Parent(t, p), NEW d, d = RB!SideOf(t, p, g),
           d = RB!SideOf(t, n, p), ~RB!IsRed(t, Child(t, g, RB!Other(d))),
           NEW t1, Painted(t, t1, p, 1), NEW t2, Painted(t1, t2, g, 0), NEW u, u = RB!Rotate(t2, g, RB!Other(d))
    PROVE  /\ Inserting(u, N, Turned(t2, N, sub, g, RB!Other(d), p), [b EXCEPT ![p] = b[g], ![g] = b[p]], n)
           /\ Inserted(u, n) /\ SameVolumes(t, u)
  <1> DEFINE o == RB!Other(d)
             sub2 == Turned(t2, N, sub, g, o, p)
             b2 == [b EXCEPT ![p] = b[g], ![g] = b[p]]
  <1>1. /\ Tree(t, N, sub) /\ Heights(N, b) /\ \A m \in N : Level(t, b, m)
        /\ \A m \in N, s \in Sides : Black(t, m) = 0 /\ Child(t, m, s) # n => BlackChild(t, m, s)
        /\ t.root = n \/ Black(t, t.root) = 1
    BY DEF Inserting
  <1>2. /\ n \in N /\ p \in N /\ g \in N /\ n # p /\ p # g /\ n # g
        /\ Black(t, n) = 0 /\ Black(t, p) = 0 /\ Black(t, g) = 1
        /\ Parent(t, n) # RB!Nil /\ Parent(t, p) # RB!Nil
    BY RedParent
  <1>3. /\ d \in Sides /\ o \in Sides /\ o # d /\ RB!Other(o) = d /\ Child(t, g, d) = p
        /\ \A m \in N, s \in Sides : Child(t, m, s) = p => m = g /\ s = d
        /\ \A s \in Sides : s = d \/ s = o
    <2>1. d \in Sides /\ Child(t, g, d) = p /\ \A m \in N, s \in Sides : Child(t, m, s) = p => m = g /\ s = d
      <3> DEFINE e == RB!SideOf(t, p, Parent(t, p))
      <3> HIDE DEF e
      <3>1. e = RB!SideOf(t, p, Parent(t, p))
        BY DEF e
      <3>2. e \in Sides /\ Child(t, Parent(t, p), e) = p
            /\ \A m \in N, s \in Sides : Child(t, m, s) = p => m = Parent(t, p) /\ s = e
        BY <1>1, <1>2, <3>1, PlaceOf
      <3> QED
        BY <3>1, <3>2
    <2> QED
      BY <2>1, OtherIs
  <1>4. /\ Child(t, p, d) = n
        /\ \A m \in N, s \in Sides : Child(t, m, s) = n => m = p /\ s = d
    BY <1>1, <1>2, PlaceOf
  <1>5. RB!Nil \notin N /\ N \subseteq Keys(t)
    <2>1. N \subseteq Keys(t)
      BY <1>1 DEF Tree
    <2> QED
      BY <1>1, <2>1, TreeNats
  <1>6. Tree(t2, N, sub)
    BY <1>1, PaintTree
  <1>7. /\ t2.root = t.root /\ Keys(t2) = Keys(t) /\ Black(t2, p) = 1 /\ Black(t2, g) = 0
        /\ \A m \in Keys(t) : /\ m # p /\ m # g => Black(t2, m) = Black(t, m)
                              /\ Volume(t2, m) = Volume(t, m) /\ Parent(t2, m) = Parent(t, m)
        /\ \A m \in Keys(t), s \in Sides : Child(t2, m, s) = Child(t, m, s)
    BY <1>2, <1>5 DEF Painted
  <1>8. Risen(t2, u, N, g, o, p) /\ Tree(u, N, sub2)
    <2>1. p = Child(t2, g, RB!Other(o)) /\ p # RB!Nil
      BY <1>2, <1>3, <1>5, <1>7
    <2> QED
      BY <1>2, <1>3, <1>6, <2>1, RotateTree
  <1> HIDE DEF sub2
  <1>9. /\ Keys(u) = Keys(t) /\ u.root = IF t.root = g THEN p ELSE t.root
        /\ Black(u, p) = 1 /\ Black(u, g) = 0
        /\ \A m \in N : m # p /\ m # g => Black(u, m) = Black(t, m)
        /\ \A m \in N \ {p, g}, s \in Sides :
              Child(u, m, s) = IF Child(t, m, s) = g THEN p ELSE Child(t, m, s)
        /\ Child(u, g, o) = Child(t, g, o) /\ Child(u, g, d) = Child(t, p, o)
        /\ Child(u, p, o) = g /\ Child(u, p, d) = n
    BY <1>2, <1>3, <1>4, <1>5, <1>7, <1>8 DEF Risen
  <1>10. SameVolumes(t, u)
    BY <1>7, <1>8 DEF Risen, SameVolumes
  <1>11. Parent(u, n) = p
    BY <1>2, <1>3, <1>5, <1>8, <1>9, OneParent
  <1> HIDE DEF o
  <1>12. /\ Heights(N, b2) /\ b2[p] = b[g] /\ b2[g] = b[p]
         /\ \A m \in N \cup {RB!Nil} : b[m] \in Nat /\ (m # p /\ m # g => b2[m] = b[m])
    BY <1>1, <1>2, <1>5 DEF Heights
  <1> HIDE DEF b2
  <1>13. /\ b[g] = b[p] + 1 /\ b[Child(t, g, o)] = b[p] /\ b[n] = b[p] /\ b[Child(t, p, o)] = b[p]
    <2>1. \A m \in N, s \in Sides : b[m] = b[Child(t, m, s)] + Black(t, m) /\ b[Child(t, m, s)] \in Nat
      BY <1>1, <1>12 DEF Level, Tree
    <2> QED
      BY <1>2, <1>3, <1>4, <2>1
  <1>19. Child(t, p, o) # g
    <2>1. sub[p] \subseteq sub[g] /\ g \notin sub[p] /\ g \in sub[g]
      BY <1>1, <1>2, <1>3, Below
    <2>2. sub[Child(t, p, o)] \subseteq sub[p]
      BY <1>1, <1>2, <1>3, Below
    <2> QED
      BY <2>1, <2>2, <1>1, <1>2 DEF Tree
  <1>14. ASSUME NEW m \in N, NEW s \in Sides
         PROVE  b2[m] = b2[Child(u, m, s)] + Black(u, m)
    <2>0. b[m] = b[Child(t, m, s)] + Black(t, m) /\ Child(t, m, s) \in N \cup {RB!Nil}
      BY <1>1 DEF Level, Tree
    <2>1. CASE m = g
      <3>1. /\ Child(t, g, o) \in N \cup {RB!Nil} /\ Child(t, p, o) \in N \cup {RB!Nil}
            /\ Child(t, g, o) # g /\ Child(t, p, o) # p
            /\ Child(t, g, o) # p /\ Child(t, p, o) # g
        BY <1>1, <1>2, <1>3, <1>19, Below
      <3> QED
        BY <1>2, <1>3, <1>5, <1>9, <1>12, <1>13, <2>1, <3>1
    <2>2. CASE m = p
      BY <1>2, <1>3, <1>9, <1>12, <1>13, <2>2
    <2>3. CASE m \notin {p, g}
      <3>1. b2[Child(u, m, s)] = b[Child(t, m, s)]
        <4>1. Child(t, m, s) # p
          BY <1>3, <2>3
        <4> QED
          BY <1>9, <1>12, <2>0, <2>3, <4>1
      <3> QED
        BY <1>9, <1>12, <2>0, <2>3, <3>1
    <2> QED
      BY <2>1, <2>2, <2>3
  <1>15. ASSUME NEW m \in N, NEW s \in Sides, Black(u, m) = 0
         PROVE  BlackChild(u, m, s)
    <2>1. CASE m = g
      <3>1. CASE s = o
        BY <1>2, <1>3, <1>9, <2>1, <3>1, <1>1, BlackIs, IsRedIs, OneParent, <1>5 DEF BlackChild, o
      <3>2. CASE s = d
        <4>1. BlackChild(t, p, o) /\ Child(t, p, o) \in N \cup {RB!Nil}
          BY <1>1, <1>2, <1>3, <1>4 DEF Tree
        <4> QED
          BY <1>2, <1>9, <1>19, <2>1, <3>2, <4>1 DEF BlackChild
      <3> QED
        BY <1>3, <3>1, <3>2
    <2>2. CASE m # g
      <3>1. m # p /\ Black(t, m) = 0 /\ Child(t, m, s) # n /\ Child(t, m, s) # p
        BY <1>3, <1>4, <1>9, <1>15, <2>2
      <3>2. BlackChild(t, m, s) /\ Child(t, m, s) \in N \cup {RB!Nil}
        BY <1>1, <3>1 DEF Tree
      <3> QED
        BY <1>9, <2>2, <3>1, <3>2 DEF BlackChild
    <2> QED
      BY <2>1, <2>2
  <1>16. Black(u, u.root) = 1
    <2>1. t.root \in N /\ t.root # n
      BY <1>1, <1>2, <1>5, PlaceOf DEF Tree
    <2> QED
      BY <1>1, <1>2, <1>9, <2>1
  <1>17. Inserting(u, N, sub2, b2, n)
    BY <1>2, <1>8, <1>9, <1>12, <1>14, <1>15, <1>16 DEF Inserting, Level
  <1>18. Inserted(u, n)
    BY <1>9, <1>11, IsRedIs DEF Inserted
  <1> QED
    BY <1>10, <1>17, <1>18 DEF sub2, b2, o

Blacken(t, n) == RB!Paint(t, n, FALSE)

Redden(t, n) == RB!Paint(t, n, TRUE)

LEMMA BlackenIs ==
    ASSUME NEW t, Heap(t), NEW n \in Keys(t) \cup {RB!Nil}
    PROVE  Painted(t, Blacken(t, n), n, 1) /\ Painted(t, Redden(t, n), n, 0)
  <1>1. \A red \in BOOLEAN : Painted(t, RB!Paint(t, n, red), n, IF red THEN 0 ELSE 1)
    BY PaintIs
  <1>2. Painted(t, RB!Paint(t, n, FALSE), n, IF FALSE THEN 0 ELSE 1)
    BY <1>1
  <1>3. Painted(t, RB!Paint(t, n, TRUE), n, IF TRUE THEN 0 ELSE 1)
    BY <1>1
  <1> QED
    BY <1>2, <1>3 DEF Blacken, Redden

(* The numbers of nodes below. *)
Sizes(N, sub) ==
    /\ Cardinality(N) \in Nat
    /\ \A n \in N \cup {RB!Nil} : /\ Cardinality(sub[n]) \in Nat
                                  /\ Cardinality(sub[n]) <= Cardinality(N)
                                  /\ n # RB!Nil => Cardinality(sub[n]) > 0
    /\ \A m, n \in N \cup {RB!Nil} : sub[m] \subseteq sub[n] /\ sub[m] # sub[n] =>
                                        Cardinality(sub[m]) < Cardinality(sub[n])

LEMMA SubtreeSize ==
    ASSUME NEW t, NEW N, NEW sub, Tree(t, N, sub)
    PROVE  Sizes(N, sub)
  <1>1. IsFiniteSet(N) /\ \A n \in N \cup {RB!Nil} : sub[n] \subseteq N /\ (n # RB!Nil => n \in sub[n])
    <2>1. IsFiniteSet(N)
      BY TreeNats
    <2> QED
      BY <2>1 DEF Tree
  <1>2. \A n \in N \cup {RB!Nil} : IsFiniteSet(sub[n])
    BY <1>1, FS_Subset
  <1>3. Cardinality(N) \in Nat /\ \A n \in N \cup {RB!Nil} : Cardinality(sub[n]) \in Nat
    BY <1>1, <1>2, FS_CardinalityType
  <1>4. \A n \in N \cup {RB!Nil} : Cardinality(sub[n]) <= Cardinality(N)
    BY <1>1, FS_Subset
  <1>5. \A n \in N \cup {RB!Nil} : n # RB!Nil => Cardinality(sub[n]) > 0
    BY <1>1, <1>2, <1>3, FS_EmptySet
  <1>6. \A m, n \in N \cup {RB!Nil} : sub[m] \subseteq sub[n] /\ sub[m] # sub[n] =>
                                            Cardinality(sub[m]) < Cardinality(sub[n])
    BY <1>2, <1>3, FS_Subset
  <1> QED
    BY <1>3, <1>4, <1>5, <1>6 DEF Sizes

LEMMA InsertPassIs ==
    ASSUME NEW t, NEW N, NEW sub, NEW b, NEW n, Inserting(t, N, sub, b, n), NEW c, c = <<t, n>>
    PROVE  \E u, m, sub2, b2 :
              /\ RB!InsertPass(c) = <<u, m>>
              /\ Inserting(u, N, sub2, b2, m) /\ SameVolumes(t, u)
              /\ Inserted(u, m) \/ Cardinality(sub2[m]) > Cardinality(sub[n])
              /\ Inserted(t, n) => Inserted(u, m)
  <1> DEFINE p == Parent(t, n)
             g == Parent(t, p)
             d == RB!SideOf(t, p, g)
             o == RB!Other(d)
             k == Child(t, g, o)
             turned == RB!Rotate(t, p, d)
  <1>1. CASE Inserted(t, n)
    <2>1. RB!InsertPass(c) = c
      BY <1>1 DEF RB!InsertPass, Inserted, Parent
    <2> QED
      BY <1>1, <2>1 DEF SameVolumes
  <1>2. CASE ~Inserted(t, n)
    <2>0. /\ RB!IsRed(t, p)
          /\ RB!IsRed(t, k) => RB!InsertPass(c) = <<Redden(Blacken(Blacken(t, p), k), g), g>>
          /\ ~RB!IsRed(t, k) /\ RB!SideOf(t, n, p) # d =>
                RB!InsertPass(c) = <<RB!Rotate(Redden(Blacken(turned, n), g), g, o), p>>
          /\ ~RB!IsRed(t, k) /\ RB!SideOf(t, n, p) = d =>
                RB!InsertPass(c) = <<RB!Rotate(Redden(Blacken(t, p), g), g, o), n>>
      BY <1>2, Zenon DEF RB!InsertPass, Inserted, Parent, Child, Blacken, Redden
    <2>1. /\ n \in N /\ p \in N /\ g \in N /\ RB!Nil \notin N /\ N \subseteq Keys(t)
          /\ Tree(t, N, sub) /\ Heap(t)
      <3>1. Tree(t, N, sub)
        BY DEF Inserting
      <3>2. N \subseteq Keys(t) /\ Heap(t) /\ RB!Nil \notin N
        BY <3>1 DEF Tree, Heap, Keys
      <3> QED
        BY <1>2, <3>1, <3>2, RedParent
    <2> HIDE DEF p, g, d, k
    <2>2. CASE RB!IsRed(t, k)
      <3> DEFINE t1 == Blacken(t, p)
                 t2 == Blacken(t1, k)
                 u == Redden(t2, g)
                 b2 == [b EXCEPT ![p] = @ + 1, ![k] = @ + 1]
      <3>1. k \in Keys(t)
        <4>1. d \in Sides
          BY SideOfIs DEF d
        <4>2. k \in N \cup {RB!Nil}
          BY <2>1, <4>1, OtherIs DEF Tree, k
        <4> QED
          BY <2>1, <2>2, <4>2, IsRedIs
      <3>2. Painted(t, t1, p, 1)
        BY <2>1, BlackenIs
      <3> HIDE DEF t1
      <3>3. Keys(t1) = Keys(t) /\ Heap(t1)
        BY <3>2 DEF Painted
      <3>4. Painted(t1, t2, k, 1)
        BY <3>1, <3>3, BlackenIs
      <3> HIDE DEF t2
      <3>5. Keys(t2) = Keys(t) /\ Heap(t2)
        BY <3>3, <3>4 DEF Painted
      <3>6. Painted(t2, u, g, 0)
        BY <2>1, <3>5, BlackenIs
      <3> HIDE DEF u, b2
      <3>7. /\ Inserting(u, N, sub, b2, g) /\ SameVolumes(t, u)
            /\ sub[n] \subseteq sub[g] /\ sub[n] # sub[g]
        BY <1>2, <2>2, <3>2, <3>4, <3>6, RedUncle DEF p, g, d, k, b2
      <3>8. Cardinality(sub[g]) > Cardinality(sub[n])
        BY <2>1, <3>7, SubtreeSize DEF Sizes
      <3>9. RB!InsertPass(c) = <<u, g>>
        BY <2>0, <2>2 DEF u, t2, t1
      <3> QED
        BY <1>2, <3>7, <3>8, <3>9
    <2>3. CASE ~RB!IsRed(t, k) /\ RB!SideOf(t, n, p) = d
      <3> DEFINE t1 == Blacken(t, p)
                 t2 == Redden(t1, g)
                 u == RB!Rotate(t2, g, o)
      <3>2. Painted(t, t1, p, 1)
        BY <2>1, BlackenIs
      <3> HIDE DEF t1
      <3>3. Keys(t1) = Keys(t) /\ Heap(t1)
        BY <3>2 DEF Painted
      <3>4. Painted(t1, t2, g, 0)
        BY <2>1, <3>3, BlackenIs
      <3> HIDE DEF t2
      <3>7. \E sub2, b2 : Inserting(u, N, sub2, b2, n) /\ Inserted(u, n) /\ SameVolumes(t, u)
        <4>1. p = Parent(t, n) /\ g = Parent(t, p) /\ d = RB!SideOf(t, p, g) /\ d = RB!SideOf(t, n, p)
          BY <2>3 DEF p, g, d
        <4>2. ~RB!IsRed(t, Child(t, g, RB!Other(d))) /\ u = RB!Rotate(t2, g, RB!Other(d))
          BY <2>3 DEF k
        <4> HIDE DEF u, o
        <4>3. /\ Inserting(u, N, Turned(t2, N, sub, g, RB!Other(d), p), [b EXCEPT ![p] = b[g], ![g] = b[p]], n)
              /\ Inserted(u, n) /\ SameVolumes(t, u)
          BY <1>2, <4>1, <4>2, <3>2, <3>4, OuterTurn
        <4> QED
          BY <4>3
      <3>9. RB!InsertPass(c) = <<u, n>>
        BY <2>0, <2>3 DEF t2, t1
      <3> QED
        BY <3>7, <3>9
    <2>4. CASE ~RB!IsRed(t, k) /\ RB!SideOf(t, n, p) # d
      <3> DEFINE t1 == Blacken(turned, n)
                 t2 == Redden(t1, g)
                 u == RB!Rotate(t2, g, o)
                 sub1 == Turned(t, N, sub, p, d, n)
      <3>1. /\ Inserting(turned, N, sub1, b, p) /\ ~Inserted(turned, p)
            /\ Parent(turned, p) = n /\ Parent(turned, n) = g /\ RB!SideOf(turned, n, g) = d
            /\ RB!SideOf(turned, p, n) = d /\ Child(turned, g, o) = k
            /\ SameVolumes(t, turned) /\ \A m \in N : Black(turned, m) = Black(t, m)
        <4>1. p = Parent(t, n) /\ g = Parent(t, p) /\ d = RB!SideOf(t, p, g) /\ k = Child(t, g, o)
          BY DEF p, g, d, k
        <4>2. turned = RB!Rotate(t, p, d) /\ sub1 = Turned(t, N, sub, p, d, n)
          OBVIOUS
        <4> HIDE DEF turned, sub1
        <4>3. TurnedOut(t, turned, N, sub1, b, n, p, g, d)
          BY <1>2, <2>4, <4>1, <4>2, InnerTurn
        <4> QED
          BY <4>1, <4>3 DEF TurnedOut
      <3> HIDE DEF turned, sub1
      <3>2. Heap(turned) /\ Keys(turned) = Keys(t)
        BY <3>1 DEF Inserting, Tree, SameVolumes
      <3>3. ~RB!IsRed(turned, k)
        <4>1. d \in Sides
          BY SideOfIs DEF d
        <4>2. k \in N \cup {RB!Nil}
          BY <2>1, <4>1, OtherIs DEF Tree, k
        <4> QED
          BY <2>4, <3>1, <4>2, IsRedIs
      <3>4. Painted(turned, t1, n, 1)
        BY <2>1, <3>2, BlackenIs
      <3> HIDE DEF t1
      <3>5. Keys(t1) = Keys(t) /\ Heap(t1)
        BY <3>2, <3>4 DEF Painted
      <3>6. Painted(t1, t2, g, 0)
        BY <2>1, <3>5, BlackenIs
      <3> HIDE DEF t2
      <3>7. \E sub2, b2 : Inserting(u, N, sub2, b2, p) /\ Inserted(u, p) /\ SameVolumes(turned, u)
        <4>1. n = Parent(turned, p) /\ g = Parent(turned, n) /\ d = RB!SideOf(turned, n, g)
              /\ d = RB!SideOf(turned, p, n)
          BY <3>1
        <4>2. ~RB!IsRed(turned, Child(turned, g, RB!Other(d))) /\ u = RB!Rotate(t2, g, RB!Other(d))
          BY <3>1, <3>3
        <4> HIDE DEF u, o
        <4>3. /\ Inserting(u, N, Turned(t2, N, sub1, g, RB!Other(d), n), [b EXCEPT ![n] = b[g], ![g] = b[n]], p)
              /\ Inserted(u, p) /\ SameVolumes(turned, u)
          BY <3>1, <4>1, <4>2, <3>4, <3>6, OuterTurn
        <4> QED
          BY <4>3
      <3>8. RB!InsertPass(c) = <<u, p>>
        BY <2>0, <2>4 DEF t2, t1
      <3>9. \A v : SameVolumes(turned, v) => SameVolumes(t, v)
        BY <3>1 DEF SameVolumes
      <3> QED
        BY <3>7, <3>8, <3>9
    <2> QED
      BY <2>2, <2>3, <2>4
  <1> QED
    BY <1>1, <1>2
Loop(g, n, V, F, c) ==
    /\ g = [i \in 0 .. n |-> g[i]] /\ g[0] = c
    /\ \A i \in 1 .. n : g[i - 1] \in V /\ g[i] = F[g[i - 1]]

(* A loop from c on that at its turn i is in P[i]: the function that defines it exists, *)
LEMMA LoopExists ==
    ASSUME NEW n \in Nat, NEW V, NEW F, NEW P, \A i \in 0 .. n : P[i] \subseteq V, NEW c \in P[0],
           \A i \in 1 .. n : \A v \in P[i - 1] : F[v] \in P[i]
    PROVE  \E g : Loop(g, n, V, F, c)
  <1> DEFINE G == [v \in V |-> IF F[v] \in V THEN F[v] ELSE v]
             D == [i \in 1 .. n |-> G]
  <1>1. c \in V /\ G \in [V -> V] /\ D \in [1 .. n -> [V -> V]]
    BY 0 \in 0 .. n
  <1>2. PICK g : Recursion(g, n, V, c, D)
    <2> HIDE DEF D, G
    <2> QED
      BY <1>1, RecursionExists
  <1>3. g \in [0 .. n -> V] /\ g[0] = c /\ \A i \in 1 .. n : g[i] = G[g[i - 1]]
    <2>1. \A i \in 1 .. n : D[i] = G
      OBVIOUS
    <2> HIDE DEF D, G
    <2> QED
      BY <1>2, <2>1 DEF Recursion
  <1> DEFINE S == {i \in 0 .. n : g[i] \in P[i]}
  <1>4. 0 \in S
    BY <1>3
  <1>5. ASSUME NEW i \in 0 .. n - 1, i \in S
        PROVE  i + 1 \in S
    <2>1. i + 1 \in 1 .. n /\ (i + 1) - 1 = i /\ i \in 0 .. n /\ i + 1 \in 0 .. n
      OBVIOUS
    <2>2. g[i] \in P[i] /\ g[i] \in V /\ F[g[i]] \in P[i + 1] /\ F[g[i]] \in V
      BY <1>5, <2>1
    <2>3. G[g[i]] = F[g[i]]
      BY <2>2
    <2>4. g[i + 1] = G[g[i]]
      BY <1>3, <2>1
    <2> QED
      BY <2>1, <2>2, <2>3, <2>4
  <1>6. 0 .. n \subseteq S
    <2> HIDE DEF S
    <2> QED
      BY <1>4, <1>5, IntervalInduction
  <1>7. ASSUME NEW i \in 1 .. n
        PROVE  g[i - 1] \in V /\ g[i] = F[g[i - 1]]
    <2>1. i - 1 \in 0 .. n /\ i \in 0 .. n
      OBVIOUS
    <2>2. g[i - 1] \in P[i - 1] /\ g[i - 1] \in V
      BY <1>6, <2>1
    <2>3. F[g[i - 1]] \in P[i]
      BY <2>2
    <2>4. F[g[i - 1]] \in V
      BY <2>1, <2>3
    <2>5. G[g[i - 1]] = F[g[i - 1]]
      BY <2>2, <2>4
    <2> QED
      BY <1>3, <2>2, <2>5
  <1> QED
    BY <1>3, <1>7 DEF Loop

(* and is in P[n] at its end. *)
LEMMA LoopEnds ==
    ASSUME NEW n \in Nat, NEW P, NEW g, g[0] \in P[0],
           \A i \in 1 .. n : g[i - 1] \in P[i - 1] => g[i] \in P[i]
    PROVE  g[n] \in P[n]
  <1> DEFINE S == {i \in 0 .. n : g[i] \in P[i]}
  <1>1. 0 \in S
    OBVIOUS
  <1>2. ASSUME NEW i \in 0 .. n - 1, i \in S
        PROVE  i + 1 \in S
    <2>1. i + 1 \in 1 .. n /\ (i + 1) - 1 = i /\ i + 1 \in 0 .. n
      OBVIOUS
    <2> QED
      BY <1>2, <2>1
  <1>3. 0 .. n \subseteq S
    <2> HIDE DEF S
    <2> QED
      BY <1>1, <1>2, IntervalInduction
  <1> QED
    BY <1>3

(* The black heights are those of a red-black tree. *)
IsRedBlack(t, N, sub, b) ==
    /\ Tree(t, N, sub) /\ Heights(N, b) /\ \A m \in N : Level(t, b, m)
    /\ \A m \in N, s \in Sides : Black(t, m) = 0 => BlackChild(t, m, s)
    /\ t.root # RB!Nil => Black(t, t.root) = 1

LEMMA BlackRootIs ==
    ASSUME NEW t, NEW N, NEW sub, NEW b, NEW n, Inserting(t, N, sub, b, n), Inserted(t, n)
    PROVE  \E b2 : IsRedBlack(RB!BlackRoot(t), N, sub, b2) /\ SameVolumes(t, RB!BlackRoot(t))
  <1> DEFINE r == t.root
             u == Blacken(t, r)
             b2 == IF Black(t, r) = 1 THEN b ELSE [b EXCEPT ![r] = @ + 1]
  <1>0. RB!BlackRoot(t) = u
    BY DEF RB!BlackRoot, Blacken
  <1>1. /\ n \in N /\ Tree(t, N, sub) /\ Heights(N, b) /\ \A m \in N : Level(t, b, m)
        /\ \A m \in N, s \in Sides : Black(t, m) = 0 /\ Child(t, m, s) # n => BlackChild(t, m, s)
    BY DEF Inserting
  <1>2. RB!Nil \notin N
    BY <1>1, TreeNats
  <1>3. r \in N /\ N \subseteq Keys(t) /\ Heap(t)
    <2>1. r \in N \cup {RB!Nil} /\ sub[r] = N /\ sub[RB!Nil] = {}
      BY <1>1 DEF Tree
    <2>2. r # RB!Nil
      <3> HIDE DEF r
      <3>1. n \in N
        BY <1>1
      <3> QED
        BY <2>1, <3>1
    <2> QED
      BY <1>1, <2>1, <2>2 DEF Tree
  <1>4. \A m \in N, s \in Sides : Child(t, m, s) # r /\ Child(t, m, s) \in N \cup {RB!Nil}
    BY <1>1, <1>2, <1>3 DEF Tree
  <1>5. \A m \in N, s \in Sides : Black(t, m) = 0 => BlackChild(t, m, s)
    <2> SUFFICES ASSUME NEW m \in N, NEW s \in Sides, Black(t, m) = 0, Child(t, m, s) = n
                 PROVE  FALSE
      BY <1>1
    <2>1. Parent(t, n) = m
      BY <1>1, <1>2 DEF Tree
    <2> QED
      BY <1>2, <2>1, IsRedIs DEF Inserted
  <1>6. Painted(t, u, r, 1)
    BY <1>3, BlackenIs
  <1> HIDE DEF u, r
  <1>7. Tree(u, N, sub)
    BY <1>1, <1>6, PaintTree
  <1>8. /\ u.root = t.root /\ Keys(u) = Keys(t) /\ Black(u, r) = 1
        /\ \A m \in Keys(t) : (m # r => Black(u, m) = Black(t, m)) /\ Volume(u, m) = Volume(t, m)
        /\ \A m \in N, s \in Sides : Child(u, m, s) = Child(t, m, s)
    BY <1>3, <1>6 DEF Painted
  <1>9. /\ Heights(N, b2) /\ \A m \in N \cup {RB!Nil} : b[m] \in Nat /\ (m # r => b2[m] = b[m])
        /\ b2[r] = b[r] + 1 - Black(t, r)
    <2>1. Black(t, r) \in {0, 1}
      BY BlackIs
    <2>2. b \in [N \cup {RB!Nil} -> Nat] /\ b[RB!Nil] = 0
      BY <1>1 DEF Heights
    <2>3. CASE Black(t, r) = 1
      BY <1>3, <2>2, <2>3 DEF Heights
    <2>4. CASE Black(t, r) = 0
      BY <1>2, <1>3, <2>2, <2>4 DEF Heights
    <2> QED
      BY <2>1, <2>3, <2>4
  <1> HIDE DEF b2
  <1>10. ASSUME NEW m \in N, NEW s \in Sides
         PROVE  b2[m] = b2[Child(u, m, s)] + Black(u, m)
    <2>1. b[m] = b[Child(t, m, s)] + Black(t, m) /\ b2[Child(u, m, s)] = b[Child(t, m, s)]
      BY <1>1, <1>4, <1>8, <1>9 DEF Level
    <2>2. b[Child(t, m, s)] \in Nat /\ b[m] \in Nat
      BY <1>4, <1>9
    <2>3. CASE m = r
      BY <1>8, <1>9, <2>1, <2>2, <2>3, BlackIs
    <2>4. CASE m # r
      BY <1>3, <1>8, <1>9, <2>1, <2>4
    <2> QED
      BY <2>3, <2>4
  <1>11. ASSUME NEW m \in N, NEW s \in Sides, Black(u, m) = 0
         PROVE  BlackChild(u, m, s)
    <2>1. m # r /\ Black(t, m) = 0
      BY <1>3, <1>8, <1>11
    <2>2. BlackChild(t, m, s)
      BY <1>5, <2>1
    <2> QED
      BY <1>3, <1>4, <1>8, <2>2 DEF BlackChild
  <1>12. IsRedBlack(u, N, sub, b2)
    BY <1>7, <1>8, <1>9, <1>10, <1>11 DEF IsRedBlack, Level, r
  <1> QED
    BY <1>0, <1>8, <1>12 DEF SameVolumes

(* The heaps with these nodes. *)
Heaps(N) == [root : N \cup {RB!Nil}, node : [N -> Nodes(N)]]

LEMMA HeapIs ==
    ASSUME NEW t, Heap(t)
    PROVE  t \in Heaps(Keys(t))
  BY DEF Heap, Heaps, Keys

Fixing(t, c, i) ==
    \E sub, b : /\ Inserting(c[1], Keys(t), sub, b, c[2]) /\ SameVolumes(t, c[1])
                /\ Inserted(c[1], c[2]) \/ Cardinality(sub[c[2]]) > i

LEMMA InsertFixupIs ==
    ASSUME NEW t, NEW N, N = Keys(t), NEW sub, NEW b, NEW n, Inserting(t, N, sub, b, n)
    PROVE  \E sub2, b2 : /\ IsRedBlack(RB!InsertFixup(t, n), N, sub2, b2)
                         /\ SameVolumes(t, RB!InsertFixup(t, n))
  <1> DEFINE z == RB!Size(t)
             V == Heaps(N) \X N
             F == [c \in V |-> RB!InsertPass(c)]
             P == [i \in 0 .. z |-> {c \in V : Fixing(t, c, i)}]
             Def(at) == [i \in 0 .. z |-> IF i = 0 THEN <<t, n>> ELSE RB!InsertPass(at[i - 1])]
             loop == CHOOSE at : at = Def(at)
  <1>1. Tree(t, N, sub) /\ n \in N
    BY DEF Inserting
  <1>2. z \in Nat /\ z = Cardinality(N) /\ Cardinality(sub[n]) > 0
    <2>1. n # RB!Nil
      BY <1>1, TreeNats
    <2>2. z = Cardinality(N)
      BY DEF RB!Size, RB!Keys, Keys, RB!Cardinality, Cardinality
    <2> QED
      BY <1>1, <2>1, <2>2, SubtreeSize DEF Sizes
  <1>3. <<t, n>> \in P[0]
    <2>1. <<t, n>> \in V
      BY <1>1, HeapIs DEF Tree
    <2>2. Fixing(t, <<t, n>>, 0)
      BY <1>2 DEF Fixing, SameVolumes
    <2> QED
      BY <1>2, <2>1, <2>2
  <1>4. ASSUME NEW i \in 1 .. z, NEW c \in P[i - 1]
        PROVE  RB!InsertPass(c) \in P[i]
    <2>1. i - 1 \in 0 .. z /\ i \in 0 .. z /\ i \in Nat
      BY <1>2
    <2>2. c \in V /\ Fixing(t, c, i - 1)
      BY <2>1
    <2>3. PICK sub1, b1 : /\ Inserting(c[1], N, sub1, b1, c[2]) /\ SameVolumes(t, c[1])
                          /\ Inserted(c[1], c[2]) \/ Cardinality(sub1[c[2]]) > i - 1
      BY <2>2 DEF Fixing
    <2>4. c = <<c[1], c[2]>>
      BY <2>2
    <2>5. PICK u, m, sub2, b2 :
              /\ RB!InsertPass(c) = <<u, m>>
              /\ Inserting(u, N, sub2, b2, m) /\ SameVolumes(c[1], u)
              /\ Inserted(u, m) \/ Cardinality(sub2[m]) > Cardinality(sub1[c[2]])
              /\ Inserted(c[1], c[2]) => Inserted(u, m)
      BY <2>3, <2>4, InsertPassIs
    <2>6. SameVolumes(t, u) /\ Keys(u) = N
      BY <2>3, <2>5 DEF SameVolumes
    <2>7. <<u, m>> \in V
      <3>1. Heap(u) /\ m \in N
        BY <2>5 DEF Inserting, Tree
      <3> QED
        BY <2>6, <3>1, HeapIs
    <2>8. Inserted(u, m) \/ Cardinality(sub2[m]) > i
      <3>1. m \in N /\ Tree(u, N, sub2) /\ c[2] \in N /\ Tree(c[1], N, sub1)
        BY <2>3, <2>5 DEF Inserting
      <3>2. Cardinality(sub2[m]) \in Nat /\ Cardinality(sub1[c[2]]) \in Nat
        BY <3>1, SubtreeSize DEF Sizes
      <3> QED
        BY <2>1, <2>3, <2>5, <3>2
    <2>9. Fixing(t, <<u, m>>, i)
      BY <2>5, <2>6, <2>8 DEF Fixing
    <2> QED
      BY <2>1, <2>5, <2>7, <2>9
  <1>5. \A i \in 0 .. z : P[i] \subseteq V
    OBVIOUS
  <1>6. RB!InsertFixup(t, n) = RB!BlackRoot(loop[z][1])
    BY DEF RB!InsertFixup
  <1>7. loop[z] \in P[z]
    <2>1. \A i \in 1 .. z : \A c \in P[i - 1] : F[c] \in P[i] /\ c \in V /\ F[c] = RB!InsertPass(c)
      <3> SUFFICES ASSUME NEW i \in 1 .. z, NEW c \in P[i - 1]
                   PROVE  F[c] \in P[i] /\ c \in V /\ F[c] = RB!InsertPass(c)
        OBVIOUS
      <3>1. i - 1 \in 0 .. z
        BY <1>2
      <3>2. c \in V
        BY <1>5, <3>1
      <3> QED
        BY <1>4, <3>2
    <2>2. \A c \in V : F[c] = RB!InsertPass(c)
      OBVIOUS
    <2> HIDE DEF z, V, F, P, Def
    <2>3. PICK g : Loop(g, z, V, F, <<t, n>>)
      <3>1. \A i \in 1 .. z : \A c \in P[i - 1] : F[c] \in P[i]
        BY <2>1
      <3> QED
        BY <1>2, <1>3, <1>5, <3>1, LoopExists
    <2>4. g = Def(g)
      <3>1. \A i \in 1 .. z : g[i] = RB!InsertPass(g[i - 1])
        BY <2>2, <2>3 DEF Loop
      <3>2. \A i \in 0 .. z : i # 0 => i \in 1 .. z
        BY <1>2
      <3>3. \A i \in 0 .. z : g[i] = IF i = 0 THEN <<t, n>> ELSE RB!InsertPass(g[i - 1])
        BY <2>3, <3>1, <3>2 DEF Loop
      <3> QED
        BY <2>3, <3>3, Zenon DEF Def, Loop
    <2>5. loop = Def(loop)
      BY <2>4
    <2> HIDE DEF loop
    <2>6. loop[0] = <<t, n>> /\ \A i \in 1 .. z : loop[i] = RB!InsertPass(loop[i - 1])
      BY <1>2, <2>5 DEF Def
    <2>7. \A i \in 1 .. z : loop[i - 1] \in P[i - 1] => loop[i] \in P[i]
      BY <1>4, <2>6
    <2> QED
      BY <1>2, <1>3, <2>6, <2>7, LoopEnds
  <1> HIDE DEF loop
  <1>8. PICK sub1, b1 : /\ Inserting(loop[z][1], N, sub1, b1, loop[z][2]) /\ SameVolumes(t, loop[z][1])
                        /\ Inserted(loop[z][1], loop[z][2]) \/ Cardinality(sub1[loop[z][2]]) > z
    <2>1. Fixing(t, loop[z], z)
      BY <1>2, <1>7
    <2> QED
      BY <2>1 DEF Fixing
  <1>9. Inserted(loop[z][1], loop[z][2])
    <2>1. Tree(loop[z][1], N, sub1) /\ loop[z][2] \in N
      BY <1>8 DEF Inserting
    <2>2. Cardinality(sub1[loop[z][2]]) \in Nat /\ Cardinality(sub1[loop[z][2]]) <= z
      BY <1>2, <2>1, SubtreeSize DEF Sizes
    <2> QED
      BY <1>2, <1>8, <2>2
  <1>10. PICK b2 : /\ IsRedBlack(RB!BlackRoot(loop[z][1]), N, sub1, b2)
                   /\ SameVolumes(loop[z][1], RB!BlackRoot(loop[z][1]))
    BY <1>8, <1>9, BlackRootIs
  <1>11. SameVolumes(t, RB!BlackRoot(loop[z][1]))
    BY <1>8, <1>10 DEF SameVolumes
  <1> QED
    BY <1>6, <1>10, <1>11

(* Where key belongs below p: a leaf that is on the right side of every node above it. *)
Dir(key, p) == IF key < p THEN "left" ELSE "right"

Fits(t, N, sub, key, p) ==
    /\ p \in N \cup {RB!Nil} /\ key # p
    /\ \A a \in N, s \in Sides : p \in sub[Child(t, a, s)] => On(s, key, a)

LEMMA DirIs ==
    ASSUME NEW m \in Nat, NEW n \in Nat, m # n
    PROVE  Dir(m, n) \in Sides /\ On(Dir(m, n), m, n) /\ ~On(RB!Other(Dir(m, n)), m, n)
           /\ \A s \in Sides : On(s, m, n) => s = Dir(m, n)
  BY DEF Dir, On, Sides, RB!Other

(* The way down ends at the key, or at the leaf where it belongs. *)
Descending(t, N, sub, key, c, i) ==
    /\ Fits(t, N, sub, key, c[2])
    /\ key \in N => key \in sub[c[1]]
    /\ c[1] = IF c[2] = RB!Nil THEN t.root ELSE Child(t, c[2], Dir(key, c[2]))
    /\ c[1] \in {RB!Nil, key} \/ Cardinality(sub[c[1]]) + i <= Cardinality(N)

LEMMA DownIs ==
    ASSUME NEW t, NEW N, NEW sub, Tree(t, N, sub), NEW key \in Nat \ {RB!Nil},
           NEW c \in (N \cup {RB!Nil}) \X (N \cup {RB!Nil}), NEW i \in Nat, Descending(t, N, sub, key, c, i)
    PROVE  /\ RB!Down(t, key, c) \in (N \cup {RB!Nil}) \X (N \cup {RB!Nil})
           /\ Descending(t, N, sub, key, RB!Down(t, key, c), i + 1)
  <1> DEFINE x == c[1]
             p == c[2]
             d == Dir(key, x)
             y == Child(t, x, d)
  <1>1. CASE x \in {RB!Nil, key}
    <2>1. RB!Down(t, key, c) = c
      BY <1>1 DEF RB!Down
    <2> QED
      BY <1>1, <2>1 DEF Descending
  <1>2. CASE x \notin {RB!Nil, key}
    <2>1. x \in N /\ p \in N \cup {RB!Nil} /\ key \in Nat /\ x \in Nat /\ N \subseteq Nat /\ RB!Nil \notin N
      BY <1>2, TreeNats
    <2>2. RB!Down(t, key, c) = <<y, x>>
      BY <1>2 DEF RB!Down, Child, Dir
    <2>3. d \in Sides /\ On(d, key, x) /\ ~On(RB!Other(d), key, x)
      BY <1>2, <2>1, DirIs
    <2>4. /\ y \in N \cup {RB!Nil} /\ sub[y] \subseteq sub[x] /\ x \in sub[x] /\ x \notin sub[y]
          /\ sub[x] = {x} \cup sub[y] \cup sub[Child(t, x, RB!Other(d))]
      BY <2>1, <2>3, Below
    <2>5. /\ Fits(t, N, sub, key, p) /\ (key \in N => key \in sub[x])
          /\ x = IF p = RB!Nil THEN t.root ELSE Child(t, p, Dir(key, p))
          /\ Cardinality(sub[x]) + i <= Cardinality(N)
      BY <1>2 DEF Descending
    <2> HIDE DEF x, p, d, y
    <2>6. ASSUME NEW a \in N, NEW s \in Sides, x \in sub[Child(t, a, s)]
          PROVE  On(s, key, a)
      <3>1. Child(t, a, s) \in N
        BY <2>6 DEF Tree
      <3>2. CASE Child(t, a, s) = x
        <4>1. x # t.root /\ Parent(t, x) = a
          BY <2>1, <3>2 DEF Tree
        <4>2. p # RB!Nil /\ p \in N /\ x = Child(t, p, Dir(key, p))
          BY <2>1, <2>5, <4>1
        <4>3. key \in Nat /\ p \in Nat /\ key # p
          BY <2>1, <2>5, <4>2 DEF Fits
        <4>4. Dir(key, p) \in Sides /\ On(Dir(key, p), key, p)
          BY <4>3, DirIs
        <4>5. a = p /\ s = Dir(key, p)
          <5>1. Child(t, p, Dir(key, p)) # RB!Nil /\ Child(t, a, s) = Child(t, p, Dir(key, p))
            BY <2>1, <3>2, <4>2
          <5> QED
            BY <4>2, <4>4, <5>1, OneParent
        <4> QED
          BY <4>4, <4>5
      <3>3. CASE Child(t, a, s) # x
        <4>1. Parent(t, x) \in sub[Child(t, a, s)] /\ x # t.root
          BY <2>6, <3>1, <3>3, Nested
        <4>2. p \in N /\ x = Child(t, p, Dir(key, p))
          BY <2>1, <2>5, <4>1
        <4>3. Dir(key, p) \in Sides
          BY DEF Dir, Sides
        <4>4. Parent(t, x) = p
          <5>1. Child(t, p, Dir(key, p)) # RB!Nil
            BY <2>1, <4>2
          <5> QED
            BY <4>2, <4>3, <5>1, OneParent
        <4> QED
          BY <2>5, <4>1, <4>4 DEF Fits
      <3> QED
        BY <3>2, <3>3
    <2>7. Fits(t, N, sub, key, x)
      BY <1>2, <2>1, <2>6 DEF Fits, x
    <2>8. key \in N => key \in sub[y]
      <3> SUFFICES ASSUME key \in N, key \notin sub[y]
                   PROVE  FALSE
        OBVIOUS
      <3>1. key \in sub[Child(t, x, RB!Other(d))]
        BY <1>2, <2>4, <2>5 DEF x
      <3>2. RB!Other(d) \in Sides
        BY <2>3, OtherIs
      <3>3. On(RB!Other(d), key, x)
        BY <2>1, <3>1, <3>2 DEF Tree
      <3> QED
        BY <2>3, <3>3
    <2>9. Cardinality(sub[y]) + (i + 1) <= Cardinality(N)
      <3>1. sub[y] # sub[x]
        BY <2>4
      <3>2. Cardinality(sub[y]) < Cardinality(sub[x]) /\ Cardinality(sub[y]) \in Nat
            /\ Cardinality(sub[x]) \in Nat /\ Cardinality(N) \in Nat
        BY <2>1, <2>4, <3>1, SubtreeSize DEF Sizes
      <3> QED
        BY <2>5, <3>2
    <2>10. Descending(t, N, sub, key, <<y, x>>, i + 1)
      BY <2>1, <2>7, <2>8, <2>9 DEF Descending, y, d
    <2> QED
      BY <2>1, <2>2, <2>4, <2>10
  <1> QED
    BY <1>1, <1>2

LEMMA DescendIs ==
    ASSUME NEW t, NEW N, N = Keys(t), NEW sub, Tree(t, N, sub), NEW key \in Nat \ {RB!Nil}
    PROVE  /\ RB!Search(t, key) = IF key \in N THEN key ELSE RB!Nil
           /\ \E p \in N \cup {RB!Nil} :
                 /\ RB!Descend(t, key)[2] = p /\ Fits(t, N, sub, key, p)
                 /\ key \notin N => IF p = RB!Nil THEN t.root = RB!Nil ELSE Child(t, p, Dir(key, p)) = RB!Nil
  <1> DEFINE z == RB!Size(t)
             V == (N \cup {RB!Nil}) \X (N \cup {RB!Nil})
             start == <<t.root, RB!Nil>>
             F == [c \in V |-> RB!Down(t, key, c)]
             P == [i \in 0 .. z |-> {c \in V : Descending(t, N, sub, key, c, i)}]
             Def(at) == [i \in 0 .. z |-> IF i = 0 THEN <<t.root, RB!Nil>> ELSE RB!Down(t, key, at[i - 1])]
             loop == CHOOSE at : at = Def(at)
  <1>1. t.root \in N \cup {RB!Nil} /\ sub[t.root] = N /\ sub[RB!Nil] = {}
    BY DEF Tree
  <1>2. z \in Nat /\ z = Cardinality(N)
    <2>2. z = Cardinality(N)
      BY DEF RB!Size, RB!Keys, Keys, RB!Cardinality, Cardinality
    <2> QED
      BY <2>2, SubtreeSize DEF Sizes
  <1>3. start \in P[0]
    <2>1. start \in V
      BY <1>1
    <2>2. RB!Nil \notin N
      BY TreeNats
    <2>3. Fits(t, N, sub, key, RB!Nil)
      BY <2>2 DEF Fits, Tree
    <2>4. Descending(t, N, sub, key, start, 0)
      BY <1>1, <1>2, <2>3 DEF Descending
    <2> QED
      BY <1>2, <2>1, <2>4
  <1>4. ASSUME NEW i \in 1 .. z, NEW c \in P[i - 1]
        PROVE  RB!Down(t, key, c) \in P[i]
    <2>1. i - 1 \in 0 .. z /\ i \in 0 .. z /\ i - 1 \in Nat /\ (i - 1) + 1 = i
      BY <1>2
    <2>2. c \in V /\ Descending(t, N, sub, key, c, i - 1)
      BY <2>1
    <2>3. RB!Down(t, key, c) \in V /\ Descending(t, N, sub, key, RB!Down(t, key, c), (i - 1) + 1)
      BY <2>1, <2>2, DownIs
    <2> QED
      BY <2>1, <2>3
  <1>5. \A i \in 0 .. z : P[i] \subseteq V
    OBVIOUS
  <1>6. RB!Descend(t, key) = loop[z]
    BY DEF RB!Descend
  <1>7. loop[z] \in P[z]
    <2>1. \A i \in 1 .. z : \A c \in P[i - 1] : F[c] \in P[i]
      <3> SUFFICES ASSUME NEW i \in 1 .. z, NEW c \in P[i - 1]
                   PROVE  F[c] \in P[i]
        OBVIOUS
      <3>1. i - 1 \in 0 .. z
        BY <1>2
      <3>2. c \in V
        BY <1>5, <3>1
      <3> QED
        BY <1>4, <3>2
    <2>2. \A c \in V : F[c] = RB!Down(t, key, c)
      OBVIOUS
    <2> HIDE DEF z, V, F, P, Def
    <2>3. PICK g : Loop(g, z, V, F, start)
      <3> HIDE DEF start
      <3> QED
        BY <1>2, <1>3, <1>5, <2>1, LoopExists
    <2>4. g = Def(g)
      <3>1. \A i \in 1 .. z : g[i] = RB!Down(t, key, g[i - 1])
        BY <2>2, <2>3 DEF Loop
      <3>2. \A i \in 0 .. z : i # 0 => i \in 1 .. z
        BY <1>2
      <3>3. \A i \in 0 .. z : g[i] = IF i = 0 THEN <<t.root, RB!Nil>> ELSE RB!Down(t, key, g[i - 1])
        BY <2>3, <3>1, <3>2 DEF Loop
      <3> QED
        BY <2>3, <3>3, Zenon DEF Def, Loop
    <2>5. loop = Def(loop)
      BY <2>4
    <2> HIDE DEF loop
    <2>6. loop[0] = start /\ \A i \in 1 .. z : loop[i] = RB!Down(t, key, loop[i - 1])
      <3>1. \A i \in 0 .. z : loop[i] = IF i = 0 THEN <<t.root, RB!Nil>> ELSE RB!Down(t, key, loop[i - 1])
        BY <2>5, Zenon DEF Def
      <3> HIDE DEF Def
      <3> QED
        BY <1>2, <3>1
    <2>7. \A i \in 1 .. z : loop[i - 1] \in P[i - 1] => loop[i] \in P[i]
      BY <1>4, <2>6
    <2> QED
      BY <1>2, <1>3, <2>6, <2>7, LoopEnds
  <1> HIDE DEF loop
  <1> DEFINE x == loop[z][1]
             p == loop[z][2]
  <1>8. x \in N \cup {RB!Nil} /\ p \in N \cup {RB!Nil} /\ Descending(t, N, sub, key, loop[z], z)
    BY <1>2, <1>7
  <1>9. /\ Fits(t, N, sub, key, p) /\ (key \in N => key \in sub[x])
        /\ x = IF p = RB!Nil THEN t.root ELSE Child(t, p, Dir(key, p))
        /\ x \in {RB!Nil, key} \/ Cardinality(sub[x]) + z <= Cardinality(N)
    BY <1>8 DEF Descending
  <1>10. RB!Search(t, key) = x
    BY <1>6 DEF RB!Search
  <1> HIDE DEF x, p, z
  <1>11. x \in {RB!Nil, key}
    <2>1. x # RB!Nil => Cardinality(sub[x]) > 0 /\ Cardinality(sub[x]) \in Nat
      BY <1>8, SubtreeSize DEF Sizes
    <2> QED
      BY <1>2, <1>9, <2>1
  <1>12. x = IF key \in N THEN key ELSE RB!Nil
    BY <1>1, <1>8, <1>9, <1>11
  <1> QED
    BY <1>6, <1>8, <1>9, <1>10, <1>12 DEF p

(* u is t with the new red leaf key below p. *)
Attached(t, u, key, v, p) ==
    /\ Heap(u) /\ Keys(u) = Keys(t) \cup {key} /\ u.root = IF p = RB!Nil THEN key ELSE t.root
    /\ Black(u, key) = 0 /\ Parent(u, key) = p /\ Volume(u, key) = v
    /\ \A s \in Sides : Child(u, key, s) = RB!Nil
    /\ \A m \in Keys(t) : /\ Black(u, m) = Black(t, m)
                          /\ Parent(u, m) = Parent(t, m)
                          /\ Volume(u, m) = Volume(t, m)
    /\ \A m \in Keys(t), s \in Sides : Child(u, m, s) = IF m = p /\ s = Dir(key, p) THEN key ELSE Child(t, m, s)

LEMMA AttachIs ==
    ASSUME NEW t, Heap(t), NEW key \in Nat \ {RB!Nil}, key \notin Keys(t), NEW v \in Int,
           NEW p \in Keys(t) \cup {RB!Nil}
    PROVE  Attached(t, RB!Attach(t, key, v, p), key, v, p)
  <1> DEFINE N2 == Keys(t) \cup {key}
             nodes == [k \in N2 |-> IF k = key THEN RB!NewNode(v, p) ELSE t.node[k]]
             grown == [t EXCEPT !.node = nodes]
  <1>0. /\ RB!Nil \notin Keys(t) /\ IsFiniteSet(N2) /\ N2 \subseteq Nat \ {RB!Nil}
        /\ t.root \in Keys(t) \cup {RB!Nil} /\ \A m \in Keys(t) : t.node[m] \in Nodes(Keys(t))
        /\ t \in [root : Keys(t) \cup {RB!Nil}, node : [Keys(t) -> Nodes(Keys(t))]]
    BY FS_AddElement DEF Heap, Keys
  <1>1. RB!NewNode(v, p) \in Nodes(N2)
    BY DEF RB!NewNode, Nodes
  <1>2. \A m \in Keys(t) : t.node[m] \in Nodes(N2)
    BY <1>0 DEF Nodes
  <1>3. /\ grown = [root |-> t.root, node |-> nodes]
        /\ grown.root = t.root /\ Keys(grown) = N2
        /\ grown.node[key] = RB!NewNode(v, p) /\ \A m \in Keys(t) : grown.node[m] = t.node[m]
    <2> HIDE DEF N2
    <2>1. key \in N2 /\ Keys(t) \subseteq N2
      BY DEF N2
    <2>2. DOMAIN nodes = N2 /\ nodes[key] = RB!NewNode(v, p) /\ \A m \in Keys(t) : nodes[m] = t.node[m]
      BY <2>1
    <2> HIDE DEF nodes
    <2>3. grown = [root |-> t.root, node |-> nodes]
      <3> DEFINE R == Keys(t) \cup {RB!Nil}
                 S == [Keys(t) -> Nodes(Keys(t))]
      <3>1. t \in [root : R, node : S]
        BY <1>0
      <3> HIDE DEF R, S
      <3> QED
        BY <3>1
    <2> HIDE DEF grown
    <2> QED
      BY <2>2, <2>3 DEF Keys
  <1>4. Heap(grown)
    <2>1. t.root \in N2 \cup {RB!Nil}
      <3> HIDE DEF grown
      <3> QED
        BY <1>0
    <2>2. grown \in [root : N2 \cup {RB!Nil}, node : [N2 -> Nodes(N2)]]
      <3> HIDE DEF N2, grown
      <3>1. \A k \in N2 : (IF k = key THEN RB!NewNode(v, p) ELSE t.node[k]) \in Nodes(N2)
        BY <1>1, <1>2 DEF N2
      <3> QED
        BY <1>3, <2>1, <3>1
    <2> HIDE DEF N2, grown
    <2> QED
      BY <1>0, <1>3, <2>2 DEF Heap, Keys
  <1> HIDE DEF N2
  <1>5. RB!Attach(t, key, v, p) = IF p = RB!Nil THEN [grown EXCEPT !.root = key]
                                    ELSE RB!SetChild(grown, p, Dir(key, p), key)
    BY DEF RB!Attach, RB!Keys, Dir, N2, Keys
  <1> HIDE DEF grown
  <1>6. /\ Black(grown, key) = 0 /\ Parent(grown, key) = p /\ Volume(grown, key) = v
        /\ \A s \in Sides : Child(grown, key, s) = RB!Nil
    BY <1>3 DEF RB!NewNode, Black, Parent, Volume, Child, Sides
  <1>7. /\ \A m \in Keys(t) : /\ Black(grown, m) = Black(t, m)
                              /\ Parent(grown, m) = Parent(t, m)
                              /\ Volume(grown, m) = Volume(t, m)
        /\ \A m \in Keys(t), s \in Sides : Child(grown, m, s) = Child(t, m, s)
    BY <1>3 DEF Black, Parent, Volume, Child
  <1>8. CASE p = RB!Nil
    <2> DEFINE u == RB!Attach(t, key, v, p)
    <2>1. u.root = key /\ u.node = grown.node /\ Heap(u)
      <3>1. key \in N2
        BY DEF N2
      <3> QED
        BY <1>3, <1>4, <1>5, <1>8, <3>1 DEF Heap, Keys
    <2> HIDE DEF u
    <2>2. Attached(t, u, key, v, p)
      BY <1>0, <1>3, <1>6, <1>7, <1>8, <2>1 DEF Attached, Keys, Black, Parent, Volume, Child, N2
    <2> QED
      BY <2>2 DEF u
  <1>9. CASE p # RB!Nil
    <2> DEFINE u == RB!Attach(t, key, v, p)
    <2>1. p \in Keys(t) /\ p \in Keys(grown) /\ key \in Keys(grown) /\ p # key
      BY <1>3, <1>9 DEF N2
    <2>2. Dir(key, p) \in Sides
      BY DEF Dir, Sides
    <2>3. Linked(grown, u, p, Dir(key, p), key)
      BY <1>4, <1>5, <1>9, <2>1, <2>2, SetChildIs
    <2> HIDE DEF u
    <2>4. Keys(u) = Keys(t) \cup {key} /\ Heap(u) /\ u.root = t.root
      BY ONLY <1>3, <2>3 DEF Linked, N2
    <2>5. /\ Black(u, key) = 0 /\ Parent(u, key) = p /\ Volume(u, key) = v
          /\ \A s \in Sides : Child(u, key, s) = RB!Nil
      BY ONLY <1>6, <2>1, <2>3 DEF Linked
    <2>6. /\ Keys(t) \subseteq Keys(grown)
          /\ \A m \in Keys(t) : m # key
      BY <1>3 DEF N2
    <2>7. \A m \in Keys(t) : /\ Black(u, m) = Black(t, m)
                             /\ Parent(u, m) = Parent(t, m)
                             /\ Volume(u, m) = Volume(t, m)
      BY ONLY <1>7, <2>3, <2>6 DEF Linked
    <2>8. \A m \in Keys(t), s \in Sides : Child(u, m, s) = IF m = p /\ s = Dir(key, p) THEN key ELSE Child(t, m, s)
      BY ONLY <1>7, <2>3, <2>6 DEF Linked
    <2>9. Attached(t, u, key, v, p)
      BY ONLY <1>3, <1>9, <2>4, <2>5, <2>7, <2>8 DEF Attached
    <2> QED
      BY <2>9 DEF u
  <1> QED
    BY <1>8, <1>9

Grown(t, N, sub, key, p) ==
    [a \in N \cup {key, RB!Nil} |-> IF a = key THEN {key} ELSE IF p \in sub[a] THEN sub[a] \cup {key} ELSE sub[a]]

LEMMA AttachTree ==
    ASSUME NEW t, NEW N, NEW sub, NEW b, IsRedBlack(t, N, sub, b), N = Keys(t),
           NEW key \in Nat \ {RB!Nil}, key \notin N, NEW v, NEW p, Fits(t, N, sub, key, p),
           IF p = RB!Nil THEN t.root = RB!Nil ELSE Child(t, p, Dir(key, p)) = RB!Nil,
           NEW u, Attached(t, u, key, v, p)
    PROVE  Inserting(u, N \cup {key}, Grown(t, N, sub, key, p),
                     [a \in N \cup {key, RB!Nil} |-> IF a = key THEN 0 ELSE b[a]], key)
  <1> DEFINE M == N \cup {key}
             sub2 == Grown(t, N, sub, key, p)
             b2 == [a \in N \cup {key, RB!Nil} |-> IF a = key THEN 0 ELSE b[a]]
             d == Dir(key, p)
  <1>1. /\ Tree(t, N, sub) /\ Heights(N, b) /\ \A m \in N : Level(t, b, m)
        /\ \A m \in N, s \in Sides : Black(t, m) = 0 => BlackChild(t, m, s)
        /\ t.root # RB!Nil => Black(t, t.root) = 1
    BY DEF IsRedBlack
  <1>2. N \subseteq Nat /\ RB!Nil \notin N /\ RB!Nil = 0 /\ key # RB!Nil /\ key \in Nat
    BY <1>1, TreeNats
  <1>3. p \in N \cup {RB!Nil} /\ key # p /\ \A a \in N, s \in Sides : p \in sub[Child(t, a, s)] => On(s, key, a)
    BY DEF Fits
  <1>4. /\ Heap(u) /\ Keys(u) = M /\ u.root = IF p = RB!Nil THEN key ELSE t.root
        /\ Black(u, key) = 0 /\ Parent(u, key) = p /\ Volume(u, key) = v
        /\ \A s \in Sides : Child(u, key, s) = RB!Nil
        /\ \A m \in N : Black(u, m) = Black(t, m) /\ Parent(u, m) = Parent(t, m)
        /\ \A m \in N, s \in Sides : Child(u, m, s) = IF m = p /\ s = d THEN key ELSE Child(t, m, s)
    BY DEF Attached
  <1>5. p # RB!Nil => Child(t, p, d) = RB!Nil /\ d \in Sides /\ On(d, key, p)
    <2>1. p # RB!Nil => key \in Nat /\ p \in Nat /\ key # p
      BY <1>2, <1>3
    <2> QED
      BY <2>1, DirIs
  <1>6. /\ t.root \in N \cup {RB!Nil} /\ sub[t.root] = N /\ sub[RB!Nil] = {}
        /\ t.root # RB!Nil => Parent(t, t.root) = RB!Nil
        /\ \A n \in N \ {t.root} : Parent(t, n) \in N /\ \E s \in Sides : Child(t, Parent(t, n), s) = n
        /\ \A n \in N, s \in Sides :
              /\ Child(t, n, s) \in N \cup {RB!Nil}
              /\ Child(t, n, s) # RB!Nil => Parent(t, Child(t, n, s)) = n
              /\ \A m \in sub[Child(t, n, s)] : On(s, m, n)
        /\ \A n \in N : /\ sub[n] \subseteq N
                        /\ sub[n] = {n} \cup sub[Child(t, n, "left")] \cup sub[Child(t, n, "right")]
    BY <1>1 DEF Tree
  <1>7. p = RB!Nil => N = {}
    BY <1>6
  <1>8. /\ sub2[key] = {key} /\ sub2[RB!Nil] = {}
        /\ \A a \in N : sub2[a] = IF p \in sub[a] THEN sub[a] \cup {key} ELSE sub[a]
    BY <1>2, <1>6 DEF Grown
  <1>9. Heights(M, b2) /\ b2[key] = 0 /\ \A a \in N \cup {RB!Nil} : b2[a] = b[a] /\ b[a] \in Nat
    BY <1>1, <1>2 DEF Heights
  <1> HIDE DEF sub2, b2, d
  <1>10. /\ u.root \in M \cup {RB!Nil} /\ sub2[u.root] = M /\ sub2[RB!Nil] = {}
         /\ u.root # RB!Nil => Parent(u, u.root) = RB!Nil
    <2>1. CASE p = RB!Nil
      BY <1>4, <1>7, <1>8, <2>1
    <2>2. CASE p # RB!Nil
      <3>1. t.root \in N /\ p \in sub[t.root]
        BY <1>3, <1>6, <2>2
      <3>2. u.root = t.root
        BY <1>4, <2>2
      <3>3. Parent(u, t.root) = RB!Nil
        BY <1>2, <1>4, <1>6, <3>1
      <3>4. sub2[t.root] = M
        BY <1>6, <1>8, <3>1
      <3> QED
        BY <1>8, <3>1, <3>2, <3>3, <3>4
    <2> QED
      BY <2>1, <2>2
  <1>11. ASSUME NEW n \in M \ {u.root}
         PROVE  Parent(u, n) \in M /\ \E s \in Sides : Child(u, Parent(u, n), s) = n
    <2>1. CASE n = key
      BY <1>3, <1>4, <1>5, <1>11, <2>1
    <2>2. CASE n # key
      <3>1. n \in N /\ p # RB!Nil
        BY <1>7, <2>2
      <3>2. n # t.root /\ Parent(u, n) = Parent(t, n)
        BY <1>4, <1>11, <3>1
      <3>3. PICK s \in Sides : Parent(t, n) \in N /\ Child(t, Parent(t, n), s) = n
        BY <1>6, <3>1, <3>2
      <3>4. Child(u, Parent(t, n), s) = n
        BY <1>2, <1>4, <1>5, <3>1, <3>3
      <3> QED
        BY <3>2, <3>3, <3>4
    <2> QED
      BY <2>1, <2>2
  <1>12. ASSUME NEW n \in M, NEW s \in Sides
         PROVE  /\ Child(u, n, s) \in M \cup {RB!Nil}
                /\ Child(u, n, s) # RB!Nil => Parent(u, Child(u, n, s)) = n
                /\ \A m \in sub2[Child(u, n, s)] : On(s, m, n)
    <2>1. CASE n = key
      BY <1>4, <1>8, <2>1
    <2>2. CASE n \in N /\ n = p /\ s = d
      <3>1. Child(u, n, s) = key
        BY <1>4, <2>2
      <3> QED
        BY <1>2, <1>4, <1>5, <1>8, <2>2, <3>1
    <2>3. CASE n \in N /\ ~(n = p /\ s = d)
      <3>1. Child(u, n, s) = Child(t, n, s)
        BY <1>4, <2>3
      <3>2. Child(t, n, s) # RB!Nil => Parent(u, Child(t, n, s)) = n
        BY <1>4, <1>6, <2>3
      <3>3. \A m \in sub2[Child(t, n, s)] : On(s, m, n)
        <4> DEFINE c == Child(t, n, s)
        <4>1. c \in N \cup {RB!Nil} /\ \A m \in sub[c] : On(s, m, n)
          BY <1>6, <2>3
        <4>2. p \in sub[c] => On(s, key, n)
          BY <1>3, <2>3
        <4>3. sub2[c] = IF p \in sub[c] THEN sub[c] \cup {key} ELSE sub[c]
          BY <1>6, <1>8, <4>1
        <4> HIDE DEF c
        <4>4. \A m \in sub2[c] : On(s, m, n)
          BY <4>1, <4>2, <4>3
        <4> QED
          BY <4>4 DEF c
      <3> QED
        BY <1>6, <2>3, <3>1, <3>2, <3>3
    <2> QED
      BY <2>1, <2>2, <2>3
  <1>13. ASSUME NEW n \in M
         PROVE  /\ sub2[n] \subseteq M
                /\ sub2[n] = {n} \cup sub2[Child(u, n, "left")] \cup sub2[Child(u, n, "right")]
    <2>0. "left" \in Sides /\ "right" \in Sides
      BY DEF Sides
    <2>1. CASE n = key
      BY <1>4, <1>8, <2>0, <2>1
    <2>2. CASE n \in N /\ n = p
      <3>1. p \in sub[p] /\ sub[p] = {p} \cup sub[Child(t, p, RB!Other(d))]
            /\ p \notin sub[Child(t, p, RB!Other(d))] /\ Child(t, p, RB!Other(d)) \in N \cup {RB!Nil}
            /\ RB!Other(d) \in Sides /\ RB!Other(d) # d /\ p # RB!Nil
        BY <1>1, <1>2, <1>5, <1>6, <2>2, Below, OtherIs
      <3>2. Child(u, p, d) = key /\ Child(u, p, RB!Other(d)) = Child(t, p, RB!Other(d))
        BY <1>4, <1>5, <2>2, <3>1
      <3>3. sub2[Child(t, p, RB!Other(d))] = sub[Child(t, p, RB!Other(d))]
        BY <1>6, <1>8, <3>1
      <3>4. sub2[p] = {p} \cup sub2[Child(u, p, d)] \cup sub2[Child(u, p, RB!Other(d))]
        BY <1>8, <2>2, <3>1, <3>2, <3>3
      <3>5. d \in Sides
        BY <1>5, <3>1
      <3>6. sub2[p] \subseteq M
        <4>1. sub[p] \subseteq N /\ sub2[p] = sub[p] \cup {key}
          BY <1>6, <1>8, <2>2, <3>1
        <4> QED
          BY <4>1
      <3> QED
        BY <2>2, <3>4, <3>5, <3>6 DEF Sides, RB!Other
    <2>3. CASE n \in N /\ n # p
      <3>1. ASSUME NEW s \in Sides
            PROVE  sub2[Child(u, n, s)] = IF p \in sub[Child(t, n, s)] THEN sub[Child(t, n, s)] \cup {key}
                                          ELSE sub[Child(t, n, s)]
        <4>1. Child(u, n, s) = Child(t, n, s) /\ Child(t, n, s) \in N \cup {RB!Nil}
          BY <1>4, <1>6, <2>3
        <4>2. sub[RB!Nil] = {}
          BY <1>6
        <4> QED
          BY <1>8, <4>1, <4>2
      <3>2. sub[n] = {n} \cup sub[Child(t, n, "left")] \cup sub[Child(t, n, "right")] /\ sub[n] \subseteq N
        BY <1>6, <2>3
      <3>3. sub2[n] = IF p \in sub[n] THEN sub[n] \cup {key} ELSE sub[n]
        BY <1>8, <2>3
      <3> QED
        BY <2>0, <2>3, <3>1, <3>2, <3>3
    <2> QED
      BY <2>1, <2>2, <2>3
  <1>14. Tree(u, M, sub2)
    BY <1>4, <1>10, <1>11, <1>12, <1>13 DEF Tree
  <1>15. ASSUME NEW n \in M, NEW s \in Sides
         PROVE  b2[n] = b2[Child(u, n, s)] + Black(u, n)
    <2>1. CASE n = key
      BY <1>1, <1>4, <1>9, <2>1 DEF Heights
    <2>2. CASE n \in N
      <3>1. b[n] = b[Child(t, n, s)] + Black(t, n) /\ Child(t, n, s) \in N \cup {RB!Nil}
        BY <1>1, <1>6, <2>2 DEF Level
      <3>2. b2[Child(u, n, s)] = b[Child(t, n, s)]
        <4>1. CASE n = p /\ s = d
          BY <1>1, <1>2, <1>4, <1>5, <1>9, <2>2, <4>1 DEF Heights
        <4>2. CASE ~(n = p /\ s = d)
          BY <1>4, <1>9, <2>2, <3>1, <4>2
        <4> QED
          BY <4>1, <4>2
      <3> QED
        BY <1>4, <1>9, <2>2, <3>1, <3>2
    <2> QED
      BY <2>1, <2>2
  <1>16. ASSUME NEW n \in M, NEW s \in Sides, Black(u, n) = 0, Child(u, n, s) # key
         PROVE  BlackChild(u, n, s)
    <2>1. CASE n = key
      BY <1>4, <2>1 DEF BlackChild
    <2>2. CASE n \in N
      <3>1. Child(u, n, s) = Child(t, n, s) /\ BlackChild(t, n, s) /\ Child(t, n, s) \in N \cup {RB!Nil}
        BY <1>1, <1>4, <1>6, <1>16, <2>2
      <3> QED
        BY <1>4, <3>1 DEF BlackChild
    <2> QED
      BY <2>1, <2>2
  <1>17. u.root = key \/ Black(u, u.root) = 1
    <2>1. p # RB!Nil => t.root \in N /\ t.root # RB!Nil
      BY <1>2, <1>3, <1>6
    <2> QED
      BY <1>1, <1>4, <2>1
  <1>18. Inserting(u, M, sub2, b2, key)
    BY <1>4, <1>9, <1>14, <1>15, <1>16, <1>17 DEF Inserting, Level
  <1> QED
    BY <1>18 DEF sub2, b2

(* Every node has a volume, and the tree is a red-black tree. *)
Sound(t) == \E sub, b : IsRedBlack(t, Keys(t), sub, b)

LEMMA InsertIs ==
    ASSUME NEW t, Sound(t), NEW key \in Nat \ {RB!Nil}, key \notin Keys(t), NEW v \in Int
    PROVE  /\ Sound(RB!Insert(t, key, v)) /\ Keys(RB!Insert(t, key, v)) = Keys(t) \cup {key}
           /\ Volume(RB!Insert(t, key, v), key) = v
           /\ \A m \in Keys(t) : Volume(RB!Insert(t, key, v), m) = Volume(t, m)
  <1> DEFINE N == Keys(t)
             p == RB!Descend(t, key)[2]
             a == RB!Attach(t, key, v, p)
             u == RB!InsertFixup(a, key)
  <1>1. PICK sub, b : IsRedBlack(t, N, sub, b)
    BY DEF Sound
  <1>2. Tree(t, N, sub) /\ Heap(t)
    BY <1>1 DEF IsRedBlack, Tree
  <1>3. /\ p \in N \cup {RB!Nil} /\ Fits(t, N, sub, key, p)
        /\ IF p = RB!Nil THEN t.root = RB!Nil ELSE Child(t, p, Dir(key, p)) = RB!Nil
    BY <1>2, DescendIs
  <1> HIDE DEF p
  <1>4. Attached(t, a, key, v, p)
    BY <1>2, <1>3, AttachIs
  <1> HIDE DEF a
  <1>5. \E sub1, b1 : Inserting(a, N \cup {key}, sub1, b1, key)
    <2> DEFINE sub1 == Grown(t, N, sub, key, p)
               b1 == [i \in N \cup {key, RB!Nil} |-> IF i = key THEN 0 ELSE b[i]]
    <2>1. Inserting(a, N \cup {key}, sub1, b1, key)
      BY <1>1, <1>3, <1>4, AttachTree
    <2> HIDE DEF sub1, b1
    <2> QED
      BY <2>1
  <1>6. Keys(a) = N \cup {key} /\ Volume(a, key) = v /\ \A m \in N : Volume(a, m) = Volume(t, m)
    BY <1>4 DEF Attached
  <1>7. \E sub2, b2 : IsRedBlack(u, N \cup {key}, sub2, b2) /\ SameVolumes(a, u)
    <2> HIDE DEF u
    <2> QED
      BY <1>5, <1>6, InsertFixupIs DEF u
  <1>8. RB!Insert(t, key, v) = u
    BY DEF RB!Insert, u, a, p
  <1> HIDE DEF u
  <1>9. Keys(u) = N \cup {key}
    BY <1>6, <1>7 DEF SameVolumes
  <1>10. Sound(u)
    BY <1>7, <1>9 DEF Sound
  <1>11. Volume(u, key) = v /\ \A m \in N : Volume(u, m) = Volume(t, m)
    BY <1>6, <1>7 DEF SameVolumes
  <1> QED
    BY <1>8, <1>9, <1>10, <1>11

-----------------------------------------------------------------------------
(***************************************************************************)
(* Order                                                                   *)
(***************************************************************************)
LEMMA OnIs ==
    ASSUME NEW s \in Sides, NEW m \in Nat, NEW n \in Nat
    PROVE  /\ On(s, m, n) => On(RB!Other(s), n, m)
           /\ \A k \in Nat : On(s, k, m) /\ On(s, m, n) => On(s, k, n)
           /\ m # n => On(s, m, n) \/ On(RB!Other(s), m, n)
  BY DEF On, Sides, RB!Other

LEMMA SizeIs ==
    ASSUME NEW t, NEW sub, Tree(t, Keys(t), sub)
    PROVE  RB!Size(t) \in Nat /\ RB!Size(t) = Cardinality(Keys(t))
  <1>1. RB!Size(t) = Cardinality(Keys(t))
    BY DEF RB!Size, RB!Keys, Keys, RB!Cardinality, Cardinality
  <1> QED
    BY <1>1, SubtreeSize DEF Sizes

(* No node below n is further out than m. *)
Outermost(sub, n, side, m) == m \in sub[n] /\ \A k \in sub[n] : k # m => On(RB!Other(side), k, m)

Outwarding(t, N, sub, n, side, m, i) ==
    /\ m \in sub[n] /\ \A k \in sub[n] : k \in sub[m] \/ On(RB!Other(side), k, m)
    /\ Child(t, m, side) = RB!Nil \/ Cardinality(sub[m]) + i <= Cardinality(N)

LEMMA OutwardsIs ==
    ASSUME NEW t, NEW N, NEW sub, Tree(t, N, sub), NEW n \in N, NEW side \in Sides,
           NEW m \in N, NEW i \in Nat, Outwarding(t, N, sub, n, side, m, i)
    PROVE  /\ RB!Outwards(t, m, side) \in N
           /\ Outwarding(t, N, sub, n, side, RB!Outwards(t, m, side), i + 1)
  <1> DEFINE c == Child(t, m, side)
  <1>0. N \subseteq Nat /\ RB!Nil \notin N
    BY TreeNats
  <1>1. CASE c = RB!Nil
    <2>1. RB!Outwards(t, m, side) = m
      BY <1>1 DEF RB!Outwards, Child
    <2> QED
      BY <1>1, <2>1 DEF Outwarding
  <1>2. CASE c # RB!Nil
    <2>1. RB!Outwards(t, m, side) = c
      BY <1>0, <1>2 DEF RB!Outwards, Child
    <2>2. /\ c \in N /\ sub[c] \subseteq sub[m] /\ m \in sub[m] /\ m \notin sub[c] /\ c \in sub[c] /\ On(side, c, m)
          /\ sub[m] = {m} \cup sub[c] \cup sub[Child(t, m, RB!Other(side))]
      BY <1>2, Below
    <2> HIDE DEF c
    <2>3. m \in sub[n] /\ \A k \in sub[n] : k \in sub[m] \/ On(RB!Other(side), k, m)
      BY DEF Outwarding
    <2>4. sub[m] \subseteq sub[n] /\ sub[n] \subseteq N
      <3>1. sub[n] \subseteq N
        BY DEF Tree
      <3> QED
        BY <2>3, <3>1, Nested
    <2>5. ASSUME NEW k \in sub[n]
          PROVE  k \in sub[c] \/ On(RB!Other(side), k, c)
      <3>1. k \in Nat /\ c \in Nat /\ m \in Nat /\ RB!Other(side) \in Sides
        BY <1>0, <2>2, <2>4, OtherIs
      <3>2. On(RB!Other(side), m, c)
        BY <2>2, <3>1, OnIs
      <3>3. CASE On(RB!Other(side), k, m)
        BY <3>1, <3>2, <3>3, OnIs
      <3>4. CASE k \in sub[m]
        <4>1. k \in sub[Child(t, m, RB!Other(side))] => On(RB!Other(side), k, m)
          BY <3>1 DEF Tree
        <4> QED
          BY <2>2, <3>2, <3>3, <3>4, <4>1
      <3> QED
        BY <2>3, <3>3, <3>4
    <2>6. Cardinality(sub[c]) + (i + 1) <= Cardinality(N)
      <3>1. Cardinality(sub[m]) + i <= Cardinality(N)
        BY <1>2 DEF Outwarding, c
      <3>2. sub[c] # sub[m]
        BY <2>2
      <3>3. Cardinality(sub[c]) < Cardinality(sub[m]) /\ Cardinality(sub[c]) \in Nat
            /\ Cardinality(sub[m]) \in Nat /\ Cardinality(N) \in Nat
        BY <2>2, <3>2, SubtreeSize DEF Sizes
      <3> QED
        BY <3>1, <3>3
    <2>7. c \in sub[n]
      BY <2>2, <2>4
    <2>8. Outwarding(t, N, sub, n, side, c, i + 1)
      BY <2>5, <2>6, <2>7 DEF Outwarding
    <2> QED
      BY <2>1, <2>2, <2>8
  <1> QED
    BY <1>1, <1>2

LEMMA OuterIs ==
    ASSUME NEW t, NEW N, N = Keys(t), NEW sub, Tree(t, N, sub), NEW n \in N, NEW side \in Sides
    PROVE  /\ RB!OuterOf(t, n, side) \in N /\ Outermost(sub, n, side, RB!OuterOf(t, n, side))
           /\ Child(t, RB!OuterOf(t, n, side), side) = RB!Nil
  <1> DEFINE z == RB!Size(t)
             F == [m \in N |-> RB!Outwards(t, m, side)]
             P == [i \in 0 .. z |-> {m \in N : Outwarding(t, N, sub, n, side, m, i)}]
             Def(at) == [i \in 0 .. z |-> IF i = 0 THEN n ELSE RB!Outwards(t, at[i - 1], side)]
             loop == CHOOSE at : at = Def(at)
  <1>2. z \in Nat /\ z = Cardinality(N)
    BY SizeIs
  <1>3. n \in P[0]
    <2>1. n \in sub[n] /\ Cardinality(sub[n]) \in Nat /\ Cardinality(sub[n]) <= Cardinality(N)
      BY SubtreeSize DEF Sizes, Tree
    <2>2. Outwarding(t, N, sub, n, side, n, 0)
      BY <2>1 DEF Outwarding
    <2> QED
      BY <1>2, <2>2
  <1>4. ASSUME NEW i \in 1 .. z, NEW m \in P[i - 1]
        PROVE  RB!Outwards(t, m, side) \in P[i]
    <2>1. i - 1 \in 0 .. z /\ i \in 0 .. z /\ i - 1 \in Nat /\ (i - 1) + 1 = i
      BY <1>2
    <2>2. m \in N /\ Outwarding(t, N, sub, n, side, m, i - 1)
      BY <2>1
    <2>3. RB!Outwards(t, m, side) \in N /\ Outwarding(t, N, sub, n, side, RB!Outwards(t, m, side), (i - 1) + 1)
      BY <2>1, <2>2, OutwardsIs
    <2> QED
      BY <2>1, <2>3
  <1>5. \A i \in 0 .. z : P[i] \subseteq N
    OBVIOUS
  <1>6. RB!OuterOf(t, n, side) = loop[z]
    BY DEF RB!OuterOf
  <1>7. loop[z] \in P[z]
    <2>1. \A i \in 1 .. z : \A m \in P[i - 1] : F[m] \in P[i]
      <3> SUFFICES ASSUME NEW i \in 1 .. z, NEW m \in P[i - 1]
                   PROVE  F[m] \in P[i]
        OBVIOUS
      <3>1. i - 1 \in 0 .. z
        BY <1>2
      <3>2. m \in N
        BY <1>5, <3>1
      <3> QED
        BY <1>4, <3>2
    <2>2. \A m \in N : F[m] = RB!Outwards(t, m, side)
      OBVIOUS
    <2> HIDE DEF z, F, P, Def
    <2>3. PICK g : Loop(g, z, N, F, n)
      BY <1>2, <1>3, <1>5, <2>1, LoopExists
    <2>4. g = Def(g)
      <3>1. \A i \in 1 .. z : g[i] = RB!Outwards(t, g[i - 1], side)
        BY <2>2, <2>3 DEF Loop
      <3>2. \A i \in 0 .. z : i # 0 => i \in 1 .. z
        BY <1>2
      <3>3. \A i \in 0 .. z : g[i] = IF i = 0 THEN n ELSE RB!Outwards(t, g[i - 1], side)
        BY <2>3, <3>1, <3>2 DEF Loop
      <3> QED
        BY <2>3, <3>3, Zenon DEF Def, Loop
    <2>5. loop = Def(loop)
      BY <2>4
    <2> HIDE DEF loop
    <2>6. loop[0] = n /\ \A i \in 1 .. z : loop[i] = RB!Outwards(t, loop[i - 1], side)
      <3>1. \A i \in 0 .. z : loop[i] = IF i = 0 THEN n ELSE RB!Outwards(t, loop[i - 1], side)
        BY <2>5, Zenon DEF Def
      <3> QED
        BY <1>2, <3>1
    <2>7. \A i \in 1 .. z : loop[i - 1] \in P[i - 1] => loop[i] \in P[i]
      BY <1>4, <2>6
    <2> QED
      BY <1>2, <1>3, <2>6, <2>7, LoopEnds
  <1> DEFINE m == loop[z]
  <1>8. m \in N /\ Outwarding(t, N, sub, n, side, m, z)
    <2> HIDE DEF loop
    <2> QED
      BY <1>2, <1>7
  <1> HIDE DEF m, loop, z
  <1>9. Child(t, m, side) = RB!Nil
    <2>1. Cardinality(sub[m]) > 0 /\ Cardinality(sub[m]) \in Nat
      <3>1. m # RB!Nil
        BY <1>8, TreeNats
      <3> QED
        BY <1>8, <3>1, SubtreeSize DEF Sizes
    <2> QED
      BY <1>2, <1>8, <2>1 DEF Outwarding
  <1>10. Outermost(sub, n, side, m)
    <2>1. sub[m] = {m} \cup sub[RB!Nil] \cup sub[Child(t, m, RB!Other(side))] /\ sub[RB!Nil] = {}
      <3>1. sub[m] = {m} \cup sub[Child(t, m, side)] \cup sub[Child(t, m, RB!Other(side))]
        BY <1>8, Below
      <3> QED
        BY <1>9, <3>1 DEF Tree
    <2>2. \A k \in sub[Child(t, m, RB!Other(side))] : On(RB!Other(side), k, m)
      BY <1>8, OtherIs DEF Tree
    <2>3. m \in sub[n] /\ \A k \in sub[n] : k \in sub[m] \/ On(RB!Other(side), k, m)
      BY <1>8 DEF Outwarding
    <2> QED
      BY <2>1, <2>2, <2>3 DEF Outermost
  <1> QED
    BY <1>6, <1>8, <1>9, <1>10 DEF m

(* y comes next after n, or n is the last. *)
Follows(N, n, y) == IF y = RB!Nil THEN \A k \in N : k <= n
                    ELSE y \in N /\ n < y /\ \A k \in N : n < k => y <= k

Topmost(t, a) == Parent(t, a) = RB!Nil \/ Child(t, Parent(t, a), "right") # a

Ascending(t, sub, n, a, i) ==
    /\ n \in sub[a] /\ \A k \in sub[a] : k <= n
    /\ Topmost(t, a) \/ Cardinality(sub[a]) > i

LEMMA UpwardsIs ==
    ASSUME NEW t, NEW N, NEW sub, Tree(t, N, sub), NEW n \in N, NEW a \in N, NEW i \in Nat,
           Ascending(t, sub, n, a, i)
    PROVE  RB!Upwards(t, a) \in N /\ Ascending(t, sub, n, RB!Upwards(t, a), i + 1)
  <1> DEFINE p == Parent(t, a)
  <1>0. N \subseteq Nat /\ RB!Nil \notin N
    BY TreeNats
  <1>1. CASE Topmost(t, a)
    <2>1. RB!Upwards(t, a) = a
      BY <1>1 DEF RB!Upwards, Topmost, Parent, Child
    <2> QED
      BY <1>1, <2>1 DEF Ascending
  <1>2. CASE ~Topmost(t, a)
    <2>1. RB!Upwards(t, a) = p /\ p # RB!Nil /\ Child(t, p, "right") = a
      BY <1>2 DEF RB!Upwards, Topmost, Parent, Child
    <2>2. p \in N
      BY <2>1, PlaceOf
    <2> HIDE DEF p
    <2>3. "right" \in Sides /\ RB!Other("right") = "left" /\ "left" \in Sides
      BY DEF Sides, RB!Other
    <2>4. /\ sub[a] \subseteq sub[p] /\ p \in sub[p] /\ p \notin sub[a]
          /\ sub[p] = {p} \cup sub[a] \cup sub[Child(t, p, "left")]
      BY <2>1, <2>2, <2>3, Below
    <2>5. \A k \in sub[a] : On("right", k, p)
      BY <2>1, <2>2, <2>3 DEF Tree
    <2>6. \A k \in sub[Child(t, p, "left")] : On("left", k, p)
      BY <2>2, <2>3 DEF Tree
    <2>7. n \in sub[a] /\ (\A k \in sub[a] : k <= n) /\ Cardinality(sub[a]) > i
      BY <1>2 DEF Ascending
    <2>8. sub[p] \subseteq N
      BY <2>2 DEF Tree
    <2>9. p < n
      BY <2>5, <2>7 DEF On
    <2>10. \A k \in sub[p] : k <= n
      <3> SUFFICES ASSUME NEW k \in sub[p]
                   PROVE  k <= n
        OBVIOUS
      <3>1. k \in Nat /\ p \in Nat /\ n \in Nat
        BY <1>0, <2>2, <2>8
      <3>2. k \in sub[Child(t, p, "left")] => k < p
        BY <2>6 DEF On
      <3> QED
        BY <2>4, <2>7, <2>9, <3>1, <3>2
    <2>11. Cardinality(sub[p]) > i + 1
      <3>1. sub[a] # sub[p]
        BY <2>4
      <3>2. Cardinality(sub[a]) < Cardinality(sub[p]) /\ Cardinality(sub[a]) \in Nat /\ Cardinality(sub[p]) \in Nat
        BY <2>2, <2>4, <3>1, SubtreeSize DEF Sizes
      <3> QED
        BY <2>7, <3>2
    <2>12. Ascending(t, sub, n, p, i + 1)
      BY <2>4, <2>7, <2>10, <2>11 DEF Ascending
    <2> QED
      BY <2>1, <2>2, <2>12
  <1> QED
    BY <1>1, <1>2

LEMMA AscendIs ==
    ASSUME NEW t, NEW N, N = Keys(t), NEW sub, Tree(t, N, sub), NEW n \in N, Child(t, n, "right") = RB!Nil
    PROVE  Follows(N, n, RB!Ascend(t, n))
  <1> DEFINE z == RB!Size(t)
             F == [a \in N |-> RB!Upwards(t, a)]
             P == [i \in 0 .. z |-> {a \in N : Ascending(t, sub, n, a, i)}]
             Def(at) == [i \in 0 .. z |-> IF i = 0 THEN n ELSE RB!Upwards(t, at[i - 1])]
             loop == CHOOSE at : at = Def(at)
  <1>1. N \subseteq Nat /\ RB!Nil \notin N
    BY TreeNats
  <1>2. z \in Nat /\ z = Cardinality(N)
    BY SizeIs
  <1>3. n \in P[0]
    <2>1. n \in sub[n] /\ Cardinality(sub[n]) > 0
      <3>1. Sizes(N, sub)
        BY SubtreeSize
      <3>2. n \in sub[n]
        BY DEF Tree
      <3> QED
        BY <1>1, <3>1, <3>2 DEF Sizes
    <2>2. sub[n] = {n} \cup sub[Child(t, n, "left")] /\ sub[n] \subseteq N
      BY DEF Tree
    <2>3. \A k \in sub[Child(t, n, "left")] : On("left", k, n)
      BY DEF Tree, Sides
    <2>4. \A k \in sub[n] : k <= n
      BY <1>1, <2>2, <2>3 DEF On
    <2>5. Ascending(t, sub, n, n, 0)
      BY <2>1, <2>4 DEF Ascending
    <2> QED
      BY <1>2, <2>5
  <1>4. ASSUME NEW i \in 1 .. z, NEW a \in P[i - 1]
        PROVE  RB!Upwards(t, a) \in P[i]
    <2>1. i - 1 \in 0 .. z /\ i \in 0 .. z /\ i - 1 \in Nat /\ (i - 1) + 1 = i
      BY <1>2
    <2>2. a \in N /\ Ascending(t, sub, n, a, i - 1)
      BY <2>1
    <2>3. RB!Upwards(t, a) \in N /\ Ascending(t, sub, n, RB!Upwards(t, a), (i - 1) + 1)
      BY <2>1, <2>2, UpwardsIs
    <2> QED
      BY <2>1, <2>3
  <1>5. \A i \in 0 .. z : P[i] \subseteq N
    OBVIOUS
  <1>6. RB!Ascend(t, n) = Parent(t, loop[z])
    BY DEF RB!Ascend, Parent
  <1>7. loop[z] \in P[z]
    <2>1. \A i \in 1 .. z : \A a \in P[i - 1] : F[a] \in P[i]
      <3> SUFFICES ASSUME NEW i \in 1 .. z, NEW a \in P[i - 1]
                   PROVE  F[a] \in P[i]
        OBVIOUS
      <3>1. i - 1 \in 0 .. z
        BY <1>2
      <3>2. a \in N
        BY <1>5, <3>1
      <3> QED
        BY <1>4, <3>2
    <2>2. \A a \in N : F[a] = RB!Upwards(t, a)
      OBVIOUS
    <2> HIDE DEF z, F, P, Def
    <2>3. PICK g : Loop(g, z, N, F, n)
      BY <1>2, <1>3, <1>5, <2>1, LoopExists
    <2>4. g = Def(g)
      <3>1. \A i \in 1 .. z : g[i] = RB!Upwards(t, g[i - 1])
        BY <2>2, <2>3 DEF Loop
      <3>2. \A i \in 0 .. z : i # 0 => i \in 1 .. z
        BY <1>2
      <3>3. \A i \in 0 .. z : g[i] = IF i = 0 THEN n ELSE RB!Upwards(t, g[i - 1])
        BY <2>3, <3>1, <3>2 DEF Loop
      <3> QED
        BY <2>3, <3>3, Zenon DEF Def, Loop
    <2>5. loop = Def(loop)
      BY <2>4
    <2> HIDE DEF loop
    <2>6. loop[0] = n /\ \A i \in 1 .. z : loop[i] = RB!Upwards(t, loop[i - 1])
      <3>1. \A i \in 0 .. z : loop[i] = IF i = 0 THEN n ELSE RB!Upwards(t, loop[i - 1])
        BY <2>5, Zenon DEF Def
      <3> QED
        BY <1>2, <3>1
    <2>7. \A i \in 1 .. z : loop[i - 1] \in P[i - 1] => loop[i] \in P[i]
      BY <1>4, <2>6
    <2> QED
      BY <1>2, <1>3, <2>6, <2>7, LoopEnds
  <1> DEFINE a == loop[z]
             p == Parent(t, a)
  <1>8. a \in N /\ Ascending(t, sub, n, a, z)
    <2> HIDE DEF loop
    <2> QED
      BY <1>2, <1>7
  <1>9. RB!Ascend(t, n) = p
    BY <1>6
  <1> HIDE DEF p, a, loop, z
  <1>10. n \in sub[a] /\ (\A k \in sub[a] : k <= n) /\ Topmost(t, a)
    <2>1. Cardinality(sub[a]) <= Cardinality(N) /\ Cardinality(sub[a]) \in Nat
      BY <1>8, SubtreeSize DEF Sizes
    <2> QED
      BY <1>2, <1>8, <2>1 DEF Ascending
  <1>11. CASE p = RB!Nil
    <2>1. sub[a] = N
      BY <1>1, <1>8, <1>11 DEF Tree, p
    <2> QED
      BY <1>9, <1>10, <1>11, <2>1 DEF Follows
  <1>12. CASE p # RB!Nil
    <2> DEFINE s == RB!SideOf(t, a, p)
    <2>1. p \in N /\ s \in Sides /\ Child(t, p, s) = a
      BY <1>8, <1>12, PlaceOf DEF p
    <2>2. s = "left"
      BY <1>10, <1>12, <2>1 DEF Topmost, p, Sides
    <2>3. Child(t, p, "left") = a
      BY <2>1, <2>2
    <2> HIDE DEF s
    <2>4. "left" \in Sides /\ "right" \in Sides /\ RB!Other("left") = "right"
      BY DEF Sides, RB!Other
    <2>5. sub[p] = {p} \cup sub[a] \cup sub[Child(t, p, "right")] /\ p \in sub[p] /\ n \in sub[p]
      BY <1>10, <2>1, <2>3, <2>4, Below
    <2>6. (\A k \in sub[a] : On("left", k, p)) /\ \A k \in sub[Child(t, p, "right")] : On("right", k, p)
      BY <2>1, <2>3, <2>4 DEF Tree
    <2>7. n < p
      BY <1>10, <2>6 DEF On
    <2>8. ASSUME NEW k \in N, n < k
          PROVE  p <= k
      <3>1. k \in Nat /\ p \in Nat /\ n \in Nat
        BY <1>1, <2>1
      <3>2. CASE k \in sub[p]
        <4>1. k \notin sub[a]
          BY <1>10, <2>8, <3>1
        <4>2. CASE k = p
          BY <3>1, <4>2
        <4>3. CASE k # p
          BY <2>5, <2>6, <3>1, <3>2, <4>1, <4>3 DEF On
        <4> QED
          BY <4>2, <4>3
      <3>3. CASE k \notin sub[p]
        <4>1. (\A m \in sub[p] : k < m) \/ (\A m \in sub[p] : m < k)
          BY <2>1, <3>3, Convex
        <4>2. ~(k < n)
          BY <2>8, <3>1
        <4> QED
          BY <2>5, <3>1, <4>1, <4>2
      <3> QED
        BY <3>2, <3>3
    <2> QED
      BY <1>9, <1>12, <2>1, <2>7, <2>8 DEF Follows
  <1> QED
    BY <1>11, <1>12

LEMMA SuccessorIs ==
    ASSUME NEW t, NEW N, N = Keys(t), NEW sub, Tree(t, N, sub), NEW n \in N
    PROVE  /\ Follows(N, n, RB!Successor(t, n))
           /\ Child(t, n, "right") # RB!Nil =>
                 RB!Successor(t, n) \in N /\ Child(t, RB!Successor(t, n), "left") = RB!Nil
  <1> DEFINE r == Child(t, n, "right")
             y == RB!OuterOf(t, r, "left")
  <1>1. N \subseteq Nat /\ RB!Nil \notin N
    BY TreeNats
  <1>2. CASE r = RB!Nil
    <2>1. RB!Successor(t, n) = RB!Ascend(t, n)
      BY <1>2 DEF RB!Successor, Child
    <2> QED
      BY <1>2, <2>1, AscendIs
  <1>3. CASE r # RB!Nil
    <2>1. RB!Successor(t, n) = y
      BY <1>3 DEF RB!Successor, Child
    <2>2. "left" \in Sides /\ "right" \in Sides /\ RB!Other("left") = "right" /\ RB!Other("right") = "left"
      BY DEF Sides, RB!Other
    <2>3. r \in N /\ sub[r] \subseteq sub[n] /\ sub[n] = {n} \cup sub[r] \cup sub[Child(t, n, "left")] /\ n \in sub[n]
      BY <1>3, <2>2, Below
    <2>8. \A k \in sub[r] : On("right", k, n)
      BY <2>2 DEF Tree
    <2>9. \A k \in sub[Child(t, n, "left")] : On("left", k, n)
      BY <2>2 DEF Tree
    <2> HIDE DEF r
    <2>4. y \in N /\ Outermost(sub, r, "left", y) /\ Child(t, y, "left") = RB!Nil
      BY <2>2, <2>3, OuterIs
    <2> HIDE DEF y
    <2>5. y \in sub[r] /\ \A k \in sub[r] : k # y => On("right", k, y)
      BY <2>2, <2>4 DEF Outermost
    <2>6. n < y
      BY <2>5, <2>8 DEF On
    <2>7. ASSUME NEW k \in N, n < k
          PROVE  y <= k
      <3>1. k \in Nat /\ y \in Nat /\ n \in Nat
        BY <1>1, <2>4
      <3>2. CASE k \in sub[n]
        <4>1. k # n /\ ~On("left", k, n)
          BY <2>7, <3>1 DEF On
        <4>2. k \in sub[r]
          BY <2>3, <2>9, <3>2, <4>1
        <4> QED
          BY <2>5, <3>1, <4>2 DEF On
      <3>3. CASE k \notin sub[n]
        <4>1. (\A m \in sub[n] : k < m) \/ (\A m \in sub[n] : m < k)
          BY <3>3, Convex
        <4>2. ~(k < n)
          BY <2>7, <3>1
        <4>3. y \in sub[n]
          BY <2>3, <2>5
        <4> QED
          BY <2>3, <3>1, <4>1, <4>2, <4>3
      <3> QED
        BY <3>2, <3>3
    <2>10. y # RB!Nil
      BY <1>1, <2>4
    <2>11. Follows(N, n, y)
      BY <2>4, <2>6, <2>7, <2>10 DEF Follows
    <2> QED
      BY <2>1, <2>4, <2>11
  <1> QED
    BY <1>2, <1>3

-----------------------------------------------------------------------------
(***************************************************************************)
(* Delete                                                                  *)
(***************************************************************************)
(* u is t with x in the place of y, below p. *)
Cut(t, u, N, y, x, p) ==
    /\ Heap(u) /\ Keys(u) = Keys(t) /\ u.root = IF p = RB!Nil THEN x ELSE t.root
    /\ \A m \in Keys(t) : /\ Black(u, m) = Black(t, m)
                          /\ Volume(u, m) = Volume(t, m)
                          /\ Parent(u, m) = IF m = x THEN p ELSE Parent(t, m)
    /\ \A m \in N, s \in Sides : Child(u, m, s) = IF Child(t, m, s) = y THEN x ELSE Child(t, m, s)

LEMMA CutIs ==
    ASSUME NEW t, NEW N, NEW sub, Tree(t, N, sub), NEW y \in N, NEW x \in N \cup {RB!Nil},
           NEW p, p = Parent(t, y)
    PROVE  Cut(t, RB!Hang(RB!SetParent(t, x, p), p, y, x), N, y, x, p)
  <1> DEFINE a == RB!SetParent(t, x, p)
             u == RB!Hang(a, p, y, x)
             e == RB!SideOf(a, y, p)
  <1>1. N \subseteq Keys(t) /\ Heap(t)
    BY DEF Tree
  <1>2. RB!Nil \notin N
    BY TreeNats
  <1>3. p \in N \cup {RB!Nil} /\ (p = RB!Nil => y = t.root)
    <2>1. y # t.root => p \in N
      BY DEF Tree
    <2>2. y = t.root => p = RB!Nil
      BY <1>2 DEF Tree
    <2> QED
      BY <1>2, <2>1, <2>2
  <1>4. Adopted(t, a, x, p)
    BY <1>1, <1>3, SetParentIs
  <1> HIDE DEF a
  <1>5. Heap(a) /\ Keys(a) = Keys(t)
    BY <1>4 DEF Adopted
  <1>6. Hung(a, u, p, y, x)
    BY <1>1, <1>3, <1>5, HangIs
  <1> HIDE DEF u
  <1>7. ASSUME NEW m \in N, NEW s \in Sides
        PROVE  Child(t, m, s) = y <=> m = p /\ s = e
    <2>1. CASE p = RB!Nil
      <3>1. Child(t, m, s) = y => Parent(t, y) = m
        BY <1>2 DEF Tree
      <3> QED
        BY <1>2, <2>1, <3>1
    <2>2. CASE p # RB!Nil
      <3>1. e = RB!SideOf(t, y, p)
        <4>1. Child(a, p, "left") = Child(t, p, "left")
          BY <1>1, <1>3, <1>4, <2>2 DEF Adopted, Sides
        <4> QED
          BY <4>1 DEF RB!SideOf, Child
      <3> HIDE DEF e
      <3>2. Child(t, p, e) = y /\ \A i \in N, r \in Sides : Child(t, i, r) = y => i = p /\ r = e
        BY <2>2, <3>1, PlaceOf
      <3> QED
        BY <3>2
    <2> QED
      BY <2>1, <2>2
  <1>8. /\ Heap(u) /\ Keys(u) = Keys(t) /\ u.root = IF p = RB!Nil THEN x ELSE t.root
        /\ \A m \in Keys(t) : /\ Black(u, m) = Black(t, m)
                              /\ Volume(u, m) = Volume(t, m)
                              /\ Parent(u, m) = IF m = x THEN p ELSE Parent(t, m)
    BY <1>4, <1>6 DEF Adopted, Hung
  <1>9. \A m \in N, s \in Sides : Child(u, m, s) = IF Child(t, m, s) = y THEN x ELSE Child(t, m, s)
    <2> HIDE DEF e
    <2>1. \A m \in N, s \in Sides : Child(u, m, s) = IF m = p /\ s = e THEN x ELSE Child(t, m, s)
      BY <1>1, <1>4, <1>6 DEF Adopted, Hung, e
    <2> QED
      BY <1>7, <2>1
  <1>10. Cut(t, u, N, y, x, p)
    BY <1>8, <1>9 DEF Cut
  <1> QED
    BY <1>10 DEF u, a

Pruned(N, sub, y) == [a \in (N \ {y}) \cup {RB!Nil} |-> sub[a] \ {y}]

Severed(t, u, N, y, x, p) ==
    /\ x \in (N \ {y}) \cup {RB!Nil} /\ p \in (N \ {y}) \cup {RB!Nil}
    /\ p = RB!Nil => u.root = x
    /\ p # RB!Nil => /\ t.root # y /\ u.root = t.root
                       /\ \E d \in Sides : /\ Child(t, p, d) = y /\ Child(t, p, RB!Other(d)) # y
                                           /\ Child(u, p, d) = x
    /\ \A m \in N \ {y}, r \in Sides : Child(t, m, r) = y => m = p

LEMMA CutTree ==
    ASSUME NEW t, NEW N, NEW sub, Tree(t, N, sub), NEW y \in N, NEW s \in Sides, Child(t, y, s) = RB!Nil,
           NEW x, x = Child(t, y, RB!Other(s)), NEW p, p = Parent(t, y), NEW u, Cut(t, u, N, y, x, p)
    PROVE  Tree(u, N \ {y}, Pruned(N, sub, y)) /\ Severed(t, u, N, y, x, p)
  <1> DEFINE M == N \ {y}
             sub2 == Pruned(N, sub, y)
  <1>1. N \subseteq Keys(t) /\ Heap(u) /\ Keys(u) = Keys(t) /\ N \subseteq Nat /\ RB!Nil \notin N
    <2>1. N \subseteq Keys(t)
      BY DEF Tree
    <2> QED
      BY <2>1, TreeNats DEF Cut
  <1>2. /\ t.root \in N \cup {RB!Nil} /\ sub[t.root] = N /\ sub[RB!Nil] = {}
        /\ t.root # RB!Nil => Parent(t, t.root) = RB!Nil
        /\ \A n \in N \ {t.root} : Parent(t, n) \in N /\ \E r \in Sides : Child(t, Parent(t, n), r) = n
        /\ \A n \in N, r \in Sides :
              /\ Child(t, n, r) \in N \cup {RB!Nil}
              /\ Child(t, n, r) # RB!Nil => Parent(t, Child(t, n, r)) = n
              /\ \A m \in sub[Child(t, n, r)] : On(r, m, n)
        /\ \A n \in N : /\ sub[n] \subseteq N
                        /\ sub[n] = {n} \cup sub[Child(t, n, "left")] \cup sub[Child(t, n, "right")]
    BY DEF Tree
  <1>3. /\ u.root = IF p = RB!Nil THEN x ELSE t.root
        /\ \A m \in N : Parent(u, m) = IF m = x THEN p ELSE Parent(t, m)
        /\ \A m \in N, r \in Sides : Child(u, m, r) = IF Child(t, m, r) = y THEN x ELSE Child(t, m, r)
    BY <1>1 DEF Cut
  <1>4. /\ x \in N \cup {RB!Nil} /\ x # y /\ sub[y] = {y} \cup sub[x] /\ y \notin sub[x]
        /\ x # RB!Nil => Parent(t, x) = y
        /\ \A r \in Sides : Child(t, y, r) \in {x, RB!Nil}
    <2>1. RB!Other(s) \in Sides /\ RB!Other(RB!Other(s)) = s /\ \A r \in Sides : r = s \/ r = RB!Other(s)
      BY OtherIs
    <2>2. x \in N \cup {RB!Nil} /\ x # y /\ sub[y] = {y} \cup sub[x] \cup sub[RB!Nil] /\ y \notin sub[x]
      BY <1>1, <2>1, Below
    <2> QED
      BY <1>2, <2>1, <2>2
  <1>5. p = RB!Nil => y = t.root
    BY <1>1, <1>2
  <1>6. p # RB!Nil => /\ p \in N /\ p # y /\ y # t.root
                        /\ \E d \in Sides : Child(t, p, d) = y /\ Child(t, p, RB!Other(d)) # y
    <2> SUFFICES ASSUME p # RB!Nil
                 PROVE  /\ p \in N /\ p # y /\ y # t.root
                        /\ \E d \in Sides : Child(t, p, d) = y /\ Child(t, p, RB!Other(d)) # y
      OBVIOUS
    <2> DEFINE d == RB!SideOf(t, y, p)
    <2>1. p \in N /\ p # y /\ y # t.root /\ d \in Sides /\ Child(t, p, d) = y
          /\ \A m \in N, r \in Sides : Child(t, m, r) = y => m = p /\ r = d
      BY PlaceOf
    <2> HIDE DEF d
    <2>2. RB!Other(d) \in Sides /\ RB!Other(d) # d
      BY <2>1, OtherIs
    <2> QED
      BY <2>1, <2>2
  <1>7. \A m \in N, r \in Sides : Child(t, m, r) = y => m = p
    BY <1>1, <1>2
  <1>8. \A a \in M \cup {RB!Nil} : sub2[a] = sub[a] \ {y}
    BY DEF Pruned
  <1> HIDE DEF sub2
  <1>9. /\ u.root \in M \cup {RB!Nil} /\ sub2[u.root] = M /\ sub2[RB!Nil] = {}
        /\ u.root # RB!Nil => Parent(u, u.root) = RB!Nil
    <2>1. CASE p = RB!Nil
      <3>1. u.root = x /\ sub[y] = N
        BY <1>2, <1>3, <1>5, <2>1
      <3>2. sub2[x] = M
        BY <1>4, <1>8, <3>1
      <3>3. x # RB!Nil => Parent(u, x) = RB!Nil
        BY <1>3, <1>4, <2>1
      <3> QED
        BY <1>2, <1>4, <1>8, <3>1, <3>2, <3>3
    <2>2. CASE p # RB!Nil
      <3>1. u.root = t.root /\ t.root # y /\ t.root \in N
        BY <1>2, <1>3, <1>6, <2>2
      <3>2. t.root # x
        BY <1>1, <1>2, <1>4, <3>1
      <3>3. Parent(u, t.root) = RB!Nil
        BY <1>1, <1>2, <1>3, <3>1, <3>2
      <3> QED
        BY <1>2, <1>8, <3>1, <3>3
    <2> QED
      BY <2>1, <2>2
  <1>10. ASSUME NEW n \in M \ {u.root}
         PROVE  Parent(u, n) \in M /\ \E r \in Sides : Child(u, Parent(u, n), r) = n
    <2>1. CASE n = x
      <3>1. p # RB!Nil /\ Parent(u, n) = p
        BY <1>3, <1>10, <2>1
      <3>2. PICK d \in Sides : Child(t, p, d) = y
        BY <1>6, <3>1
      <3> QED
        BY <1>3, <1>6, <2>1, <3>1, <3>2
    <2>2. CASE n # x
      <3>1. n # t.root
        BY <1>3, <1>5, <1>10
      <3>2. Parent(u, n) = Parent(t, n)
        BY <1>3, <2>2
      <3>3. PICK r \in Sides : Parent(t, n) \in N /\ Child(t, Parent(t, n), r) = n
        BY <1>2, <3>1
      <3>4. Parent(t, n) # y
        BY <1>1, <1>4, <2>2, <3>3
      <3> QED
        BY <1>3, <3>2, <3>3, <3>4
    <2> QED
      BY <2>1, <2>2
  <1>11. ASSUME NEW n \in M, NEW r \in Sides
         PROVE  /\ Child(u, n, r) \in M \cup {RB!Nil}
                /\ Child(u, n, r) # RB!Nil => Parent(u, Child(u, n, r)) = n
                /\ \A m \in sub2[Child(u, n, r)] : On(r, m, n)
    <2>1. CASE Child(t, n, r) = y
      <3>1. Child(u, n, r) = x /\ n = p
        BY <1>3, <1>7, <2>1
      <3>2. sub2[x] \subseteq sub[y]
        BY <1>4, <1>8
      <3>3. \A m \in sub[y] : On(r, m, n)
        BY <1>2, <2>1
      <3> QED
        BY <1>3, <1>4, <3>1, <3>2, <3>3
    <2>2. CASE Child(t, n, r) # y
      <3>1. Child(u, n, r) = Child(t, n, r) /\ Child(t, n, r) \in M \cup {RB!Nil}
        BY <1>2, <1>3, <2>2
      <3>2. Child(t, n, r) # RB!Nil => Child(t, n, r) # x
        BY <1>2, <1>4
      <3>3. Child(t, n, r) # RB!Nil => Parent(u, Child(t, n, r)) = n
        BY <1>2, <1>3, <3>1, <3>2
      <3>4. sub2[Child(t, n, r)] \subseteq sub[Child(t, n, r)]
        BY <1>8, <3>1
      <3> QED
        BY <1>2, <3>1, <3>3, <3>4
    <2> QED
      BY <2>1, <2>2
  <1>12. ASSUME NEW n \in M
         PROVE  /\ sub2[n] \subseteq M
                /\ sub2[n] = {n} \cup sub2[Child(u, n, "left")] \cup sub2[Child(u, n, "right")]
    <2>1. ASSUME NEW r \in Sides
          PROVE  sub2[Child(u, n, r)] = sub[Child(t, n, r)] \ {y}
      <3>1. CASE Child(t, n, r) = y
        BY <1>3, <1>4, <1>8, <3>1
      <3>2. CASE Child(t, n, r) # y
        BY <1>2, <1>3, <1>8, <3>2
      <3> QED
        BY <3>1, <3>2
    <2>2. "left" \in Sides /\ "right" \in Sides
      BY DEF Sides
    <2>3. sub2[n] = sub[n] \ {y} /\ sub[n] \subseteq N
          /\ sub[n] = {n} \cup sub[Child(t, n, "left")] \cup sub[Child(t, n, "right")]
      BY <1>2, <1>8
    <2> QED
      BY <2>1, <2>2, <2>3
  <1>13. Tree(u, M, sub2)
    BY <1>1, <1>9, <1>10, <1>11, <1>12 DEF Tree
  <1>14. p # RB!Nil => \E d \in Sides : /\ Child(t, p, d) = y /\ Child(t, p, RB!Other(d)) # y
                                          /\ Child(u, p, d) = x
    BY <1>3, <1>6
  <1> QED
    BY <1>3, <1>4, <1>6, <1>7, <1>13, <1>14 DEF sub2, Severed

(* The loop of Delete: below p, on side d, the subtree of x has one black node
   too few; x and its parent may be red, and so may the root be if it is x. *)
Deleting(t, N, sub, b, x, p, d) ==
    /\ Tree(t, N, sub) /\ Heights(N, b)
    /\ x \in N \cup {RB!Nil} /\ p \in N \cup {RB!Nil} /\ d \in Sides
    /\ \A m \in N \ {p} : Level(t, b, m)
    /\ p = RB!Nil => t.root = x
    /\ p # RB!Nil => /\ Child(t, p, d) = x /\ b[Child(t, p, RB!Other(d))] = b[x] + 1
                       /\ b[p] = b[x] + 1 + Black(t, p)
    /\ \A m \in N, s \in Sides : Black(t, m) = 0 /\ m # x /\ Child(t, m, s) # x => BlackChild(t, m, s)
    /\ t.root # RB!Nil /\ Black(t, t.root) = 0 => t.root = x

(* A red node is cut without a loss, *)
LEMMA CutRed ==
    ASSUME NEW t, NEW N, NEW sub, NEW b, IsRedBlack(t, N, sub, b),
           NEW y \in N, Black(t, y) = 0, NEW s \in Sides, Child(t, y, s) = RB!Nil,
           NEW x, x = Child(t, y, RB!Other(s)), NEW p, p = Parent(t, y), NEW u, Cut(t, u, N, y, x, p)
    PROVE  IsRedBlack(u, N \ {y}, Pruned(N, sub, y), [a \in (N \ {y}) \cup {RB!Nil} |-> b[a]])
  <1> DEFINE M == N \ {y}
             sub2 == Pruned(N, sub, y)
             b2 == [a \in (N \ {y}) \cup {RB!Nil} |-> b[a]]
  <1>1. /\ Tree(t, N, sub) /\ Heights(N, b) /\ \A m \in N : Level(t, b, m)
        /\ \A m \in N, r \in Sides : Black(t, m) = 0 => BlackChild(t, m, r)
        /\ t.root # RB!Nil => Black(t, t.root) = 1
    BY DEF IsRedBlack
  <1>2. N \subseteq Keys(t) /\ RB!Nil \notin N /\ t.root \in N \cup {RB!Nil}
        /\ \A m \in N, r \in Sides : Child(t, m, r) \in N \cup {RB!Nil}
    <2>1. N \subseteq Keys(t) /\ t.root \in N \cup {RB!Nil}
          /\ \A m \in N, r \in Sides : Child(t, m, r) \in N \cup {RB!Nil}
      BY <1>1 DEF Tree
    <2> QED
      BY <1>1, <2>1, TreeNats
  <1>3. /\ Tree(u, M, sub2)
        /\ x \in M \cup {RB!Nil} /\ p \in M \cup {RB!Nil}
        /\ p = RB!Nil => u.root = x
        /\ p # RB!Nil => u.root = t.root /\ t.root # y
    <2>1. Tree(u, M, sub2) /\ Severed(t, u, N, y, x, p)
      BY <1>1, CutTree
    <2> QED
      BY <2>1 DEF Severed
  <1>4. /\ \A m \in N : Black(u, m) = Black(t, m)
        /\ \A m \in N, r \in Sides : Child(u, m, r) = IF Child(t, m, r) = y THEN x ELSE Child(t, m, r)
    BY <1>2 DEF Cut
  <1>5. p # RB!Nil
    <2> SUFFICES ASSUME p = RB!Nil
                 PROVE  FALSE
      OBVIOUS
    <2>1. y = t.root
      BY <1>1, <1>2 DEF Tree
    <2> QED
      BY <1>1, <1>2, <2>1
  <1>6. Heights(M, b2) /\ \A a \in M \cup {RB!Nil} : b2[a] = b[a]
    BY <1>1 DEF Heights
  <1>7. b[y] = b[x] /\ b[x] \in Nat
    <2>1. b[y] = b[x] + Black(t, y) /\ b[x] \in Nat
      BY <1>1, <1>3, OtherIs DEF Level, Heights
    <2> QED
      BY <2>1
  <1> HIDE DEF sub2, b2
  <1>8. ASSUME NEW m \in M, NEW r \in Sides
        PROVE  b2[m] = b2[Child(u, m, r)] + Black(u, m)
    <2>1. b[m] = b[Child(t, m, r)] + Black(t, m)
      BY <1>1 DEF Level
    <2>2. b2[Child(u, m, r)] = b[Child(t, m, r)]
      BY <1>2, <1>3, <1>4, <1>6, <1>7
    <2> QED
      BY <1>4, <1>6, <2>1, <2>2
  <1>9. ASSUME NEW m \in M, NEW r \in Sides, Black(u, m) = 0
        PROVE  BlackChild(u, m, r)
    <2>1. BlackChild(t, m, r) /\ Child(t, m, r) \in N \cup {RB!Nil}
      BY <1>1, <1>2, <1>4, <1>9
    <2>2. Child(t, m, r) # y
      BY <1>2, <2>1 DEF BlackChild
    <2> QED
      BY <1>4, <2>1, <2>2 DEF BlackChild
  <1>10. u.root # RB!Nil => Black(u, u.root) = 1
    BY <1>1, <1>2, <1>3, <1>4, <1>5
  <1>11. IsRedBlack(u, M, sub2, b2)
    BY <1>3, <1>6, <1>8, <1>9, <1>10 DEF IsRedBlack, Level
  <1> QED
    BY <1>11 DEF sub2, b2

(* and a black one is missed below its parent. *)
LEMMA CutBlack ==
    ASSUME NEW t, NEW N, NEW sub, NEW b, IsRedBlack(t, N, sub, b),
           NEW y \in N, Black(t, y) = 1, NEW s \in Sides, Child(t, y, s) = RB!Nil,
           NEW x, x = Child(t, y, RB!Other(s)), NEW p, p = Parent(t, y), NEW u, Cut(t, u, N, y, x, p)
    PROVE  \E d : Deleting(u, N \ {y}, Pruned(N, sub, y), [a \in (N \ {y}) \cup {RB!Nil} |-> b[a]], x, p, d)
  <1> DEFINE M == N \ {y}
             sub2 == Pruned(N, sub, y)
             b2 == [a \in (N \ {y}) \cup {RB!Nil} |-> b[a]]
  <1>1. /\ Tree(t, N, sub) /\ Heights(N, b) /\ \A m \in N : Level(t, b, m)
        /\ \A m \in N, r \in Sides : Black(t, m) = 0 => BlackChild(t, m, r)
        /\ t.root # RB!Nil => Black(t, t.root) = 1
    BY DEF IsRedBlack
  <1>2. N \subseteq Keys(t) /\ RB!Nil \notin N /\ t.root \in N \cup {RB!Nil}
        /\ \A m \in N, r \in Sides : Child(t, m, r) \in N \cup {RB!Nil}
    <2>1. N \subseteq Keys(t) /\ t.root \in N \cup {RB!Nil}
          /\ \A m \in N, r \in Sides : Child(t, m, r) \in N \cup {RB!Nil}
      BY <1>1 DEF Tree
    <2> QED
      BY <1>1, <2>1, TreeNats
  <1>3. /\ Tree(u, M, sub2)
        /\ x \in M \cup {RB!Nil} /\ p \in M \cup {RB!Nil}
        /\ p = RB!Nil => u.root = x
        /\ p # RB!Nil => /\ t.root # y /\ u.root = t.root
                           /\ \E d \in Sides : /\ Child(t, p, d) = y /\ Child(t, p, RB!Other(d)) # y
                                               /\ Child(u, p, d) = x
        /\ \A m \in M, r \in Sides : Child(t, m, r) = y => m = p
    <2>1. Tree(u, M, sub2) /\ Severed(t, u, N, y, x, p)
      BY <1>1, CutTree
    <2> QED
      BY <2>1 DEF Severed
  <1>4. /\ \A m \in N : Black(u, m) = Black(t, m)
        /\ \A m \in N, r \in Sides : Child(u, m, r) = IF Child(t, m, r) = y THEN x ELSE Child(t, m, r)
    BY <1>2 DEF Cut
  <1>5. PICK d \in Sides : p # RB!Nil => /\ Child(t, p, d) = y /\ Child(t, p, RB!Other(d)) # y
                                           /\ Child(u, p, d) = x
    BY <1>3 DEF Sides
  <1>6. Heights(M, b2) /\ \A a \in M \cup {RB!Nil} : b2[a] = b[a] /\ b[a] \in Nat
    BY <1>1 DEF Heights
  <1>7. b[y] = b[x] + 1 /\ b[x] \in Nat
    <2>1. b[y] = b[x] + Black(t, y) /\ b[x] \in Nat
      BY <1>1, <1>3, OtherIs DEF Level, Heights
    <2> QED
      BY <2>1
  <1> HIDE DEF sub2, b2
  <1>8. ASSUME NEW m \in M \ {p}, NEW r \in Sides
        PROVE  b2[m] = b2[Child(u, m, r)] + Black(u, m)
    <2>1. b[m] = b[Child(t, m, r)] + Black(t, m)
      BY <1>1 DEF Level
    <2>2. b2[Child(u, m, r)] = b[Child(t, m, r)]
      BY <1>2, <1>3, <1>4, <1>6
    <2> QED
      BY <1>4, <1>6, <2>1, <2>2
  <1>9. ASSUME NEW m \in M, NEW r \in Sides, Black(u, m) = 0, Child(u, m, r) # x
        PROVE  BlackChild(u, m, r)
    <2>1. BlackChild(t, m, r) /\ Child(t, m, r) \in N \cup {RB!Nil}
      BY <1>1, <1>2, <1>4, <1>9
    <2>2. Child(t, m, r) # y
      BY <1>4, <1>9
    <2> QED
      BY <1>4, <2>1, <2>2 DEF BlackChild
  <1>10. u.root # RB!Nil /\ Black(u, u.root) = 0 => u.root = x
    BY <1>1, <1>2, <1>3, <1>4
  <1>11. p # RB!Nil => /\ Child(u, p, d) = x /\ b2[Child(u, p, RB!Other(d))] = b2[x] + 1
                         /\ b2[p] = b2[x] + 1 + Black(u, p)
    <2> SUFFICES ASSUME p # RB!Nil
                 PROVE  /\ Child(u, p, d) = x /\ b2[Child(u, p, RB!Other(d))] = b2[x] + 1
                        /\ b2[p] = b2[x] + 1 + Black(u, p)
      OBVIOUS
    <2>1. p \in N /\ Child(t, p, d) = y /\ Child(t, p, RB!Other(d)) # y /\ Child(u, p, d) = x
      BY <1>3, <1>5
    <2>2. RB!Other(d) \in Sides
      BY OtherIs
    <2>3. b[p] = b[y] + Black(t, p) /\ b[p] = b[Child(t, p, RB!Other(d))] + Black(t, p)
      BY <1>1, <2>1, <2>2 DEF Level
    <2>4. Child(u, p, RB!Other(d)) = Child(t, p, RB!Other(d)) /\ Child(t, p, RB!Other(d)) \in M \cup {RB!Nil}
      BY <1>2, <1>4, <2>1, <2>2
    <2>5. b[Child(t, p, RB!Other(d))] = b[y]
      BY <1>6, <1>7, <2>3, <2>4, BlackIs
    <2> QED
      BY <1>3, <1>4, <1>6, <1>7, <2>1, <2>3, <2>4, <2>5
  <1>12. Deleting(u, M, sub2, b2, x, p, d)
    BY <1>3, <1>6, <1>8, <1>9, <1>10, <1>11 DEF Deleting, Level
  <1> QED
    BY <1>12 DEF sub2, b2

(* The hole at x is below p. *)
Hole(t, N, x, p, d, s) ==
    /\ p \in N /\ RB!Nil \notin N /\ x # p /\ x # t.root /\ d \in Sides /\ RB!Other(d) \in Sides
    /\ RB!Other(d) # d /\ RB!Other(RB!Other(d)) = d /\ \A r \in Sides : r = d \/ r = RB!Other(d)
    /\ RB!SideOf(t, x, p) = d /\ Child(t, p, d) = x /\ x \in N \cup {RB!Nil}
    /\ s = Child(t, p, RB!Other(d)) /\ s \in N /\ s # x /\ s # p /\ s # t.root /\ N \subseteq Keys(t)
    /\ \A m \in N, r \in Sides : Child(t, m, r) = s => m = p /\ r = RB!Other(d)
    /\ x # RB!Nil => \A m \in N, r \in Sides : Child(t, m, r) = x => m = p /\ r = d
    /\ \A r \in Sides : Child(t, s, r) # p /\ Child(t, s, r) # s /\ Child(t, s, r) \in N \cup {RB!Nil}
    /\ \A r \in Sides : Child(t, s, r) # RB!Nil => Child(t, s, r) # x

LEMMA HoleIs ==
    ASSUME NEW t, NEW N, NEW sub, NEW b, NEW x, NEW p, NEW d, Deleting(t, N, sub, b, x, p, d), p # RB!Nil
    PROVE  Hole(t, N, x, p, d, Child(t, p, RB!Other(d)))
  <1> DEFINE o == RB!Other(d)
             s == Child(t, p, o)
  <1>1. /\ Tree(t, N, sub) /\ Heights(N, b) /\ p \in N /\ d \in Sides /\ Child(t, p, d) = x
        /\ x \in N \cup {RB!Nil} /\ b[s] = b[x] + 1
    BY DEF Deleting
  <1>2. RB!Nil \notin N /\ N \subseteq Keys(t) /\ t.root \in N \cup {RB!Nil}
        /\ \A m \in N, r \in Sides : Child(t, m, r) \in N \cup {RB!Nil}
    <2>1. N \subseteq Keys(t) /\ t.root \in N \cup {RB!Nil}
          /\ \A m \in N, r \in Sides : Child(t, m, r) \in N \cup {RB!Nil}
      BY <1>1 DEF Tree
    <2> QED
      BY <1>1, <2>1, TreeNats
  <1>3. o \in Sides /\ o # d /\ RB!Other(o) = d /\ \A r \in Sides : r = d \/ r = o
    BY <1>1, OtherIs
  <1>4. s \in N \cup {RB!Nil} /\ b[s] \in Nat /\ b[x] \in Nat /\ b[RB!Nil] = 0
    BY <1>1, <1>2, <1>3 DEF Heights
  <1>5. s # RB!Nil /\ s \in N /\ s # x
    BY <1>1, <1>4
  <1> HIDE DEF o
  <1>6. /\ s # p /\ Parent(t, s) = p /\ \A m \in N, r \in Sides : Child(t, m, r) = s => m = p /\ r = o
    BY <1>1, <1>3, <1>5, OneParent
  <1>7. x # RB!Nil => /\ x # p /\ Parent(t, x) = p
                        /\ \A m \in N, r \in Sides : Child(t, m, r) = x => m = p /\ r = d
    BY <1>1, OneParent
  <1>8. x # t.root /\ s # t.root
    <2>1. t.root # RB!Nil => Parent(t, t.root) = RB!Nil
      BY <1>1 DEF Tree
    <2>2. t.root # RB!Nil
      BY <1>1 DEF Tree
    <2> QED
      BY <1>1, <1>2, <1>6, <1>7, <2>1, <2>2
  <1>9. RB!SideOf(t, x, p) = d
    <2>1. d = "left" \/ (d = "right" /\ o = "left")
      BY <1>1 DEF Sides, o, RB!Other
    <2>2. CASE d = "left"
      BY <1>1, <2>2 DEF RB!SideOf, Child
    <2>3. CASE d = "right" /\ o = "left"
      BY <1>5, <2>3 DEF RB!SideOf, Child
    <2> QED
      BY <2>1, <2>2, <2>3
  <1>10. \A r \in Sides : Child(t, s, r) # p /\ Child(t, s, r) # s
    <2> SUFFICES ASSUME NEW r \in Sides
                 PROVE  Child(t, s, r) # p /\ Child(t, s, r) # s
      OBVIOUS
    <2>1. sub[s] \subseteq sub[p] /\ p \notin sub[s] /\ p \in sub[p]
      BY <1>1, <1>3, Below
    <2>2. sub[Child(t, s, r)] \subseteq sub[s] /\ Child(t, s, r) # s
      BY <1>1, <1>2, <1>5, Below
    <2> QED
      BY <2>1, <2>2
  <1>11. \A r \in Sides : Child(t, s, r) # RB!Nil => Child(t, s, r) # x
    BY <1>5, <1>6, <1>7
  <1>12. x # p
    BY <1>1, <1>2, <1>7
  <1> QED
    BY <1>1, <1>2, <1>3, <1>5, <1>6, <1>7, <1>8, <1>9, <1>10, <1>11, <1>12 DEF Hole, o

(* A red sibling rises above p. *)
LEMMA SiblingTurn ==
    ASSUME NEW t, NEW N, NEW sub, NEW b, NEW x, NEW p, NEW d, Deleting(t, N, sub, b, x, p, d), p # RB!Nil,
           ~RB!IsRed(t, x), NEW s, s = Child(t, p, RB!Other(d)), Black(t, s) = 0,
           NEW t1, Painted(t, t1, s, 1), NEW t2, Painted(t1, t2, p, 0), NEW u, u = RB!Rotate(t2, p, d)
    PROVE  /\ Deleting(u, N, Turned(t2, N, sub, p, d, s), [b EXCEPT ![s] = b[p], ![p] = b[x] + 1], x, p, d)
           /\ Turned(t2, N, sub, p, d, s)[x] = sub[x] /\ ~RB!IsRed(u, x)
           /\ Black(u, Child(u, p, RB!Other(d))) = 1 /\ SameVolumes(t, u)
  <1> DEFINE o == RB!Other(d)
             sub2 == Turned(t2, N, sub, p, d, s)
             b2 == [b EXCEPT ![s] = b[p], ![p] = b[x] + 1]
             i == Child(t, s, d)
             j == Child(t, s, o)
  <1>1. /\ Tree(t, N, sub) /\ Heights(N, b) /\ b[s] = b[x] + 1 /\ b[p] = b[x] + 1 + Black(t, p)
        /\ \A m \in N \ {p} : Level(t, b, m)
        /\ \A m \in N, r \in Sides : Black(t, m) = 0 /\ m # x /\ Child(t, m, r) # x => BlackChild(t, m, r)
        /\ t.root # RB!Nil /\ Black(t, t.root) = 0 => t.root = x
    BY DEF Deleting
  <1>2. Hole(t, N, x, p, d, s)
    BY HoleIs
  <1>3. /\ p \in N /\ RB!Nil \notin N /\ x # p /\ x # t.root /\ d \in Sides /\ o \in Sides
        /\ o # d /\ RB!Other(o) = d /\ \A r \in Sides : r = d \/ r = o
        /\ Child(t, p, d) = x /\ x \in N \cup {RB!Nil} /\ N \subseteq Keys(t)
        /\ s = Child(t, p, o) /\ s \in N /\ s # x /\ s # p /\ s # t.root
        /\ \A m \in N, r \in Sides : Child(t, m, r) = s => m = p /\ r = o
        /\ \A r \in Sides : Child(t, s, r) # p /\ Child(t, s, r) # s /\ Child(t, s, r) \in N \cup {RB!Nil}
        /\ \A r \in Sides : Child(t, s, r) # RB!Nil => Child(t, s, r) # x
    BY <1>2 DEF Hole
  <1>4. \A m \in N \cup {RB!Nil} : b[m] \in Nat
    BY <1>1 DEF Heights
  <1>5. Black(t, p) = 1
    <2> SUFFICES ASSUME Black(t, p) = 0
                 PROVE  FALSE
      BY BlackIs
    <2>1. BlackChild(t, p, o)
      BY <1>1, <1>3
    <2> QED
      BY <1>3, <2>1 DEF BlackChild
  <1>6. b[i] = b[x] + 1 /\ b[j] = b[x] + 1
    <2>1. Level(t, b, s) /\ i \in N \cup {RB!Nil} /\ j \in N \cup {RB!Nil}
      BY <1>1, <1>3
    <2> HIDE DEF o
    <2>2. b[s] = b[i] + Black(t, s) /\ b[s] = b[j] + Black(t, s)
      BY <1>3, <2>1 DEF Level
    <2> QED
      BY <1>1, <1>4, <2>1, <2>2
  <1>7. i \in N /\ i # x /\ Black(t, i) = 1 /\ i # p /\ i # s
    <2>1. i # RB!Nil
      BY <1>1, <1>3, <1>4, <1>6 DEF Heights
    <2>2. BlackChild(t, s, d)
      BY <1>1, <1>3, <2>1
    <2> QED
      BY <1>3, <2>1, <2>2 DEF BlackChild
  <1>8. Tree(t2, N, sub)
    BY <1>1, PaintTree
  <1>9. /\ t2.root = t.root /\ Keys(t2) = Keys(t) /\ Black(t2, s) = 1 /\ Black(t2, p) = 0
        /\ \A m \in Keys(t) : /\ m # s /\ m # p => Black(t2, m) = Black(t, m)
                              /\ Volume(t2, m) = Volume(t, m)
        /\ \A m \in Keys(t), r \in Sides : Child(t2, m, r) = Child(t, m, r)
    BY <1>3 DEF Painted
  <1>10. Risen(t2, u, N, p, d, s) /\ Tree(u, N, sub2)
    <2>1. s = Child(t2, p, RB!Other(d)) /\ s # RB!Nil
      BY <1>3, <1>9
    <2> QED
      BY <1>3, <1>8, <2>1, RotateTree
  <1>11. sub2[x] = sub[x]
    BY <1>3 DEF Turned
  <1> HIDE DEF sub2
  <1>12. /\ Keys(u) = Keys(t) /\ u.root = IF t.root = p THEN s ELSE t.root
         /\ Black(u, s) = 1 /\ Black(u, p) = 0
         /\ \A m \in N : m # s /\ m # p => Black(u, m) = Black(t, m)
         /\ \A m \in N \ {p, s}, r \in Sides : Child(u, m, r) = IF Child(t, m, r) = p THEN s ELSE Child(t, m, r)
         /\ Child(u, p, d) = x /\ Child(u, p, o) = i /\ Child(u, s, d) = p /\ Child(u, s, o) = j
    BY <1>3, <1>9, <1>10 DEF Risen
  <1>13. SameVolumes(t, u)
    BY <1>9, <1>10 DEF Risen, SameVolumes
  <1>14. /\ Heights(N, b2) /\ b2[s] = b[x] + 2 /\ b2[p] = b[x] + 1
         /\ \A m \in N \cup {RB!Nil} : m # p /\ m # s => b2[m] = b[m]
    <2>1. b[p] = b[x] + 2 /\ b[x] \in Nat
      BY <1>1, <1>3, <1>4, <1>5
    <2> QED
      BY <1>1, <1>3, <2>1 DEF Heights
  <1> HIDE DEF b2, i, j, o
  <1>15. ASSUME NEW m \in N \ {p}, NEW r \in Sides
         PROVE  b2[m] = b2[Child(u, m, r)] + Black(u, m)
    <2>1. CASE m = s /\ r = d
      BY <1>3, <1>4, <1>12, <1>14, <2>1
    <2>2. CASE m = s /\ r = o
      <3>1. j # p /\ j # s /\ j \in N \cup {RB!Nil}
        BY <1>3 DEF j
      <3> QED
        BY <1>3, <1>4, <1>6, <1>12, <1>14, <2>2, <3>1
    <2>3. CASE m # s
      <3>1. b[m] = b[Child(t, m, r)] + Black(t, m) /\ Child(t, m, r) \in N \cup {RB!Nil}
        BY <1>1 DEF Level, Tree
      <3>2. b2[Child(u, m, r)] = b[Child(t, m, r)]
        <4>1. Child(t, m, r) # s
          BY <1>3
        <4>2. b[p] = b[x] + 2
          BY <1>1, <1>3, <1>4, <1>5
        <4> QED
          BY <1>12, <1>14, <2>3, <3>1, <4>1, <4>2
      <3> QED
        BY <1>12, <1>14, <2>3, <3>1, <3>2
    <2> QED
      BY <1>3, <2>1, <2>2, <2>3
  <1>16. ASSUME NEW m \in N, NEW r \in Sides, Black(u, m) = 0, m # x, Child(u, m, r) # x
         PROVE  BlackChild(u, m, r)
    <2>1. CASE m = p
      <3>1. Child(u, m, r) = i
        BY <1>3, <1>12, <1>16, <2>1
      <3> QED
        BY <1>7, <1>12, <3>1 DEF BlackChild
    <2>2. CASE m # p
      <3>1. m # s /\ Black(t, m) = 0 /\ Child(t, m, r) # s
        BY <1>3, <1>12, <1>16, <2>2
      <3>2. CASE Child(t, m, r) = p
        BY <1>12, <2>2, <3>1, <3>2 DEF BlackChild
      <3>3. CASE Child(t, m, r) # p
        <4>1. Child(u, m, r) = Child(t, m, r) /\ Child(t, m, r) \in N \cup {RB!Nil}
          BY <1>1, <1>12, <2>2, <3>1, <3>3 DEF Tree
        <4>2. BlackChild(t, m, r)
          BY <1>1, <1>16, <3>1, <4>1
        <4> QED
          BY <1>12, <3>1, <3>3, <4>1, <4>2 DEF BlackChild
      <3> QED
        BY <3>2, <3>3
    <2> QED
      BY <2>1, <2>2
  <1>17. u.root # RB!Nil /\ Black(u, u.root) = 0 => u.root = x
    <2>1. t.root \in N \cup {RB!Nil}
      BY <1>1 DEF Tree
    <2> QED
      BY <1>1, <1>3, <1>12, <2>1
  <1>18. Child(u, p, d) = x /\ b2[Child(u, p, o)] = b2[x] + 1 /\ b2[p] = b2[x] + 1 + Black(u, p)
    BY <1>3, <1>4, <1>6, <1>7, <1>12, <1>14
  <1>19. Deleting(u, N, sub2, b2, x, p, d)
    BY <1>3, <1>10, <1>14, <1>15, <1>16, <1>17, <1>18 DEF Deleting, Level, o
  <1>20. ~RB!IsRed(u, x)
    BY <1>3, <1>12, IsRedIs
  <1>21. Black(u, Child(u, p, o)) = 1
    BY <1>7, <1>12
  <1> QED
    BY <1>11, <1>13, <1>19, <1>20, <1>21 DEF sub2, b2, o

(* Black children: the sibling turns red, and the hole moves up. *)
LEMMA RedSibling ==
    ASSUME NEW t, NEW N, NEW sub, NEW b, NEW x, NEW p, NEW d, Deleting(t, N, sub, b, x, p, d), p # RB!Nil,
           ~RB!IsRed(t, x), NEW s, s = Child(t, p, RB!Other(d)), Black(t, s) = 1,
           \A r \in Sides : BlackChild(t, s, r), NEW u, Painted(t, u, s, 0)
    PROVE  /\ \E d2 : Deleting(u, N, sub, [b EXCEPT ![s] = b[x], ![p] = b[p] - 1], p, Parent(u, p), d2)
           /\ sub[x] \subseteq sub[p] /\ sub[x] # sub[p] /\ SameVolumes(t, u)
  <1> DEFINE o == RB!Other(d)
             b2 == [b EXCEPT ![s] = b[x], ![p] = b[p] - 1]
             q == Parent(t, p)
             e == IF q = RB!Nil THEN "left" ELSE RB!SideOf(t, p, q)
  <1>1. /\ Tree(t, N, sub) /\ Heights(N, b) /\ b[s] = b[x] + 1 /\ b[p] = b[x] + 1 + Black(t, p)
        /\ \A m \in N \ {p} : Level(t, b, m)
        /\ \A m \in N, r \in Sides : Black(t, m) = 0 /\ m # x /\ Child(t, m, r) # x => BlackChild(t, m, r)
        /\ t.root # RB!Nil /\ Black(t, t.root) = 0 => t.root = x
    BY DEF Deleting
  <1>2. Hole(t, N, x, p, d, s)
    BY HoleIs
  <1>3. /\ p \in N /\ RB!Nil \notin N /\ x # p /\ x # t.root /\ d \in Sides /\ o \in Sides
        /\ o # d /\ \A r \in Sides : r = d \/ r = o
        /\ Child(t, p, d) = x /\ x \in N \cup {RB!Nil} /\ N \subseteq Keys(t)
        /\ s = Child(t, p, o) /\ s \in N /\ s # x /\ s # p /\ s # t.root
        /\ \A m \in N, r \in Sides : Child(t, m, r) = s => m = p /\ r = o
        /\ \A r \in Sides : Child(t, s, r) # p /\ Child(t, s, r) # s /\ Child(t, s, r) \in N \cup {RB!Nil}
    BY <1>2 DEF Hole
  <1>4. \A m \in N \cup {RB!Nil} : b[m] \in Nat
    BY <1>1 DEF Heights
  <1>5. Tree(u, N, sub)
    BY <1>1, PaintTree
  <1>6. /\ u.root = t.root /\ Keys(u) = Keys(t) /\ Black(u, s) = 0
        /\ \A m \in N : (m # s => Black(u, m) = Black(t, m)) /\ Parent(u, m) = Parent(t, m)
        /\ \A m \in N, r \in Sides : Child(u, m, r) = Child(t, m, r)
    BY <1>3 DEF Painted
  <1>7. SameVolumes(t, u)
    BY DEF Painted, SameVolumes
  <1>8. sub[x] \subseteq sub[p] /\ sub[x] # sub[p]
    BY <1>1, <1>3, Below
  <1>9. /\ Heights(N, b2) /\ b2[s] = b[x] /\ b2[p] = b[x] + Black(t, p)
        /\ \A m \in N \cup {RB!Nil} : m # p /\ m # s => b2[m] = b[m]
    <2>1. b[p] - 1 = b[x] + Black(t, p) /\ b[x] + Black(t, p) \in Nat /\ b[x] \in Nat
      BY <1>1, <1>3, <1>4, BlackIs
    <2> QED
      BY <1>1, <1>3, <2>1 DEF Heights
  <1>10. /\ q \in N \cup {RB!Nil} /\ e \in Sides /\ (q = RB!Nil => t.root = p)
         /\ q # RB!Nil => /\ Child(t, q, e) = p /\ q # p
                            /\ \A m \in N, r \in Sides : Child(t, m, r) = p => m = q /\ r = e
    <2>1. CASE q = RB!Nil
      <3>1. t.root = p
        BY <1>1, <1>3, <2>1 DEF Tree
      <3> QED
        BY <2>1, <3>1 DEF Sides
    <2>2. CASE q # RB!Nil
      <3> DEFINE g == RB!SideOf(t, p, q)
      <3>1. q \in N /\ q # p /\ g \in Sides /\ Child(t, q, g) = p
            /\ \A m \in N, r \in Sides : Child(t, m, r) = p => m = q /\ r = g
        BY <1>1, <1>3, <2>2, PlaceOf
      <3>2. e = g
        BY <2>2
      <3> QED
        BY <2>2, <3>1, <3>2
    <2> QED
      BY <2>1, <2>2
  <1> HIDE DEF b2, o, q, e
  <1>11. ASSUME NEW m \in N \ {q}, NEW r \in Sides
         PROVE  b2[m] = b2[Child(u, m, r)] + Black(u, m)
    <2>1. CASE m = p
      <3>1. b2[Child(u, p, r)] = b[x]
        BY <1>3, <1>6, <1>9
      <3> QED
        BY <1>3, <1>6, <1>9, <2>1, <3>1
    <2>2. CASE m # p
      <3>1. b[m] = b[Child(t, m, r)] + Black(t, m) /\ Child(t, m, r) \in N \cup {RB!Nil}
        BY <1>1, <2>2 DEF Level, Tree
      <3>2. Child(t, m, r) # p /\ Child(t, m, r) # s
        <4>1. q = RB!Nil => Child(t, m, r) # p
          BY <1>1, <1>3, <1>10 DEF Tree
        <4> QED
          BY <1>3, <1>10, <2>2, <4>1
      <3>3. b2[Child(u, m, r)] = b[Child(t, m, r)] /\ b[Child(t, m, r)] \in Nat
        BY <1>4, <1>6, <1>9, <3>1, <3>2
      <3>4. CASE m = s
        BY <1>1, <1>3, <1>4, <1>6, <1>9, <3>1, <3>3, <3>4
      <3>5. CASE m # s
        BY <1>6, <1>9, <2>2, <3>1, <3>3, <3>5
      <3> QED
        BY <3>4, <3>5
    <2> QED
      BY <2>1, <2>2
  <1>12. ASSUME NEW m \in N, NEW r \in Sides, Black(u, m) = 0, m # p, Child(u, m, r) # p
         PROVE  BlackChild(u, m, r)
    <2>0. Child(u, m, r) = Child(t, m, r) /\ Child(t, m, r) \in N \cup {RB!Nil} /\ Child(t, m, r) # s
      BY <1>1, <1>3, <1>6, <1>12 DEF Tree
    <2>1. BlackChild(t, m, r)
      <3>1. CASE m = s
        BY <3>1
      <3>2. CASE m # s
        <4>1. Black(t, m) = 0
          BY <1>6, <1>12, <3>2
        <4>2. m # x
          BY <4>1, <1>3, IsRedIs
        <4>3. CASE Child(t, m, r) = x
          BY <4>3, IsRedIs, BlackIs DEF BlackChild
        <4>4. CASE Child(t, m, r) # x
          BY <1>1, <4>1, <4>2, <4>4
        <4> QED
          BY <4>3, <4>4
      <3> QED
        BY <3>1, <3>2
    <2> QED
      BY <1>6, <2>0, <2>1 DEF BlackChild
  <1>13. u.root # RB!Nil /\ Black(u, u.root) = 0 => u.root = p
    <2>1. t.root \in N \cup {RB!Nil}
      BY <1>1 DEF Tree
    <2> QED
      BY <1>1, <1>3, <1>6, <2>1
  <1>14. q # RB!Nil => /\ Child(u, q, e) = p /\ b2[Child(u, q, RB!Other(e))] = b2[p] + 1
                         /\ b2[q] = b2[p] + 1 + Black(u, q)
    <2> SUFFICES ASSUME q # RB!Nil
                 PROVE  /\ Child(u, q, e) = p /\ b2[Child(u, q, RB!Other(e))] = b2[p] + 1
                        /\ b2[q] = b2[p] + 1 + Black(u, q)
      OBVIOUS
    <2>1. q \in N /\ Child(t, q, e) = p /\ q # p /\ e \in Sides /\ RB!Other(e) \in Sides /\ RB!Other(e) # e
      BY <1>10, OtherIs
    <2>2. b[q] = b[p] + Black(t, q) /\ b[q] = b[Child(t, q, RB!Other(e))] + Black(t, q)
          /\ Child(t, q, RB!Other(e)) \in N \cup {RB!Nil}
      BY <1>1, <2>1 DEF Level, Tree
    <2>3. Child(t, q, RB!Other(e)) # p /\ Child(t, q, RB!Other(e)) # s
      BY <1>3, <1>10, <2>1
    <2>4. q # s
      BY <1>3, <2>1
    <2>5. b[Child(t, q, RB!Other(e))] = b[p] /\ b[p] = b2[p] + 1
      BY <1>1, <1>3, <1>4, <1>9, <2>2, BlackIs
    <2> QED
      BY <1>6, <1>9, <2>1, <2>2, <2>3, <2>4, <2>5
  <1>15. Parent(u, p) = q
    BY <1>3, <1>6 DEF q
  <1>16. Deleting(u, N, sub, b2, p, q, e)
    BY <1>3, <1>5, <1>6, <1>9, <1>10, <1>11, <1>12, <1>13, <1>14 DEF Deleting, Level
  <1> QED
    BY <1>7, <1>8, <1>15, <1>16 DEF b2

(* Only the near child is red: it rises above the sibling. *)
LEMMA FarTurn ==
    ASSUME NEW t, NEW N, NEW sub, NEW b, NEW x, NEW p, NEW d, Deleting(t, N, sub, b, x, p, d), p # RB!Nil,
           ~RB!IsRed(t, x), NEW s, s = Child(t, p, RB!Other(d)), Black(t, s) = 1,
           BlackChild(t, s, RB!Other(d)), NEW i, i = Child(t, s, d), RB!IsRed(t, i),
           NEW t1, Painted(t, t1, i, 1), NEW t2, Painted(t1, t2, s, 0), NEW u, u = RB!Rotate(t2, s, RB!Other(d))
    PROVE  /\ Deleting(u, N, Turned(t2, N, sub, s, RB!Other(d), i), [b EXCEPT ![i] = b[s], ![s] = b[i]], x, p, d)
           /\ ~RB!IsRed(u, x) /\ Child(u, p, RB!Other(d)) = i /\ Black(u, i) = 1
           /\ Child(u, i, RB!Other(d)) = s /\ Black(u, s) = 0 /\ SameVolumes(t, u)
  <1> DEFINE o == RB!Other(d)
             sub2 == Turned(t2, N, sub, s, o, i)
             b2 == [b EXCEPT ![i] = b[s], ![s] = b[i]]
             f == Child(t, s, o)
             k == Child(t, i, o)
             l == Child(t, i, d)
  <1>1. /\ Tree(t, N, sub) /\ Heights(N, b) /\ b[s] = b[x] + 1 /\ b[p] = b[x] + 1 + Black(t, p)
        /\ \A m \in N \ {p} : Level(t, b, m)
        /\ \A m \in N, r \in Sides : Black(t, m) = 0 /\ m # x /\ Child(t, m, r) # x => BlackChild(t, m, r)
        /\ t.root # RB!Nil /\ Black(t, t.root) = 0 => t.root = x
    BY DEF Deleting
  <1>2. Hole(t, N, x, p, d, s)
    BY HoleIs
  <1>3. /\ p \in N /\ RB!Nil \notin N /\ x # p /\ x # t.root /\ d \in Sides /\ o \in Sides
        /\ o # d /\ RB!Other(o) = d /\ \A r \in Sides : r = d \/ r = o
        /\ Child(t, p, d) = x /\ x \in N \cup {RB!Nil} /\ N \subseteq Keys(t)
        /\ s = Child(t, p, o) /\ s \in N /\ s # x /\ s # p /\ s # t.root
        /\ \A m \in N, r \in Sides : Child(t, m, r) = s => m = p /\ r = o
        /\ \A r \in Sides : Child(t, s, r) # p /\ Child(t, s, r) # s /\ Child(t, s, r) \in N \cup {RB!Nil}
        /\ \A r \in Sides : Child(t, s, r) # RB!Nil => Child(t, s, r) # x
    BY <1>2 DEF Hole
  <1>4. \A m \in N \cup {RB!Nil} : b[m] \in Nat
    BY <1>1 DEF Heights
  <1>5. i \in N /\ i # x /\ i # p /\ i # s /\ Black(t, i) = 0 /\ i # RB!Nil
    BY <1>3, IsRedIs
  <1>6. \A m \in N, r \in Sides : Child(t, m, r) = i => m = s /\ r = d
    BY <1>1, <1>3, <1>5, OneParent
  <1>7. k \in N \cup {RB!Nil} /\ l \in N \cup {RB!Nil} /\ f \in N \cup {RB!Nil}
        /\ k \notin {i, s} /\ l \notin {i, s} /\ f \notin {i, s, p}
        /\ (k # RB!Nil => k # x) /\ (l # RB!Nil => l # x)
    <2>1. \A m \in N, r \in Sides : /\ Child(t, m, r) \in N \cup {RB!Nil}
                                    /\ Child(t, m, r) # RB!Nil => Parent(t, Child(t, m, r)) = m
      BY <1>1 DEF Tree
    <2>2. Parent(t, i) = s /\ Parent(t, s) = p
      BY <1>3, <1>5, <2>1
    <2>3. x # RB!Nil => Parent(t, x) = p
      BY <1>3, <2>1
    <2>4. \A r \in Sides : Child(t, i, r) # i
      BY <1>1, <1>5, Below
    <2>5. \A r \in Sides : Child(t, i, r) # s
      BY <1>3, <1>5, <2>1, <2>2
    <2>6. f # i
      BY <1>3, <1>5, <1>6
    <2>7. \A r \in Sides : Child(t, i, r) # RB!Nil => Child(t, i, r) # x
      BY <1>3, <1>5, <2>1, <2>3
    <2> QED
      BY <1>3, <1>5, <2>1, <2>4, <2>5, <2>6, <2>7
  <1>8. b[s] = b[i] + 1 /\ b[f] = b[i] /\ b[k] = b[i] /\ b[l] = b[i]
    <2>1. Level(t, b, s) /\ Level(t, b, i)
      BY <1>1, <1>3, <1>5
    <2> HIDE DEF o, f, k, l
    <2>2. /\ b[s] = b[i] + Black(t, s) /\ b[s] = b[f] + Black(t, s)
          /\ b[i] = b[k] + Black(t, i) /\ b[i] = b[l] + Black(t, i)
      BY <1>3, <2>1 DEF Level, f, k, l
    <2> QED
      BY <1>4, <1>5, <1>7, <2>2
  <1>9. BlackChild(t, i, o) /\ BlackChild(t, s, o)
    <2>1. k = RB!Nil => BlackChild(t, i, o)
      BY DEF BlackChild
    <2>2. k # RB!Nil => BlackChild(t, i, o)
      BY <1>1, <1>3, <1>5, <1>7
    <2> QED
      BY <2>1, <2>2
  <1>10. Tree(t2, N, sub)
    BY <1>1, PaintTree
  <1>11. /\ t2.root = t.root /\ Keys(t2) = Keys(t) /\ Black(t2, i) = 1 /\ Black(t2, s) = 0
         /\ \A m \in Keys(t) : /\ m # s /\ m # i => Black(t2, m) = Black(t, m)
                               /\ Volume(t2, m) = Volume(t, m)
         /\ \A m \in Keys(t), r \in Sides : Child(t2, m, r) = Child(t, m, r)
    BY <1>3, <1>5 DEF Painted
  <1>12. Risen(t2, u, N, s, o, i) /\ Tree(u, N, sub2)
    <2>1. i = Child(t2, s, RB!Other(o))
      BY <1>3, <1>11
    <2> QED
      BY <1>3, <1>5, <1>10, <2>1, RotateTree
  <1> HIDE DEF sub2
  <1>13. /\ Keys(u) = Keys(t) /\ u.root = t.root
         /\ Black(u, i) = 1 /\ Black(u, s) = 0
         /\ \A m \in N : m # s /\ m # i => Black(u, m) = Black(t, m)
         /\ \A m \in N \ {s, i}, r \in Sides : Child(u, m, r) = IF Child(t, m, r) = s THEN i ELSE Child(t, m, r)
         /\ Child(u, s, o) = f /\ Child(u, s, d) = k /\ Child(u, i, o) = s /\ Child(u, i, d) = l
    BY <1>3, <1>5, <1>11, <1>12 DEF Risen
  <1>14. SameVolumes(t, u)
    BY <1>11, <1>12 DEF Risen, SameVolumes
  <1>15. /\ Heights(N, b2) /\ b2[i] = b[s] /\ b2[s] = b[i]
         /\ \A m \in N \cup {RB!Nil} : m # i /\ m # s => b2[m] = b[m]
    BY <1>1, <1>3, <1>4, <1>5 DEF Heights
  <1> HIDE DEF b2, f, k, l, o
  <1>16. ASSUME NEW m \in N \ {p}, NEW r \in Sides
         PROVE  b2[m] = b2[Child(u, m, r)] + Black(u, m)
    <2>1. CASE m = s
      <3>1. Child(u, s, r) \in {f, k} /\ b2[Child(u, s, r)] = b[i]
        BY <1>3, <1>7, <1>8, <1>13, <1>15
      <3> QED
        BY <1>4, <1>5, <1>13, <1>15, <2>1, <3>1
    <2>2. CASE m = i
      <3>1. b2[Child(u, i, r)] = b[i]
        BY <1>3, <1>7, <1>8, <1>13, <1>15
      <3> QED
        BY <1>8, <1>13, <1>15, <2>2, <3>1
    <2>3. CASE m \notin {s, i}
      <3>1. b[m] = b[Child(t, m, r)] + Black(t, m) /\ Child(t, m, r) \in N \cup {RB!Nil}
        BY <1>1 DEF Level, Tree
      <3>2. Child(t, m, r) # s /\ Child(t, m, r) # i
        BY <1>3, <1>6, <2>3
      <3> QED
        BY <1>13, <1>15, <2>3, <3>1, <3>2
    <2> QED
      BY <2>1, <2>2, <2>3
  <1>17. ASSUME NEW m \in N, NEW r \in Sides, Black(u, m) = 0, m # x, Child(u, m, r) # x
         PROVE  BlackChild(u, m, r)
    <2>1. CASE m = s
      <3>1. CASE r = o
        BY <1>7, <1>9, <1>13, <2>1, <3>1 DEF BlackChild, f
      <3>2. CASE r = d
        BY <1>7, <1>9, <1>13, <2>1, <3>2 DEF BlackChild, k
      <3> QED
        BY <1>3, <3>1, <3>2
    <2>2. CASE m # s
      <3>1. m # i /\ Black(t, m) = 0
        BY <1>5, <1>13, <1>17, <2>2
      <3>2. CASE Child(t, m, r) = s
        BY <1>13, <2>2, <3>1, <3>2 DEF BlackChild
      <3>3. CASE Child(t, m, r) # s
        <4>1. Child(u, m, r) = Child(t, m, r) /\ Child(t, m, r) \in N \cup {RB!Nil} /\ Child(t, m, r) # i
          BY <1>1, <1>6, <1>13, <2>2, <3>1, <3>3 DEF Tree
        <4>2. BlackChild(t, m, r)
          BY <1>1, <1>17, <3>1, <4>1
        <4> QED
          BY <1>13, <3>3, <4>1, <4>2 DEF BlackChild
      <3> QED
        BY <3>2, <3>3
    <2> QED
      BY <2>1, <2>2
  <1>18. u.root # RB!Nil /\ Black(u, u.root) = 0 => u.root = x
    <2>1. t.root \in N \cup {RB!Nil} /\ t.root # i
      <3>1. t.root # RB!Nil => Parent(t, t.root) = RB!Nil
        BY <1>1 DEF Tree
      <3>2. Parent(t, i) = s
        BY <1>1, <1>3, <1>5 DEF Tree
      <3> QED
        BY <1>1, <1>3, <1>5, <3>1, <3>2 DEF Tree
    <2> QED
      BY <1>1, <1>3, <1>13, <2>1
  <1>19. /\ Child(u, p, d) = x /\ Child(u, p, o) = i
         /\ b2[i] = b2[x] + 1 /\ b2[p] = b2[x] + 1 + Black(u, p)
    <2>1. Child(u, p, d) = x /\ Child(u, p, o) = i
      BY <1>3, <1>5, <1>13
    <2> QED
      BY <1>1, <1>3, <1>5, <1>13, <1>15, <2>1
  <1>20. Deleting(u, N, sub2, b2, x, p, d)
    BY <1>3, <1>12, <1>15, <1>16, <1>17, <1>18, <1>19 DEF Deleting, Level, o
  <1>21. ~RB!IsRed(u, x)
    BY <1>3, <1>5, <1>13, IsRedIs
  <1> QED
    BY <1>13, <1>14, <1>19, <1>20, <1>21 DEF sub2, b2, o

(* The far child is red: the sibling rises above p, and nothing is missed any more. *)
LEMMA LastTurn ==
    ASSUME NEW t, NEW N, NEW sub, NEW b, NEW x, NEW p, NEW d, Deleting(t, N, sub, b, x, p, d), p # RB!Nil,
           ~RB!IsRed(t, x), NEW s, s = Child(t, p, RB!Other(d)), Black(t, s) = 1,
           NEW f, f = Child(t, s, RB!Other(d)), RB!IsRed(t, f),
           NEW t1, Painted(t, t1, s, Black(t, p)), NEW t2, Painted(t1, t2, p, 1), NEW t3, Painted(t2, t3, f, 1),
           NEW u, u = RB!Rotate(t3, p, d)
    PROVE  /\ Deleting(u, N, Turned(t3, N, sub, p, d, s), [b EXCEPT ![p] = b[x] + 1, ![s] = b[p], ![f] = b[f] + 1],
                       u.root, RB!Nil, d)
           /\ SameVolumes(t, u)
  <1> DEFINE o == RB!Other(d)
             sub2 == Turned(t3, N, sub, p, d, s)
             b2 == [b EXCEPT ![p] = b[x] + 1, ![s] = b[p], ![f] = b[f] + 1]
             i == Child(t, s, d)
  <1>1. /\ Tree(t, N, sub) /\ Heights(N, b) /\ b[s] = b[x] + 1 /\ b[p] = b[x] + 1 + Black(t, p)
        /\ \A m \in N \ {p} : Level(t, b, m)
        /\ \A m \in N, r \in Sides : Black(t, m) = 0 /\ m # x /\ Child(t, m, r) # x => BlackChild(t, m, r)
        /\ t.root # RB!Nil /\ Black(t, t.root) = 0 => t.root = x
    BY DEF Deleting
  <1>2. Hole(t, N, x, p, d, s)
    BY HoleIs
  <1>3. /\ p \in N /\ RB!Nil \notin N /\ x # p /\ x # t.root /\ d \in Sides /\ o \in Sides
        /\ o # d /\ RB!Other(o) = d /\ \A r \in Sides : r = d \/ r = o
        /\ Child(t, p, d) = x /\ x \in N \cup {RB!Nil} /\ N \subseteq Keys(t)
        /\ s = Child(t, p, o) /\ s \in N /\ s # x /\ s # p /\ s # t.root
        /\ \A m \in N, r \in Sides : Child(t, m, r) = s => m = p /\ r = o
        /\ \A r \in Sides : Child(t, s, r) # p /\ Child(t, s, r) # s /\ Child(t, s, r) \in N \cup {RB!Nil}
        /\ \A r \in Sides : Child(t, s, r) # RB!Nil => Child(t, s, r) # x
    BY <1>2 DEF Hole
  <1>4. \A m \in N \cup {RB!Nil} : b[m] \in Nat
    BY <1>1 DEF Heights
  <1>5. f \in N /\ f # x /\ f # p /\ f # s /\ Black(t, f) = 0 /\ f # RB!Nil
    BY <1>3, IsRedIs
  <1>6. \A m \in N, r \in Sides : Child(t, m, r) = f => m = s /\ r = o
    BY <1>1, <1>3, <1>5, OneParent
  <1>7. i \in N \cup {RB!Nil} /\ i \notin {p, s, f}
    BY <1>3, <1>5, <1>6
  <1>8. b[f] = b[x] /\ b[i] = b[x]
    <2>1. Level(t, b, s)
      BY <1>1, <1>3
    <2> HIDE DEF o, i
    <2>2. b[s] = b[f] + Black(t, s) /\ b[s] = b[i] + Black(t, s)
      BY <1>3, <2>1 DEF Level, i, o
    <2> QED
      BY <1>1, <1>3, <1>4, <1>5, <1>7, <2>2
  <1>9. \A r \in Sides : BlackChild(t, f, r)
    <2>1. \A r \in Sides : Child(t, f, r) # RB!Nil => Child(t, f, r) # x
      <3>1. \A m \in N, r \in Sides : Child(t, m, r) # RB!Nil => Parent(t, Child(t, m, r)) = m
        BY <1>1 DEF Tree
      <3>2. x # RB!Nil => Parent(t, x) = p
        BY <1>3, <3>1
      <3> QED
        BY <1>5, <3>1, <3>2
    <2>2. \A r \in Sides : Child(t, f, r) = RB!Nil => BlackChild(t, f, r)
      BY DEF BlackChild
    <2> QED
      BY <1>1, <1>5, <2>1, <2>2
  <1>10. Tree(t3, N, sub)
    BY <1>1, PaintTree
  <1>11. /\ t3.root = t.root /\ Keys(t3) = Keys(t)
         /\ Black(t3, f) = 1 /\ Black(t3, p) = 1 /\ Black(t3, s) = Black(t, p)
         /\ \A m \in Keys(t) : /\ m # s /\ m # p /\ m # f => Black(t3, m) = Black(t, m)
                               /\ Volume(t3, m) = Volume(t, m)
         /\ \A m \in Keys(t), r \in Sides : Child(t3, m, r) = Child(t, m, r)
    <2>1. /\ t1.root = t.root /\ Keys(t1) = Keys(t)
          /\ \A m \in Keys(t) : /\ Black(t1, m) = (IF m = s THEN Black(t, p) ELSE Black(t, m))
                                /\ Volume(t1, m) = Volume(t, m)
          /\ \A m \in Keys(t), r \in Sides : Child(t1, m, r) = Child(t, m, r)
      BY DEF Painted
    <2>2. /\ t2.root = t1.root /\ Keys(t2) = Keys(t1)
          /\ \A m \in Keys(t1) : Black(t2, m) = (IF m = p THEN 1 ELSE Black(t1, m)) /\ Volume(t2, m) = Volume(t1, m)
          /\ \A m \in Keys(t1), r \in Sides : Child(t2, m, r) = Child(t1, m, r)
      BY DEF Painted
    <2>3. /\ t3.root = t2.root /\ Keys(t3) = Keys(t2)
          /\ \A m \in Keys(t2) : Black(t3, m) = (IF m = f THEN 1 ELSE Black(t2, m)) /\ Volume(t3, m) = Volume(t2, m)
          /\ \A m \in Keys(t2), r \in Sides : Child(t3, m, r) = Child(t2, m, r)
      BY DEF Painted
    <2> QED
      BY <1>3, <1>5, <2>1, <2>2, <2>3
  <1>12. Risen(t3, u, N, p, d, s) /\ Tree(u, N, sub2)
    <2>1. s = Child(t3, p, RB!Other(d)) /\ s # RB!Nil
      BY <1>3, <1>11
    <2> QED
      BY <1>3, <1>10, <2>1, RotateTree
  <1> HIDE DEF sub2
  <1>13. /\ Keys(u) = Keys(t) /\ u.root = IF t.root = p THEN s ELSE t.root
         /\ Black(u, p) = 1 /\ Black(u, f) = 1 /\ Black(u, s) = Black(t, p)
         /\ \A m \in N : m # s /\ m # p /\ m # f => Black(u, m) = Black(t, m)
         /\ \A m \in N \ {p, s}, r \in Sides : Child(u, m, r) = IF Child(t, m, r) = p THEN s ELSE Child(t, m, r)
         /\ Child(u, p, d) = x /\ Child(u, p, o) = i /\ Child(u, s, d) = p /\ Child(u, s, o) = f
    BY <1>3, <1>5, <1>11, <1>12 DEF Risen
  <1>14. SameVolumes(t, u)
    BY <1>11, <1>12 DEF Risen, SameVolumes
  <1>15. /\ Heights(N, b2) /\ b2[p] = b[x] + 1 /\ b2[s] = b[p] /\ b2[f] = b[x] + 1
         /\ \A m \in N \cup {RB!Nil} : m # p /\ m # s /\ m # f => b2[m] = b[m]
    BY <1>1, <1>3, <1>4, <1>5, <1>8 DEF Heights
  <1> HIDE DEF b2, i, o
  <1>16. ASSUME NEW m \in N, NEW r \in Sides
         PROVE  b2[m] = b2[Child(u, m, r)] + Black(u, m)
    <2>1. CASE m = p
      <3>1. b2[Child(u, p, r)] = b[x]
        BY <1>3, <1>5, <1>7, <1>8, <1>13, <1>15
      <3> QED
        BY <1>13, <1>15, <2>1, <3>1
    <2>2. CASE m = s
      <3>1. b2[Child(u, s, r)] = b[x] + 1
        BY <1>3, <1>13, <1>15
      <3> QED
        BY <1>1, <1>13, <1>15, <2>2, <3>1
    <2>3. CASE m \notin {p, s}
      <3>1. b[m] = b[Child(t, m, r)] + Black(t, m) /\ Child(t, m, r) \in N \cup {RB!Nil}
        BY <1>1, <2>3 DEF Level, Tree
      <3>2. Child(t, m, r) # s /\ Child(t, m, r) # f
        BY <1>3, <1>6, <2>3
      <3>3. b2[Child(u, m, r)] = b[Child(t, m, r)]
        BY <1>13, <1>15, <2>3, <3>1, <3>2
      <3>4. CASE m = f
        BY <1>5, <1>4, <1>8, <1>13, <1>15, <3>1, <3>3, <3>4
      <3>5. CASE m # f
        BY <1>13, <1>15, <2>3, <3>1, <3>3, <3>5
      <3> QED
        BY <3>4, <3>5
    <2> QED
      BY <2>1, <2>2, <2>3
  <1>17. ASSUME NEW m \in N, NEW r \in Sides, Black(u, m) = 0
         PROVE  BlackChild(u, m, r)
    <2>1. m # p /\ m # f
      BY <1>13, <1>17
    <2>2. CASE m = s
      BY <1>3, <1>13, <2>2 DEF BlackChild
    <2>3. CASE m # s
      <3>1. Black(t, m) = 0 /\ m # x /\ Child(t, m, r) # s /\ Child(t, m, r) # f
        BY <1>3, <1>6, <1>13, <1>17, <2>1, <2>3, IsRedIs
      <3>2. BlackChild(t, m, r)
        <4>1. CASE Child(t, m, r) = x
          BY <4>1, IsRedIs, BlackIs DEF BlackChild
        <4>2. CASE Child(t, m, r) # x
          BY <1>1, <3>1, <4>2
        <4> QED
          BY <4>1, <4>2
      <3>3. Child(t, m, r) \in N \cup {RB!Nil}
        BY <1>1 DEF Tree
      <3>4. CASE Child(t, m, r) = p
        <4>1. Black(t, p) = 1
          BY <1>3, <3>2, <3>4 DEF BlackChild
        <4> QED
          BY <1>13, <2>1, <2>3, <3>4, <4>1 DEF BlackChild
      <3>5. CASE Child(t, m, r) # p
        BY <1>13, <2>1, <2>3, <3>1, <3>2, <3>3, <3>5 DEF BlackChild
      <3> QED
        BY <3>4, <3>5
    <2> QED
      BY <2>2, <2>3
  <1>18. u.root \in N \cup {RB!Nil}
    BY <1>12 DEF Tree
  <1>19. Deleting(u, N, sub2, b2, u.root, RB!Nil, d)
    BY <1>3, <1>12, <1>15, <1>16, <1>17, <1>18 DEF Deleting, Level
  <1> QED
    BY <1>14, <1>19 DEF sub2, b2

(* The loop ends. *)
Deleted(t, x) == x = t.root \/ RB!IsRed(t, x)

(* At its turn i the loop has ended, or the hole is above as many nodes. *)
Onwards(t, N, w, i) ==
    \E u, x, p, sub, b, d : /\ w = <<u, x, p>>
                            /\ Deleting(u, N, sub, b, x, p, d) /\ SameVolumes(t, u)
                            /\ Deleted(u, x) \/ Cardinality(sub[x]) >= i

LEMMA BlackSiblingIs ==
    ASSUME NEW t, NEW N, NEW sub, NEW b, NEW x, NEW p, NEW d, Deleting(t, N, sub, b, x, p, d), p # RB!Nil,
           ~RB!IsRed(t, x), NEW u, u = RB!BlackSibling(t, p, d)
    PROVE  \E sub2, b2 : /\ Deleting(u, N, sub2, b2, x, p, d) /\ sub2[x] = sub[x] /\ ~RB!IsRed(u, x)
                         /\ Black(u, Child(u, p, RB!Other(d))) = 1 /\ SameVolumes(t, u)
  <1> DEFINE s == Child(t, p, RB!Other(d))
             t1 == Blacken(t, s)
             t2 == Redden(t1, p)
             v == RB!Rotate(t2, p, d)
  <1>1. Hole(t, N, x, p, d, s)
    BY HoleIs
  <1>2. p \in Keys(t) /\ s \in Keys(t) /\ Heap(t) /\ s # RB!Nil
    BY <1>1 DEF Hole, Deleting, Tree
  <1>3. CASE RB!IsRed(t, s)
    <2>1. u = v
      BY <1>3, Zenon DEF RB!BlackSibling, Child, Blacken, Redden
    <2> HIDE DEF s
    <2>2. Painted(t, t1, s, 1)
      BY <1>2, BlackenIs
    <2> HIDE DEF t1
    <2>3. Heap(t1) /\ Keys(t1) = Keys(t)
      BY <2>2 DEF Painted
    <2>4. Painted(t1, t2, p, 0)
      BY <1>2, <2>3, BlackenIs
    <2> HIDE DEF t2
    <2>5. s = Child(t, p, RB!Other(d)) /\ Black(t, s) = 0
      BY <1>3, IsRedIs DEF s
    <2> DEFINE sub2 == Turned(t2, N, sub, p, d, s)
               b2 == [b EXCEPT ![s] = b[p], ![p] = b[x] + 1]
    <2>6. /\ Deleting(v, N, sub2, b2, x, p, d) /\ sub2[x] = sub[x] /\ ~RB!IsRed(v, x)
          /\ Black(v, Child(v, p, RB!Other(d))) = 1 /\ SameVolumes(t, v)
      <3> HIDE DEF v
      <3> QED
        BY <2>2, <2>4, <2>5, SiblingTurn DEF v
    <2> HIDE DEF sub2, b2, v
    <2> QED
      BY <2>1, <2>6
  <1>4. CASE ~RB!IsRed(t, s)
    <2>1. u = t
      BY <1>4, Zenon DEF RB!BlackSibling, Child
    <2>2. Black(t, s) = 1
      BY <1>2, <1>4, IsRedIs, BlackIs
    <2>3. SameVolumes(t, t)
      BY DEF SameVolumes
    <2> QED
      BY <2>1, <2>2, <2>3
  <1> QED
    BY <1>3, <1>4

LEMMA RedFarChildIs ==
    ASSUME NEW t, NEW N, NEW sub, NEW b, NEW x, NEW p, NEW d, Deleting(t, N, sub, b, x, p, d), p # RB!Nil,
           ~RB!IsRed(t, x), NEW s, s = Child(t, p, RB!Other(d)), Black(t, s) = 1,
           RB!IsRed(t, Child(t, s, "left")) \/ RB!IsRed(t, Child(t, s, "right")),
           NEW u, u = RB!RedFarChild(t, s, d)
    PROVE  \E sub2, b2 : /\ Deleting(u, N, sub2, b2, x, p, d) /\ ~RB!IsRed(u, x)
                         /\ Black(u, Child(u, p, RB!Other(d))) = 1
                         /\ RB!IsRed(u, Child(u, Child(u, p, RB!Other(d)), RB!Other(d)))
                         /\ SameVolumes(t, u)
  <1> DEFINE o == RB!Other(d)
             i == Child(t, s, d)
             t1 == Blacken(t, i)
             t2 == Redden(t1, s)
             v == RB!Rotate(t2, s, o)
  <1>1. Hole(t, N, x, p, d, s)
    BY HoleIs
  <1>2. s \in Keys(t) /\ Heap(t) /\ s \in N /\ N \subseteq Keys(t) /\ d \in Sides /\ o \in Sides
        /\ i \in N \cup {RB!Nil} /\ RB!Nil \notin N
    <2>1. Heap(t)
      BY DEF Deleting, Tree
    <2> QED
      BY <1>1, <2>1 DEF Hole
  <1>3. CASE RB!IsRed(t, Child(t, s, o))
    <2>1. u = t
      BY <1>3, Zenon DEF RB!RedFarChild, Child
    <2>3. SameVolumes(t, t)
      BY DEF SameVolumes
    <2> QED
      BY <1>3, <2>1, <2>3
  <1>4. CASE ~RB!IsRed(t, Child(t, s, o))
    <2>1. u = v
      BY <1>4, Zenon DEF RB!RedFarChild, Child, Blacken, Redden
    <2>2. RB!IsRed(t, i)
      BY <1>2, <1>4 DEF Sides, RB!Other
    <2>3. BlackChild(t, s, o)
      BY <1>4, IsRedIs, BlackIs DEF BlackChild
    <2>4. i \in Keys(t)
      BY <1>2, <2>2, IsRedIs
    <2>5. i = Child(t, s, d)
      OBVIOUS
    <2> HIDE DEF i
    <2>6. Painted(t, t1, i, 1)
      BY <1>2, <2>4, BlackenIs
    <2> HIDE DEF t1
    <2>7. Heap(t1) /\ Keys(t1) = Keys(t)
      BY <2>6 DEF Painted
    <2>8. Painted(t1, t2, s, 0)
      BY <1>2, <2>7, BlackenIs
    <2> HIDE DEF t2
    <2> DEFINE sub2 == Turned(t2, N, sub, s, o, i)
               b2 == [b EXCEPT ![i] = b[s], ![s] = b[i]]
    <2>9. /\ Deleting(v, N, sub2, b2, x, p, d) /\ ~RB!IsRed(v, x) /\ Child(v, p, o) = i /\ Black(v, i) = 1
          /\ Child(v, i, o) = s /\ Black(v, s) = 0 /\ SameVolumes(t, v)
      <3> HIDE DEF v
      <3> QED
        BY <2>2, <2>3, <2>5, <2>6, <2>8, FarTurn DEF v
    <2> HIDE DEF sub2, b2, v
    <2>10. s # RB!Nil
      BY <1>2
    <2>11. Black(v, Child(v, p, o)) = 1 /\ RB!IsRed(v, Child(v, Child(v, p, o), o))
      BY <2>9, <2>10, IsRedIs
    <2> QED
      BY <2>1, <2>9, <2>11
  <1> QED
    BY <1>3, <1>4

LEMMA LastTurnIs ==
    ASSUME NEW t, NEW N, NEW sub, NEW b, NEW x, NEW p, NEW d, Deleting(t, N, sub, b, x, p, d), p # RB!Nil,
           ~RB!IsRed(t, x), NEW s, s = Child(t, p, RB!Other(d)), Black(t, s) = 1,
           NEW f, f = Child(t, s, RB!Other(d)), RB!IsRed(t, f),
           NEW u, u = RB!Rotate(Blacken(Blacken(RB!Paint(t, s, t.node[p].red), p), f), p, d)
    PROVE  \E sub2, b2 : Deleting(u, N, sub2, b2, u.root, RB!Nil, d) /\ SameVolumes(t, u)
  <1> DEFINE t1 == RB!Paint(t, s, t.node[p].red)
             t2 == Blacken(t1, p)
             t3 == Blacken(t2, f)
             v == RB!Rotate(t3, p, d)
             sub2 == Turned(t3, N, sub, p, d, s)
             b2 == [b EXCEPT ![p] = b[x] + 1, ![s] = b[p], ![f] = b[f] + 1]
  <1>1. Hole(t, N, x, p, d, s)
    BY HoleIs
  <1>2. p \in Keys(t) /\ s \in Keys(t) /\ Heap(t) /\ f \in Keys(t)
    <2>1. Heap(t)
      BY DEF Deleting, Tree
    <2>2. f \in N \cup {RB!Nil} /\ f # RB!Nil
      BY <1>1, IsRedIs DEF Hole
    <2> QED
      BY <1>1, <2>1, <2>2 DEF Hole
  <1>3. Painted(t, t1, s, Black(t, p))
    <2>1. t.node[p].red \in BOOLEAN
      BY <1>2 DEF Heap, Nodes, Keys
    <2> QED
      BY <1>2, <2>1, PaintIs DEF Black
  <1> HIDE DEF t1
  <1>4. Heap(t1) /\ Keys(t1) = Keys(t)
    BY <1>3 DEF Painted
  <1>5. Painted(t1, t2, p, 1)
    BY <1>2, <1>4, BlackenIs
  <1> HIDE DEF t2
  <1>6. Heap(t2) /\ Keys(t2) = Keys(t)
    BY <1>4, <1>5 DEF Painted
  <1>7. Painted(t2, t3, f, 1)
    BY <1>2, <1>6, BlackenIs
  <1> HIDE DEF t3
  <1>8. u = v
    BY DEF t1, t2, t3
  <1>9. Deleting(v, N, sub2, b2, v.root, RB!Nil, d) /\ SameVolumes(t, v)
    <2> HIDE DEF v
    <2> QED
      BY <1>3, <1>5, <1>7, LastTurn DEF v
  <1> HIDE DEF sub2, b2, v
  <1> QED
    BY <1>8, <1>9

LEMMA DeletePassIs ==
    ASSUME NEW t, NEW N, NEW i \in Nat, NEW c, Onwards(t, N, c, i)
    PROVE  Onwards(t, N, RB!DeletePass(c), i + 1)
  <1>1. PICK a, x, p, sub, b, d : /\ c = <<a, x, p>>
                                  /\ Deleting(a, N, sub, b, x, p, d) /\ SameVolumes(t, a)
                                  /\ Deleted(a, x) \/ Cardinality(sub[x]) >= i
    BY DEF Onwards
  <1> DEFINE side == RB!SideOf(a, x, p)
             o == RB!Other(side)
             t1 == RB!BlackSibling(a, p, side)
             s == Child(t1, p, o)
             t2 == RB!RedFarChild(t1, s, side)
             far == Child(t2, p, o)
             v == RB!Rotate(Blacken(Blacken(RB!Paint(t2, far, t2.node[p].red), p), Child(t2, far, o)), p, side)
             l == Child(t1, s, "left")
             r == Child(t1, s, "right")
  <1>2. /\ Deleted(a, x) => RB!DeletePass(c) = c
        /\ ~Deleted(a, x) /\ ~RB!IsRed(t1, l) /\ ~RB!IsRed(t1, r) =>
              RB!DeletePass(c) = <<Redden(t1, s), p, Parent(t1, p)>>
        /\ ~Deleted(a, x) /\ (RB!IsRed(t1, l) \/ RB!IsRed(t1, r)) =>
              RB!DeletePass(c) = <<v, v.root, RB!Nil>>
    BY <1>1, Zenon DEF RB!DeletePass, Deleted, Child, Parent, Blacken, Redden
  <1>3. CASE Deleted(a, x)
    <2> HIDE DEF v, l, r, s, t1, t2, far
    <2> QED
      BY <1>1, <1>2, <1>3 DEF Onwards
  <1>4. CASE ~Deleted(a, x)
    <2>1. ~RB!IsRed(a, x) /\ p # RB!Nil
      BY <1>1, <1>4 DEF Deleting, Deleted
    <2>2. side = d
      <3>1. Hole(a, N, x, p, d, Child(a, p, RB!Other(d)))
        BY <1>1, <2>1, HoleIs
      <3> QED
        BY <3>1 DEF Hole
    <2>3. t1 = RB!BlackSibling(a, p, d) /\ o = RB!Other(d) /\ t2 = RB!RedFarChild(t1, s, d)
          /\ v = RB!Rotate(Blacken(Blacken(RB!Paint(t2, far, t2.node[p].red), p), Child(t2, far, o)), p, d)
      BY <2>2
    <2> HIDE DEF side, v
    <2> HIDE DEF t2, t1, o
    <2>4. PICK sub1, b1 : /\ Deleting(t1, N, sub1, b1, x, p, d) /\ sub1[x] = sub[x] /\ ~RB!IsRed(t1, x)
                          /\ Black(t1, s) = 1 /\ SameVolumes(a, t1)
      BY <1>1, <2>1, <2>3, BlackSiblingIs
    <2>5. s = Child(t1, p, RB!Other(d))
      BY <2>3
    <2>6. Hole(t1, N, x, p, d, s)
      BY <2>1, <2>4, <2>5, HoleIs
    <2> HIDE DEF s
    <2>7. CASE ~RB!IsRed(t1, l) /\ ~RB!IsRed(t1, r)
      <3> DEFINE u == Redden(t1, s)
      <3>1. \A e \in Sides : BlackChild(t1, s, e)
        BY <2>7, IsRedIs, BlackIs DEF BlackChild, Sides
      <3>2. s \in Keys(t1) /\ p \in Keys(t1)
        BY <2>6 DEF Hole
      <3>3. Painted(t1, u, s, 0)
        BY <2>4, <3>2, BlackenIs DEF Deleting, Tree
      <3> HIDE DEF u
      <3>4. /\ \E d2 : Deleting(u, N, sub1, [b1 EXCEPT ![s] = b1[x], ![p] = b1[p] - 1], p, Parent(u, p), d2)
            /\ sub1[x] \subseteq sub1[p] /\ sub1[x] # sub1[p] /\ SameVolumes(t1, u)
        BY <2>1, <2>4, <2>5, <3>1, <3>3, RedSibling
      <3> DEFINE b2 == [b1 EXCEPT ![s] = b1[x], ![p] = b1[p] - 1]
      <3>5. PICK d2 : Deleting(u, N, sub1, b2, p, Parent(u, p), d2)
        BY <3>4
      <3> HIDE DEF b2
      <3>6. Parent(u, p) = Parent(t1, p)
        BY <3>2, <3>3 DEF Painted
      <3>7. Cardinality(sub1[p]) >= i + 1
        <4>1. Tree(t1, N, sub1) /\ x \in N \cup {RB!Nil} /\ p \in N
          BY <2>4, <2>6 DEF Deleting, Hole
        <4>2. /\ Cardinality(sub1[x]) \in Nat /\ Cardinality(sub1[p]) \in Nat
              /\ Cardinality(sub1[x]) < Cardinality(sub1[p])
          BY <3>4, <4>1, SubtreeSize DEF Sizes
        <4>3. Cardinality(sub1[x]) >= i
          BY <1>1, <1>4, <2>4
        <4> QED
          BY <4>2, <4>3
      <3>8. SameVolumes(t, u)
        BY <1>1, <2>4, <3>4 DEF SameVolumes
      <3>9. RB!DeletePass(c) = <<u, p, Parent(u, p)>>
        BY <1>2, <1>4, <2>7, <3>6 DEF u
      <3> QED
        BY <3>5, <3>7, <3>8, <3>9 DEF Onwards
    <2>8. CASE RB!IsRed(t1, l) \/ RB!IsRed(t1, r)
      <3>1. PICK sub2, b2 : /\ Deleting(t2, N, sub2, b2, x, p, d) /\ ~RB!IsRed(t2, x)
                            /\ Black(t2, Child(t2, p, RB!Other(d))) = 1
                            /\ RB!IsRed(t2, Child(t2, Child(t2, p, RB!Other(d)), RB!Other(d)))
                            /\ SameVolumes(t1, t2)
        BY <2>1, <2>3, <2>4, <2>5, <2>8, RedFarChildIs
      <3>2. far = Child(t2, p, RB!Other(d)) /\ o = RB!Other(d)
        BY <2>3
      <3> HIDE DEF far
      <3>3. PICK sub3, b3 : Deleting(v, N, sub3, b3, v.root, RB!Nil, d) /\ SameVolumes(t2, v)
        BY <2>1, <2>3, <3>1, <3>2, LastTurnIs
      <3>4. RB!DeletePass(c) = <<v, v.root, RB!Nil>>
        BY <1>2, <1>4, <2>8
      <3>5. SameVolumes(t, v)
        BY <1>1, <2>4, <3>1, <3>3 DEF SameVolumes
      <3> QED
        BY <3>3, <3>4, <3>5 DEF Onwards, Deleted
    <2> QED
      BY <2>7, <2>8
  <1> QED
    BY <1>3, <1>4

(* The last node that is painted fills the hole. *)
LEMMA HoleFilled ==
    ASSUME NEW t, NEW N, NEW sub, NEW b, NEW x, NEW p, NEW d, Deleting(t, N, sub, b, x, p, d), Deleted(t, x)
    PROVE  \E b2 : IsRedBlack(Blacken(t, x), N, sub, b2) /\ SameVolumes(t, Blacken(t, x))
  <1> DEFINE u == Blacken(t, x)
             b2 == IF x = RB!Nil \/ Black(t, x) = 1 THEN b ELSE [b EXCEPT ![x] = @ + 1]
  <1>1. /\ Tree(t, N, sub) /\ Heights(N, b) /\ x \in N \cup {RB!Nil} /\ p \in N \cup {RB!Nil} /\ d \in Sides
        /\ \A m \in N \ {p} : Level(t, b, m)
        /\ p = RB!Nil => t.root = x
        /\ p # RB!Nil => /\ Child(t, p, d) = x /\ b[Child(t, p, RB!Other(d))] = b[x] + 1
                           /\ b[p] = b[x] + 1 + Black(t, p)
        /\ \A m \in N, s \in Sides : Black(t, m) = 0 /\ m # x /\ Child(t, m, s) # x => BlackChild(t, m, s)
        /\ t.root # RB!Nil /\ Black(t, t.root) = 0 => t.root = x
    BY DEF Deleting
  <1>2. /\ N \subseteq Keys(t) /\ Heap(t) /\ RB!Nil \notin N /\ t.root \in N \cup {RB!Nil}
        /\ \A m \in N, s \in Sides : Child(t, m, s) \in N \cup {RB!Nil}
    <2>1. /\ N \subseteq Keys(t) /\ Heap(t) /\ t.root \in N \cup {RB!Nil}
          /\ \A m \in N, s \in Sides : Child(t, m, s) \in N \cup {RB!Nil}
      BY <1>1 DEF Tree
    <2> QED
      BY <1>1, <2>1, TreeNats
  <1>3. p # RB!Nil => x # t.root /\ RB!IsRed(t, x)
    <2>1. SUFFICES ASSUME p # RB!Nil
                   PROVE  x # t.root
      BY DEF Deleted
    <2>2. Hole(t, N, x, p, d, Child(t, p, RB!Other(d)))
      BY <2>1, HoleIs
    <2> QED
      BY <2>2 DEF Hole
  <1>4. Painted(t, u, x, 1)
    BY <1>1, <1>2, BlackenIs
  <1> HIDE DEF u
  <1>5. /\ Tree(u, N, sub) /\ u.root = t.root /\ Keys(u) = Keys(t)
        /\ \A m \in N : Black(u, m) = IF m = x THEN 1 ELSE Black(t, m)
        /\ \A m \in N, s \in Sides : Child(u, m, s) = Child(t, m, s)
    <2>1. Tree(u, N, sub)
      BY <1>1, <1>4, PaintTree
    <2> QED
      BY <1>2, <1>4, <2>1 DEF Painted
  <1>6. SameVolumes(t, u)
    BY <1>4 DEF Painted, SameVolumes
  <1>7. /\ b \in [N \cup {RB!Nil} -> Nat] /\ b[RB!Nil] = 0 /\ Black(t, x) \in {0, 1}
    BY <1>1, BlackIs DEF Heights
  <1>8. /\ Heights(N, b2) /\ \A m \in N \cup {RB!Nil} : m # x => b2[m] = b[m]
        /\ x # RB!Nil => b2[x] = b[x] + 1 - Black(t, x)
    <2>1. CASE x = RB!Nil \/ Black(t, x) = 1
      BY <1>1, <1>7, <2>1 DEF Heights
    <2>2. CASE x # RB!Nil /\ Black(t, x) = 0
      BY <1>1, <1>2, <1>7, <2>2 DEF Heights
    <2> QED
      BY <1>7, <2>1, <2>2
  <1>9. x = RB!Nil => b2[x] = 0
    BY <1>8 DEF Heights
  <1> HIDE DEF b2
  <1>10. \A m \in N, s \in Sides : Child(t, m, s) # m
    BY <1>1, <1>2, Below
  <1>11. ASSUME NEW m \in N, NEW s \in Sides, Child(t, m, s) = x, x # RB!Nil
         PROVE  m = p
    <2>1. Parent(t, x) = m
      BY <1>1, <1>11 DEF Tree
    <2>2. x # t.root
      BY <1>1, <1>2, <2>1, <1>11 DEF Tree
    <2>3. p # RB!Nil
      BY <1>1, <2>2
    <2>4. Child(t, p, d) = x /\ p \in N
      BY <1>1, <2>3
    <2>5. Parent(t, x) = p
      BY <1>1, <1>11, <2>4 DEF Tree
    <2> QED
      BY <2>1, <2>5
  <1>12. ASSUME NEW m \in N, NEW s \in Sides
         PROVE  b2[m] = b2[Child(u, m, s)] + Black(u, m)
    <2> DEFINE k == Child(t, m, s)
    <2>0. k \in N \cup {RB!Nil} /\ k # m /\ Child(u, m, s) = k
      BY <1>2, <1>5, <1>10
    <2> HIDE DEF k
    <2>1. b[m] \in Nat /\ b[k] \in Nat /\ b[x] \in Nat
      BY <1>1, <1>7, <2>0
    <2>2. CASE m # p
      <3>1. b[m] = b[k] + Black(t, m)
        BY <1>1, <2>2 DEF Level, k
      <3>2. b2[k] = b[k]
        <4>1. CASE k # x
          BY <1>8, <2>0, <4>1
        <4>2. CASE k = x
          <5>1. x = RB!Nil
            BY <1>11, <2>2, <4>2 DEF k
          <5> QED
            BY <1>7, <1>9, <4>2, <5>1
        <4> QED
          BY <4>1, <4>2
      <3>3. CASE m # x
        BY <1>5, <1>8, <2>0, <3>1, <3>2, <3>3
      <3>4. CASE m = x
        BY <1>2, <1>5, <1>7, <1>8, <2>0, <2>1, <3>1, <3>2, <3>4
      <3> QED
        BY <3>3, <3>4
    <2>3. CASE m = p
      <3>1. p # RB!Nil /\ x # RB!Nil /\ Black(t, x) = 0
        BY <1>2, <1>3, <2>3, IsRedIs
      <3>2. Child(t, p, d) = x /\ b[Child(t, p, RB!Other(d))] = b[x] + 1 /\ b[p] = b[x] + 1 + Black(t, p)
        BY <1>1, <3>1
      <3>3. b2[x] = b[x] + 1 /\ x # p
        BY <1>1, <1>8, <1>10, <2>1, <2>3, <3>1, <3>2
      <3>4. b2[p] = b[p] /\ Black(u, p) = Black(t, p)
        BY <1>5, <1>8, <2>3, <3>3
      <3>5. CASE s = d
        BY <2>0, <2>3, <3>2, <3>3, <3>4, <3>5 DEF k
      <3>6. CASE s # d
        <4>1. s = RB!Other(d) /\ k # x
          <5>1. s = RB!Other(d)
            BY <1>1, <3>6, OtherIs
          <5>2. b[k] # b[x]
            BY <2>1, <2>3, <3>2, <5>1 DEF k
          <5> QED
            BY <5>1, <5>2
        <4>2. b2[k] = b[k] /\ b[k] = b[x] + 1
          BY <1>8, <2>0, <2>3, <3>2, <4>1 DEF k
        <4> QED
          BY <2>0, <2>3, <3>2, <3>4, <4>2
      <3> QED
        BY <3>5, <3>6
    <2> QED
      BY <2>2, <2>3
  <1>13. ASSUME NEW m \in N, NEW s \in Sides, Black(u, m) = 0
         PROVE  BlackChild(u, m, s)
    <2>1. m # x /\ Black(t, m) = 0 /\ Child(u, m, s) = Child(t, m, s) /\ Child(t, m, s) \in N \cup {RB!Nil}
      BY <1>2, <1>5, <1>13
    <2>2. CASE Child(t, m, s) = x
      BY <1>5, <2>1, <2>2 DEF BlackChild
    <2>3. CASE Child(t, m, s) # x
      <3>1. BlackChild(t, m, s)
        BY <1>1, <2>1, <2>3
      <3> QED
        BY <1>5, <2>1, <2>3, <3>1 DEF BlackChild
    <2> QED
      BY <2>2, <2>3
  <1>14. u.root # RB!Nil => Black(u, u.root) = 1
    <2>1. ASSUME t.root # RB!Nil
          PROVE  Black(u, t.root) = 1
      <3>1. t.root \in N
        BY <1>2, <2>1
      <3>2. Black(t, t.root) \in {0, 1}
        BY BlackIs
      <3> QED
        BY <1>1, <1>5, <2>1, <3>1, <3>2
    <2> QED
      BY <1>5, <2>1
  <1>15. IsRedBlack(u, N, sub, b2)
    BY <1>5, <1>8, <1>12, <1>13, <1>14 DEF IsRedBlack, Level
  <1> QED
    BY <1>6, <1>15 DEF u

LEMMA DeleteFixupIs ==
    ASSUME NEW t, NEW N, N \subseteq Keys(t), N # Keys(t), NEW sub, NEW b, NEW x, NEW p, NEW d,
           Deleting(t, N, sub, b, x, p, d)
    PROVE  \E sub2, b2 : /\ IsRedBlack(RB!DeleteFixup(t, x, p), N, sub2, b2)
                         /\ SameVolumes(t, RB!DeleteFixup(t, x, p))
  <1> DEFINE z == RB!Size(t)
             M == Keys(t)
             V == Heaps(M) \X (M \cup {RB!Nil}) \X (M \cup {RB!Nil})
             F == [c \in V |-> RB!DeletePass(c)]
             P == [i \in 0 .. z |-> {c \in V : Onwards(t, N, c, i)}]
             Def(at) == [i \in 0 .. z |-> IF i = 0 THEN <<t, x, p>> ELSE RB!DeletePass(at[i - 1])]
             loop == CHOOSE at : at = Def(at)
  <1>1. Tree(t, N, sub) /\ x \in N \cup {RB!Nil} /\ Heap(t)
    <2>1. Tree(t, N, sub) /\ x \in N \cup {RB!Nil}
      BY DEF Deleting
    <2> QED
      BY <2>1 DEF Tree
  <1>2. z \in Nat /\ z = Cardinality(M) /\ IsFiniteSet(M)
    <2>1. z = Cardinality(M)
      BY DEF RB!Size, RB!Keys, Keys, RB!Cardinality, Cardinality
    <2>2. IsFiniteSet(M)
      BY <1>1 DEF Heap, Keys
    <2> QED
      BY <2>1, <2>2, FS_CardinalityType
  <1>3. \A w, i : Onwards(t, N, w, i) => w \in V
    <2> SUFFICES ASSUME NEW w, NEW i, Onwards(t, N, w, i)
                 PROVE  w \in V
      OBVIOUS
    <2>1. PICK u, x2, p2, sub2, b2, d2 : /\ w = <<u, x2, p2>>
                                         /\ Deleting(u, N, sub2, b2, x2, p2, d2) /\ SameVolumes(t, u)
      BY DEF Onwards
    <2>2. Tree(u, N, sub2) /\ x2 \in N \cup {RB!Nil} /\ p2 \in N \cup {RB!Nil}
      BY <2>1 DEF Deleting
    <2>3. Heap(u) /\ Keys(u) = M
      BY <2>1, <2>2 DEF Tree, SameVolumes
    <2>4. u \in Heaps(M)
      BY <2>3, HeapIs
    <2> QED
      BY <2>1, <2>2, <2>4
  <1>4. <<t, x, p>> \in P[0]
    <2>1. Onwards(t, N, <<t, x, p>>, 0)
      <3>1. Cardinality(sub[x]) \in Nat
        BY <1>1, SubtreeSize DEF Sizes
      <3> QED
        BY <3>1 DEF Onwards, SameVolumes
    <2> HIDE DEF V
    <2> QED
      BY <1>2, <1>3, <2>1
  <1>5. ASSUME NEW i \in 1 .. z, NEW c \in P[i - 1]
        PROVE  c \in V /\ RB!DeletePass(c) \in P[i]
    <2>1. i - 1 \in 0 .. z /\ i \in 0 .. z /\ i - 1 \in Nat /\ (i - 1) + 1 = i
      BY <1>2
    <2> HIDE DEF V, z
    <2>2. c \in V /\ Onwards(t, N, c, i - 1)
      BY <2>1
    <2>3. Onwards(t, N, RB!DeletePass(c), (i - 1) + 1)
      BY <2>1, <2>2, DeletePassIs
    <2>4. Onwards(t, N, RB!DeletePass(c), i)
      BY <2>1, <2>3
    <2> QED
      BY <1>3, <2>1, <2>2, <2>4
  <1>6. \A i \in 0 .. z : P[i] \subseteq V
    OBVIOUS
  <1>7. RB!DeleteFixup(t, x, p) = Blacken(loop[z][1], loop[z][2])
    BY DEF RB!DeleteFixup, Blacken
  <1>8. loop[z] \in P[z]
    <2>1. \A c \in V : F[c] = RB!DeletePass(c)
      OBVIOUS
    <2> HIDE DEF z, V, F, P, Def
    <2>2. \A i \in 1 .. z : \A c \in P[i - 1] : F[c] \in P[i]
      BY <1>5, <2>1
    <2>3. PICK g : Loop(g, z, V, F, <<t, x, p>>)
      BY <1>2, <1>4, <1>6, <2>2, LoopExists
    <2>4. g = Def(g)
      <3>1. \A i \in 1 .. z : g[i] = RB!DeletePass(g[i - 1])
        BY <2>1, <2>3 DEF Loop
      <3>2. \A i \in 0 .. z : i # 0 => i \in 1 .. z
        BY <1>2
      <3>3. \A i \in 0 .. z : g[i] = IF i = 0 THEN <<t, x, p>> ELSE RB!DeletePass(g[i - 1])
        BY <2>3, <3>1, <3>2 DEF Loop
      <3> QED
        BY <2>3, <3>3, Zenon DEF Def, Loop
    <2>5. loop = Def(loop)
      BY <2>4
    <2> HIDE DEF loop
    <2>6. loop[0] = <<t, x, p>> /\ \A i \in 1 .. z : loop[i] = RB!DeletePass(loop[i - 1])
      <3>1. 0 \in 0 .. z /\ \A i \in 1 .. z : i \in 0 .. z /\ i # 0
        BY ONLY <1>2
      <3>2. \A i \in 0 .. z : loop[i] = IF i = 0 THEN <<t, x, p>> ELSE RB!DeletePass(loop[i - 1])
        BY ONLY <2>5, Zenon DEF Def
      <3> QED
        BY ONLY <3>1, <3>2, Zenon
    <2>7. \A i \in 1 .. z : loop[i - 1] \in P[i - 1] => loop[i] \in P[i]
      BY <1>5, <2>6
    <2> QED
      BY <1>2, <1>4, <2>6, <2>7, LoopEnds
  <1> HIDE DEF loop
  <1>9. PICK u, x2, p2, sub2, b2, d2 : /\ loop[z] = <<u, x2, p2>>
                                       /\ Deleting(u, N, sub2, b2, x2, p2, d2) /\ SameVolumes(t, u)
                                       /\ Deleted(u, x2) \/ Cardinality(sub2[x2]) >= z
    <2>1. Onwards(t, N, loop[z], z)
      BY <1>2, <1>8
    <2> QED
      BY <2>1 DEF Onwards
  <1>10. Deleted(u, x2)
    <2>1. Tree(u, N, sub2) /\ x2 \in N \cup {RB!Nil}
      BY <1>9 DEF Deleting
    <2>2. Cardinality(sub2[x2]) \in Nat /\ Cardinality(sub2[x2]) <= Cardinality(N) /\ Cardinality(N) \in Nat
      BY <2>1, SubtreeSize DEF Sizes
    <2>3. Cardinality(N) < Cardinality(M)
      BY <1>2, FS_Subset, FS_CardinalityType
    <2> QED
      BY <1>2, <1>9, <2>2, <2>3
  <1>11. PICK b3 : IsRedBlack(Blacken(u, x2), N, sub2, b3) /\ SameVolumes(u, Blacken(u, x2))
    BY <1>9, <1>10, HoleFilled
  <1>12. SameVolumes(t, Blacken(u, x2))
    BY <1>9, <1>11 DEF SameVolumes
  <1>13. RB!DeleteFixup(t, x, p) = Blacken(u, x2)
    BY <1>7, <1>9
  <1> QED
    BY <1>11, <1>12, <1>13

-----------------------------------------------------------------------------
(* y takes the name of key, and the value stays with the name y. *)
Name(n, key, y) == IF n = key THEN y ELSE n

(* No node is between the two. *)
Adjacent(K, key, y) == \A n \in K \ {key, y} : n < key <=> n < y

Relabelled(t, u, key, y) ==
    /\ Heap(u) /\ Keys(u) = Keys(t) \ {key} /\ u.root = Name(t.root, key, y)
    /\ \A k \in Keys(t) \ {key} : /\ Black(u, k) = Black(t, Name(k, y, key))
                                  /\ Parent(u, k) = Name(Parent(t, Name(k, y, key)), key, y)
                                  /\ Volume(u, k) = Volume(t, k)
    /\ \A k \in Keys(t) \ {key}, s \in Sides : Child(u, k, s) = Name(Child(t, Name(k, y, key), s), key, y)

(* The names match, and keep their order. *)
Names(K, key, y) ==
    /\ \A n \in K \ {y} : /\ Name(n, key, y) \in K \ {key} /\ Name(Name(n, key, y), y, key) = n
    /\ \A k \in K \ {key} : /\ Name(k, y, key) \in K \ {y} /\ Name(Name(k, y, key), key, y) = k
    /\ Name(RB!Nil, key, y) = RB!Nil /\ Name(RB!Nil, y, key) = RB!Nil
    /\ \A m, n \in K \ {y}, s \in Sides : On(s, m, n) => On(s, Name(m, key, y), Name(n, key, y))

LEMMA NameIs ==
    ASSUME NEW K, K \subseteq Nat \ {RB!Nil}, NEW key \in K, NEW y \in K, Adjacent(K, key, y)
    PROVE  Names(K, key, y)
  <1>1. ASSUME NEW m \in K \ {y}, NEW n \in K \ {y}, m < n
        PROVE  Name(m, key, y) < Name(n, key, y)
    <2>1. m \in Nat /\ n \in Nat /\ key \in Nat /\ y \in Nat
      OBVIOUS
    <2>2. CASE m = key
      <3>1. n # key /\ ~(n < key)
        BY <1>1, <2>1, <2>2
      <3>2. ~(n < y) /\ n # y
        BY <3>1 DEF Adjacent
      <3> QED
        BY <2>1, <2>2, <3>1, <3>2 DEF Name
    <2>3. CASE m # key /\ n = key
      BY <1>1, <2>1, <2>3 DEF Adjacent, Name
    <2>4. CASE m # key /\ n # key
      BY <1>1, <2>4 DEF Name
    <2> QED
      BY <2>2, <2>3, <2>4
  <1>2. \A m, n \in K \ {y}, s \in Sides : On(s, m, n) => On(s, Name(m, key, y), Name(n, key, y))
    BY <1>1 DEF On
  <1>3. /\ \A n \in K \ {y} : /\ Name(n, key, y) \in K \ {key} /\ Name(Name(n, key, y), y, key) = n
        /\ \A k \in K \ {key} : /\ Name(k, y, key) \in K \ {y} /\ Name(Name(k, y, key), key, y) = k
        /\ Name(RB!Nil, key, y) = RB!Nil /\ Name(RB!Nil, y, key) = RB!Nil
    BY DEF Name
  <1> QED
    BY <1>2, <1>3 DEF Names

LEMMA RenamedIs ==
    ASSUME NEW t, NEW N, NEW sub, Tree(t, N, sub), NEW key \in Keys(t), NEW y \in Keys(t),
           N = Keys(t) \ {y}, Adjacent(Keys(t), key, y), NEW u, u = RB!Renamed(t, key, y)
    PROVE  Relabelled(t, u, key, y)
  <1> DEFINE K == Keys(t)
             M == K \ {key}
             f(n) == Name(n, key, y)
             g(n) == Name(n, y, key)
  <1>1. Heap(t) /\ t.root \in N \cup {RB!Nil} /\ \A m \in N, s \in Sides : Child(t, m, s) \in N \cup {RB!Nil}
    BY DEF Tree
  <1>2. K \subseteq Nat \ {RB!Nil} /\ IsFiniteSet(K) /\ t.node \in [K -> Nodes(K)] /\ RB!Nil \notin N
    BY <1>1 DEF Heap, Keys
  <1>3. \A m \in N : Parent(t, m) \in N \cup {RB!Nil}
    <2> SUFFICES ASSUME NEW m \in N
                 PROVE  Parent(t, m) \in N \cup {RB!Nil}
      OBVIOUS
    <2>1. CASE m = t.root
      BY <1>2, <2>1 DEF Tree
    <2>2. CASE m # t.root
      BY <2>2 DEF Tree
    <2> QED
      BY <2>1, <2>2
  <1>4. /\ \A n \in N : f(n) \in M
        /\ \A k \in M : g(k) \in N
        /\ f(RB!Nil) = RB!Nil
    <2>1. Names(K, key, y)
      BY <1>2, NameIs
    <2> QED
      BY <2>1 DEF Names
  <1>5. /\ u.root = f(t.root)
        /\ u.node = [k \in M |-> [IF k = y THEN [t.node[key] EXCEPT !.value = t.node[y].value] ELSE t.node[k]
                                  EXCEPT !.left = f(@), !.right = f(@), !.parent = f(@)]]
    BY DEF RB!Renamed, Name, RB!Keys, Keys
  <1>6. ASSUME NEW k \in M
        PROVE  u.node[k] = [red |-> t.node[g(k)].red, left |-> f(t.node[g(k)].left), right |-> f(t.node[g(k)].right),
                            parent |-> f(t.node[g(k)].parent), value |-> t.node[k].value]
    <2>1. t.node[k] \in Nodes(K) /\ t.node[key] \in Nodes(K) /\ t.node[y] \in Nodes(K)
      BY <1>2
    <2>2. CASE k = y
      <3>1. u.node[k] = [[t.node[key] EXCEPT !.value = t.node[y].value]
                            EXCEPT !.left = f(@), !.right = f(@), !.parent = f(@)]
        BY <1>5, <2>2
      <3>2. g(k) = key
        BY <2>2 DEF Name
      <3> HIDE DEF f, g
      <3> QED
        BY <2>1, <2>2, <3>1, <3>2 DEF Nodes
    <2>3. CASE k # y
      <3>1. u.node[k] = [t.node[k] EXCEPT !.left = f(@), !.right = f(@), !.parent = f(@)]
        BY <1>5, <2>3
      <3>2. g(k) = k
        BY <2>3 DEF Name
      <3> HIDE DEF f, g
      <3> QED
        BY <2>1, <2>3, <3>1, <3>2 DEF Nodes
    <2> QED
      BY <2>2, <2>3
  <1>7. ASSUME NEW k \in M
        PROVE  /\ t.node[g(k)].red \in BOOLEAN /\ t.node[k].value \in Int
               /\ f(t.node[g(k)].left) \in M \cup {RB!Nil} /\ f(t.node[g(k)].right) \in M \cup {RB!Nil}
               /\ f(t.node[g(k)].parent) \in M \cup {RB!Nil}
    <2>1. g(k) \in N
      BY <1>4
    <2> HIDE DEF g
    <2>2. /\ t.node[g(k)].left \in N \cup {RB!Nil} /\ t.node[g(k)].right \in N \cup {RB!Nil}
          /\ t.node[g(k)].parent \in N \cup {RB!Nil}
      BY <1>1, <1>3, <2>1 DEF Child, Parent, Sides
    <2>3. t.node[g(k)] \in Nodes(K) /\ t.node[k] \in Nodes(K)
      BY <1>2, <2>1
    <2>4. t.node[g(k)].red \in BOOLEAN /\ t.node[k].value \in Int
      BY <2>3 DEF Nodes
    <2> HIDE DEF f
    <2>5. \A n \in N \cup {RB!Nil} : f(n) \in M \cup {RB!Nil}
      BY <1>4
    <2> QED
      BY <2>2, <2>4, <2>5
  <1> HIDE DEF f, g
  <1>8. DOMAIN u.node = M
    BY <1>5
  <1>9. u.node \in [M -> Nodes(M)]
    <2>1. ASSUME NEW k \in M
          PROVE  u.node[k] \in Nodes(M)
      <3> DEFINE red == t.node[g(k)].red
                 left == f(t.node[g(k)].left)
                 right == f(t.node[g(k)].right)
                 parent == f(t.node[g(k)].parent)
                 value == t.node[k].value
      <3>1. u.node[k] = [red |-> red, left |-> left, right |-> right, parent |-> parent, value |-> value]
        BY <1>6
      <3>2. /\ red \in BOOLEAN /\ value \in Int
            /\ left \in M \cup {RB!Nil} /\ right \in M \cup {RB!Nil} /\ parent \in M \cup {RB!Nil}
        BY <1>7
      <3> HIDE DEF red, left, right, parent, value, M
      <3> QED
        BY <3>1, <3>2 DEF Nodes
    <2>2. u.node = [k \in M |-> u.node[k]]
      BY <1>5, Zenon
    <2> QED
      BY <2>1, <2>2
  <1>10. u \in [root : M \cup {RB!Nil}, node : [M -> Nodes(M)]]
    <2>1. u.root \in M \cup {RB!Nil}
      BY <1>1, <1>4, <1>5
    <2>2. u = [root |-> u.root, node |-> u.node]
      BY DEF RB!Renamed
    <2> HIDE DEF M
    <2> QED
      BY <1>9, <2>1, <2>2
  <1>11. Heap(u) /\ Keys(u) = M
    <2>1. M \subseteq Nat \ {RB!Nil} /\ IsFiniteSet(M)
      BY <1>2, FS_Subset
    <2> HIDE DEF M
    <2> QED
      BY <1>8, <1>10, <2>1 DEF Heap, Keys
  <1>12. ASSUME NEW k \in M
         PROVE  /\ Black(u, k) = Black(t, g(k)) /\ Parent(u, k) = f(Parent(t, g(k))) /\ Volume(u, k) = Volume(t, k)
                /\ \A s \in Sides : Child(u, k, s) = f(Child(t, g(k), s))
    <2>1. /\ u.node[k].red = t.node[g(k)].red /\ u.node[k].value = t.node[k].value
          /\ u.node[k].left = f(t.node[g(k)].left) /\ u.node[k].right = f(t.node[g(k)].right)
          /\ u.node[k].parent = f(t.node[g(k)].parent)
      <3>1. u.node[k] = [red |-> t.node[g(k)].red, left |-> f(t.node[g(k)].left), right |-> f(t.node[g(k)].right),
                         parent |-> f(t.node[g(k)].parent), value |-> t.node[k].value]
        BY <1>6
      <3> QED
        BY <3>1
    <2>2. Black(u, k) = Black(t, g(k)) /\ Volume(u, k) = Volume(t, k)
      BY <2>1 DEF Black, Volume
    <2>3. Parent(u, k) = f(Parent(t, g(k)))
      BY <2>1 DEF Parent
    <2>4. \A s \in Sides : Child(u, k, s) = f(Child(t, g(k), s))
      BY <2>1 DEF Child, Sides
    <2> QED
      BY <2>2, <2>3, <2>4
  <1> QED
    BY <1>5, <1>11, <1>12 DEF Relabelled, f, g

LEMMA RenamedTree ==
    ASSUME NEW t, NEW N, NEW sub, NEW b, IsRedBlack(t, N, sub, b), NEW key \in Keys(t), NEW y \in Keys(t),
           N = Keys(t) \ {y}, Adjacent(Keys(t), key, y), NEW u, Relabelled(t, u, key, y)
    PROVE  Sound(u)
  <1> DEFINE K == Keys(t)
             M == K \ {key}
             f(n) == Name(n, key, y)
             g(n) == Name(n, y, key)
             sub2 == [a \in M \cup {RB!Nil} |-> {f(m) : m \in sub[g(a)]}]
             b2 == [a \in M \cup {RB!Nil} |-> b[g(a)]]
  <1>1. /\ Tree(t, N, sub) /\ Heights(N, b) /\ \A m \in N : Level(t, b, m)
        /\ \A m \in N, s \in Sides : Black(t, m) = 0 => BlackChild(t, m, s)
        /\ t.root # RB!Nil => Black(t, t.root) = 1
    BY DEF IsRedBlack
  <1>2. /\ t.root \in N \cup {RB!Nil} /\ sub[t.root] = N /\ sub[RB!Nil] = {}
        /\ t.root # RB!Nil => Parent(t, t.root) = RB!Nil
        /\ \A n \in N \ {t.root} :
              Parent(t, n) \in N /\ \E s \in Sides : Child(t, Parent(t, n), s) = n
        /\ \A n \in N, s \in Sides :
              /\ Child(t, n, s) \in N \cup {RB!Nil}
              /\ Child(t, n, s) # RB!Nil => Parent(t, Child(t, n, s)) = n
              /\ \A m \in sub[Child(t, n, s)] : On(s, m, n)
        /\ \A n \in N : /\ sub[n] \subseteq N
                        /\ sub[n] = {n} \cup sub[Child(t, n, "left")] \cup sub[Child(t, n, "right")]
    BY <1>1 DEF Tree
  <1>3. K \subseteq Nat \ {RB!Nil} /\ RB!Nil \notin N /\ RB!Nil \notin M
    BY <1>1 DEF Heap, Keys, Tree
  <1>4. /\ \A n \in N : f(n) \in M /\ g(f(n)) = n
        /\ \A k \in M : g(k) \in N /\ f(g(k)) = k
        /\ f(RB!Nil) = RB!Nil /\ g(RB!Nil) = RB!Nil
        /\ \A m, n \in N, s \in Sides : On(s, m, n) => On(s, f(m), f(n))
    <2>1. Names(K, key, y)
      BY <1>3, NameIs
    <2> QED
      BY <2>1 DEF Names
  <1>5. /\ Heap(u) /\ Keys(u) = M /\ u.root = f(t.root)
        /\ \A k \in M : Black(u, k) = Black(t, g(k)) /\ Parent(u, k) = f(Parent(t, g(k)))
        /\ \A k \in M, s \in Sides : Child(u, k, s) = f(Child(t, g(k), s))
    BY DEF Relabelled
  <1> HIDE DEF f, g, M
  <1>6. \A a \in M \cup {RB!Nil} : sub2[a] = {f(m) : m \in sub[g(a)]} /\ b2[a] = b[g(a)]
    OBVIOUS
  <1>7. b2 \in [M \cup {RB!Nil} -> Nat] /\ b2[RB!Nil] = 0
    <2>1. \A a \in M \cup {RB!Nil} : b[g(a)] \in Nat
      BY <1>1, <1>4 DEF Heights
    <2> QED
      BY <1>1, <1>4, <2>1 DEF Heights
  <1> HIDE DEF sub2, b2
  <1>8. \A n \in N \cup {RB!Nil} : /\ f(n) \in M \cup {RB!Nil} /\ g(f(n)) = n /\ (f(n) = RB!Nil <=> n = RB!Nil)
                                     /\ sub2[f(n)] = {f(m) : m \in sub[n]} /\ b2[f(n)] = b[n]
    BY <1>3, <1>4, <1>6
  <1>9. u.root \in M \cup {RB!Nil} /\ sub2[u.root] = M /\ sub2[RB!Nil] = {}
    <2>1. sub2[u.root] = {f(m) : m \in N}
      BY <1>2, <1>5, <1>8
    <2>2. {f(m) : m \in N} = M
      BY <1>4
    <2> QED
      BY <1>2, <1>4, <1>5, <1>6, <1>8, <2>1, <2>2
  <1>10. u.root # RB!Nil => Parent(u, u.root) = RB!Nil
    BY <1>2, <1>4, <1>5, <1>8
  <1>11. ASSUME NEW k \in M \ {u.root}
         PROVE  Parent(u, k) \in M /\ \E s \in Sides : Child(u, Parent(u, k), s) = k
    <2>1. g(k) \in N \ {t.root}
      BY <1>4, <1>5
    <2>2. PICK s \in Sides : Child(t, Parent(t, g(k)), s) = g(k)
      BY <1>2, <2>1
    <2>3. Parent(t, g(k)) \in N /\ Parent(u, k) = f(Parent(t, g(k)))
      BY <1>2, <1>5, <2>1
    <2>4. Parent(u, k) \in M /\ g(Parent(u, k)) = Parent(t, g(k))
      BY <1>4, <2>3
    <2>5. Child(u, Parent(u, k), s) = k
      BY <1>4, <1>5, <2>2, <2>4
    <2> QED
      BY <2>4, <2>5
  <1>12. ASSUME NEW k \in M, NEW s \in Sides
         PROVE  /\ Child(u, k, s) \in M \cup {RB!Nil}
                /\ Child(u, k, s) # RB!Nil => Parent(u, Child(u, k, s)) = k
                /\ \A m \in sub2[Child(u, k, s)] : On(s, m, k)
                /\ sub2[Child(u, k, s)] = {f(m) : m \in sub[Child(t, g(k), s)]}
                /\ b2[Child(u, k, s)] = b[Child(t, g(k), s)]
                /\ Child(u, k, s) # RB!Nil => Child(t, g(k), s) # RB!Nil
                                                /\ Black(u, Child(u, k, s)) = Black(t, Child(t, g(k), s))
    <2> DEFINE c == Child(t, g(k), s)
    <2>1. g(k) \in N /\ f(g(k)) = k /\ Child(u, k, s) = f(c)
      BY <1>4, <1>5
    <2>2. c \in N \cup {RB!Nil} /\ (c # RB!Nil => Parent(t, c) = g(k)) /\ \A m \in sub[c] : On(s, m, g(k))
      BY <1>2, <2>1
    <2> HIDE DEF c
    <2>3. /\ f(c) \in M \cup {RB!Nil} /\ g(f(c)) = c /\ (f(c) = RB!Nil <=> c = RB!Nil)
          /\ sub2[f(c)] = {f(m) : m \in sub[c]} /\ b2[f(c)] = b[c]
      BY <1>8, <2>2
    <2>4. f(c) # RB!Nil => Parent(u, f(c)) = k /\ Black(u, f(c)) = Black(t, c)
      BY <1>5, <2>1, <2>2, <2>3
    <2>5. \A m \in sub2[f(c)] : On(s, m, k)
      <3>1. sub[c] \subseteq N
        BY <1>2, <2>2
      <3>2. \A m \in sub[c] : On(s, f(m), f(g(k)))
        BY <1>4, <2>1, <2>2, <3>1
      <3> QED
        BY <2>1, <2>3, <3>2
    <2> QED
      BY <2>1, <2>3, <2>4, <2>5 DEF c
  <1>13. ASSUME NEW k \in M
         PROVE  /\ sub2[k] \subseteq M
                /\ sub2[k] = {k} \cup sub2[Child(u, k, "left")] \cup sub2[Child(u, k, "right")]
    <2>1. g(k) \in N /\ f(g(k)) = k /\ sub2[k] = {f(m) : m \in sub[g(k)]}
      BY <1>4, <1>6
    <2>2. /\ sub[g(k)] \subseteq N
          /\ sub[g(k)] = {g(k)} \cup sub[Child(t, g(k), "left")] \cup sub[Child(t, g(k), "right")]
      BY <1>2, <2>1
    <2>3. /\ sub2[Child(u, k, "left")] = {f(m) : m \in sub[Child(t, g(k), "left")]}
          /\ sub2[Child(u, k, "right")] = {f(m) : m \in sub[Child(t, g(k), "right")]}
      BY <1>12 DEF Sides
    <2> QED
      BY <1>4, <2>1, <2>2, <2>3
  <1>14. Tree(u, M, sub2)
    BY <1>5, <1>9, <1>10, <1>11, <1>12, <1>13 DEF Tree
  <1>15. \A k \in M : Level(u, b2, k)
    <2> SUFFICES ASSUME NEW k \in M, NEW s \in Sides
                 PROVE  b2[k] = b2[Child(u, k, s)] + Black(u, k)
      BY DEF Level
    <2>1. g(k) \in N /\ b2[k] = b[g(k)] /\ Black(u, k) = Black(t, g(k))
      BY <1>4, <1>5, <1>6
    <2>2. b[g(k)] = b[Child(t, g(k), s)] + Black(t, g(k))
      BY <1>1, <2>1 DEF Level
    <2> QED
      BY <1>12, <2>1, <2>2
  <1>16. \A k \in M, s \in Sides : Black(u, k) = 0 => BlackChild(u, k, s)
    <2> SUFFICES ASSUME NEW k \in M, NEW s \in Sides, Black(u, k) = 0, Child(u, k, s) # RB!Nil
                 PROVE  Black(u, Child(u, k, s)) = 1
      BY DEF BlackChild
    <2>1. g(k) \in N /\ Black(t, g(k)) = 0
      BY <1>4, <1>5
    <2>2. BlackChild(t, g(k), s)
      BY <1>1, <2>1
    <2> QED
      BY <1>12, <2>2 DEF BlackChild
  <1>17. u.root # RB!Nil => Black(u, u.root) = 1
    <2> SUFFICES ASSUME u.root # RB!Nil
                 PROVE  Black(u, u.root) = 1
      OBVIOUS
    <2>1. t.root # RB!Nil /\ u.root \in M /\ g(u.root) = t.root
      BY <1>2, <1>5, <1>8, <1>9
    <2> QED
      BY <1>1, <1>5, <2>1
  <1>18. IsRedBlack(u, M, sub2, b2)
    BY <1>7, <1>14, <1>15, <1>16, <1>17 DEF IsRedBlack, Heights
  <1> QED
    BY <1>5, <1>18 DEF Sound

Searched(t, key) == RB!Search(t, key) = IF key \in Keys(t) THEN key ELSE RB!Nil

LEMMA SearchIs ==
    ASSUME NEW t, Sound(t), NEW key \in Nat \ {RB!Nil}
    PROVE  Searched(t, key)
  <1>1. PICK sub, b : IsRedBlack(t, Keys(t), sub, b)
    BY DEF Sound
  <1>2. Tree(t, Keys(t), sub)
    BY <1>1 DEF IsRedBlack
  <1> QED
    BY <1>2, DescendIs DEF Searched, RB!Search

SameOthers(t, u, key) == \A m \in Keys(t) \ {key} : Volume(u, m) = Volume(t, m)

LEMMA DeleteIs ==
    ASSUME NEW t, Sound(t), NEW key \in Nat \ {RB!Nil}
    PROVE  /\ Sound(RB!Delete(t, key)) /\ Keys(RB!Delete(t, key)) = Keys(t) \ {key}
           /\ SameOthers(t, RB!Delete(t, key), key)
  <1> DEFINE K == Keys(t)
             two == Child(t, key, "left") # RB!Nil /\ Child(t, key, "right") # RB!Nil
             y == IF two THEN RB!Successor(t, key) ELSE key
             s == IF Child(t, y, "left") = RB!Nil THEN "left" ELSE "right"
             x == IF Child(t, y, "left") = RB!Nil THEN Child(t, y, "right") ELSE Child(t, y, "left")
             p == Parent(t, y)
             cut == RB!Hang(RB!SetParent(t, x, p), p, y, x)
             fixed == IF t.node[y].red THEN cut ELSE RB!DeleteFixup(cut, x, p)
             u == RB!Renamed(fixed, key, y)
  <1>1. PICK sub, b : IsRedBlack(t, K, sub, b)
    BY DEF Sound
  <1>2. Tree(t, K, sub)
    BY <1>1 DEF IsRedBlack
  <1>3. CASE key \notin K
    <2>1. RB!Search(t, key) = RB!Nil
      BY <1>3, SearchIs DEF Searched
    <2>2. RB!Delete(t, key) = t
      BY <2>1 DEF RB!Delete
    <2> QED
      BY <1>3, <2>2 DEF SameOthers
  <1>4. CASE key \in K
    <2>1. K \subseteq Nat \ {RB!Nil}
      BY <1>2, TreeNats
    <2>2. RB!Search(t, key) # RB!Nil
      BY <1>4, <2>1, SearchIs DEF Searched
    <2>3. RB!Delete(t, key) = u
      BY <2>2, Zenon DEF RB!Delete, Child, Parent
    <2> HIDE DEF u
    <2>5. /\ y \in K /\ Adjacent(K, key, y)
          /\ Child(t, y, "left") = RB!Nil \/ Child(t, y, "right") = RB!Nil
      <3>1. CASE two
        <4>1. /\ Follows(K, key, RB!Successor(t, key))
              /\ RB!Successor(t, key) \in K /\ Child(t, RB!Successor(t, key), "left") = RB!Nil
          BY <1>2, <1>4, <3>1, SuccessorIs
        <4>2. y = RB!Successor(t, key)
          BY <3>1
        <4> HIDE DEF y
        <4>3. y \in K /\ y # RB!Nil /\ Follows(K, key, y) /\ Child(t, y, "left") = RB!Nil
          BY <2>1, <4>1, <4>2
        <4>4. key < y /\ \A k \in K : key < k => y <= k
          BY <4>3 DEF Follows
        <4>5. Adjacent(K, key, y)
          <5> SUFFICES ASSUME NEW n \in K \ {key, y}
                       PROVE  n < key <=> n < y
            BY DEF Adjacent
          <5>1. n \in Nat /\ key \in Nat /\ y \in Nat
            BY <2>1, <4>3
          <5> QED
            BY <4>4, <5>1
        <4> QED
          BY <4>3, <4>5
      <3>2. CASE ~two
        BY <1>4, <3>2 DEF Adjacent
      <3> QED
        BY <3>1, <3>2
    <2> HIDE DEF y
    <2>6. s \in Sides /\ Child(t, y, s) = RB!Nil /\ x = Child(t, y, RB!Other(s))
      BY <2>5 DEF Sides, RB!Other
    <2>7. x \in K \cup {RB!Nil}
      BY <1>2, <2>5 DEF Tree, Sides
    <2> HIDE DEF s, x
    <2>8. p = Parent(t, y)
      OBVIOUS
    <2>9. t.node[y].red <=> Black(t, y) = 0
      BY DEF Black
    <2> HIDE DEF p
    <2>10. Cut(t, cut, K, y, x, p)
      BY <1>2, <2>5, <2>7, <2>8, CutIs
    <2> HIDE DEF cut
    <2>11. Keys(cut) = K /\ \A m \in K : Volume(cut, m) = Volume(t, m)
      BY <2>10 DEF Cut
    <2>12. \E sub2, b2 : IsRedBlack(fixed, K \ {y}, sub2, b2) /\ SameVolumes(t, fixed)
      <3> DEFINE sub2 == Pruned(K, sub, y)
                 b2 == [a \in (K \ {y}) \cup {RB!Nil} |-> b[a]]
      <3>1. CASE Black(t, y) = 0
        <4>1. IsRedBlack(cut, K \ {y}, sub2, b2)
          BY <1>1, <2>5, <2>6, <2>8, <2>10, <3>1, CutRed
        <4> HIDE DEF sub2, b2
        <4>2. SameVolumes(t, cut)
          BY <2>11 DEF SameVolumes
        <4> QED
          BY <2>9, <3>1, <4>1, <4>2
      <3>2. CASE Black(t, y) # 0
        <4>1. Black(t, y) = 1
          BY <3>2, BlackIs
        <4>2. PICK d : Deleting(cut, K \ {y}, sub2, b2, x, p, d)
          BY <1>1, <2>5, <2>6, <2>8, <2>10, <4>1, CutBlack
        <4> HIDE DEF sub2, b2
        <4>3. fixed = RB!DeleteFixup(cut, x, p)
          BY <2>9, <3>2
        <4> HIDE DEF fixed
        <4>4. K \ {y} \subseteq Keys(cut) /\ K \ {y} # Keys(cut)
          BY <2>5, <2>11
        <4>5. PICK sub3, b3 : IsRedBlack(fixed, K \ {y}, sub3, b3) /\ SameVolumes(cut, fixed)
          BY <4>2, <4>3, <4>4, DeleteFixupIs
        <4>6. SameVolumes(t, fixed)
          BY <2>11, <4>5 DEF SameVolumes
        <4> QED
          BY <4>5, <4>6
      <3> QED
        BY <3>1, <3>2
    <2> HIDE DEF fixed
    <2>13. PICK sub2, b2 : IsRedBlack(fixed, K \ {y}, sub2, b2) /\ SameVolumes(t, fixed)
      BY <2>12
    <2>14. Keys(fixed) = K /\ \A m \in K : Volume(fixed, m) = Volume(t, m)
      BY <2>13 DEF SameVolumes
    <2>15. Tree(fixed, K \ {y}, sub2)
      BY <2>13 DEF IsRedBlack
    <2>16. u = RB!Renamed(fixed, key, y)
      BY DEF u
    <2>17. Relabelled(fixed, u, key, y)
      BY <1>4, <2>5, <2>14, <2>15, <2>16, RenamedIs
    <2>18. Sound(u)
      BY <1>4, <2>5, <2>13, <2>14, <2>17, RenamedTree
    <2>19. Keys(u) = K \ {key} /\ SameOthers(t, u, key)
      BY <2>14, <2>17 DEF Relabelled, SameOthers
    <2> QED
      BY <2>3, <2>18, <2>19
  <1> QED
    BY <1>3, <1>4

LEMMA UpsertIs ==
    ASSUME NEW t, Sound(t), NEW key \in Nat \ {RB!Nil}, NEW v \in Int
    PROVE  /\ Sound(RB!Upsert(t, key, v)) /\ Keys(RB!Upsert(t, key, v)) = Keys(t) \cup {key}
           /\ Volume(RB!Upsert(t, key, v), key) = v /\ SameOthers(t, RB!Upsert(t, key, v), key)
  <1> DEFINE K == Keys(t)
             u == [t EXCEPT !.node[key].value = v]
  <1>1. PICK sub, b : IsRedBlack(t, K, sub, b)
    BY DEF Sound
  <1>2. Tree(t, K, sub) /\ Heap(t)
    BY <1>1 DEF IsRedBlack, Tree
  <1>3. K \subseteq Nat \ {RB!Nil}
    BY <1>2, TreeNats
  <1>4. CASE key \notin K
    <2>1. RB!Search(t, key) = RB!Nil
      BY <1>4, SearchIs DEF Searched
    <2>2. RB!Upsert(t, key, v) = RB!Insert(t, key, v)
      BY <2>1 DEF RB!Upsert
    <2> QED
      BY <1>4, <2>2, InsertIs DEF SameOthers
  <1>5. CASE key \in K
    <2>1. RB!Search(t, key) # RB!Nil
      BY <1>3, <1>5, SearchIs DEF Searched
    <2>2. RB!Upsert(t, key, v) = u
      BY <2>1 DEF RB!Upsert
    <2>3. /\ Heap(u) /\ Keys(u) = K /\ u.root = t.root
          /\ \A m \in K : /\ Black(u, m) = Black(t, m) /\ Parent(u, m) = Parent(t, m)
                          /\ Volume(u, m) = IF m = key THEN v ELSE Volume(t, m)
          /\ \A m \in K, s \in Sides : Child(u, m, s) = Child(t, m, s)
      BY <1>2, <1>5 DEF Heap, Nodes, Sides, Keys, Child, Parent, Volume, Black
    <2> HIDE DEF u
    <2>4. Tree(u, K, sub)
      BY <1>2, <2>3, SameTree
    <2>5. \A m \in K : Level(u, b, m)
      BY <1>1, <2>3 DEF IsRedBlack, Level
    <2>6. \A m \in K, s \in Sides : Black(u, m) = 0 => BlackChild(u, m, s)
      <3>1. \A m \in K, s \in Sides : Child(t, m, s) \in K \cup {RB!Nil}
        BY <1>2 DEF Tree
      <3> QED
        BY <1>1, <2>3, <3>1 DEF IsRedBlack, BlackChild
    <2>7. u.root # RB!Nil => Black(u, u.root) = 1
      <3>1. t.root \in K \cup {RB!Nil}
        BY <1>2 DEF Tree
      <3> QED
        BY <1>1, <2>3, <3>1 DEF IsRedBlack
    <2>8. IsRedBlack(u, K, sub, b)
      BY <1>1, <2>4, <2>5, <2>6, <2>7 DEF IsRedBlack
    <2>9. Sound(u)
      BY <2>3, <2>8 DEF Sound
    <2> QED
      BY <1>5, <2>2, <2>3, <2>9 DEF SameOthers
  <1> QED
    BY <1>4, <1>5

-----------------------------------------------------------------------------
(***************************************************************************)
(* What is found                                                           *)
(***************************************************************************)
LEMMA MinMaxIs ==
    ASSUME NEW S \in SUBSET Nat, NEW m \in S
    PROVE  /\ (\A k \in S : m <= k) => RB!Min(S) = m
           /\ (\A k \in S : k <= m) => RB!Max(S) = m
  <1>1. RB!Min(S) = CHOOSE x \in S : \A y \in S : x <= y
    BY DEF RB!Min
  <1>2. RB!Max(S) = CHOOSE x \in S : \A y \in S : x >= y
    BY DEF RB!Max
  <1>3. ASSUME \A k \in S : m <= k
        PROVE  RB!Min(S) = m
    <2>1. \A x \in S : (\A y \in S : x <= y) => x = m
      BY <1>3
    <2> QED
      BY <1>1, <1>3, <2>1
  <1>4. ASSUME \A k \in S : k <= m
        PROVE  RB!Max(S) = m
    <2>1. \A x \in S : (\A y \in S : x >= y) => x = m
      BY <1>4
    <2>2. \A y \in S : m >= y
      BY <1>4
    <2> QED
      BY <1>2, <2>1, <2>2
  <1> QED
    BY <1>3, <1>4

(* Every node is found, and the next one. *)
InOrder(t) ==
    LET next(n) == {k \in Keys(t) : k > n}
    IN  /\ Keys(t) # {} => RB!Leftmost(t) = RB!Min(Keys(t)) /\ RB!Rightmost(t) = RB!Max(Keys(t))
        /\ \A n \in Keys(t) : RB!Successor(t, n) = IF next(n) = {} THEN RB!Nil ELSE RB!Min(next(n))

LEMMA OrderedIs ==
    ASSUME NEW t, Sound(t)
    PROVE  InOrder(t)
  <1> DEFINE N == Keys(t)
             next(n) == {k \in N : k > n}
  <1>1. PICK sub, b : IsRedBlack(t, N, sub, b)
    BY DEF Sound
  <1>2. Tree(t, N, sub)
    BY <1>1 DEF IsRedBlack
  <1>3. N \subseteq Nat /\ RB!Nil \notin N
    BY <1>2, TreeNats
  <1>4. ASSUME N # {}
        PROVE  RB!Leftmost(t) = RB!Min(N) /\ RB!Rightmost(t) = RB!Max(N)
    <2>1. t.root \in N /\ sub[t.root] = N
      <3>1. t.root \in N \cup {RB!Nil} /\ sub[t.root] = N /\ sub[RB!Nil] = {}
        BY <1>2 DEF Tree
      <3> QED
        BY <1>4, <3>1
    <2>2. \A side \in Sides : /\ RB!OuterOf(t, t.root, side) \in N
                              /\ Outermost(sub, t.root, side, RB!OuterOf(t, t.root, side))
      BY <1>2, <2>1, OuterIs
    <2>3. RB!Other("left") = "right" /\ RB!Other("right") = "left" /\ "left" \in Sides /\ "right" \in Sides
      BY DEF RB!Other, Sides
    <2>4. RB!Leftmost(t) \in N /\ \A k \in N : RB!Leftmost(t) <= k
      <3> DEFINE m == RB!OuterOf(t, t.root, "left")
      <3>1. m \in N /\ \A k \in N : k # m => On("right", k, m)
        BY <2>1, <2>2, <2>3 DEF Outermost
      <3> HIDE DEF m
      <3>2. \A k \in N : m <= k
        BY <1>3, <3>1 DEF On
      <3> QED
        BY <3>1, <3>2 DEF RB!Leftmost, m
    <2>5. RB!Rightmost(t) \in N /\ \A k \in N : k <= RB!Rightmost(t)
      <3> DEFINE m == RB!OuterOf(t, t.root, "right")
      <3>1. m \in N /\ \A k \in N : k # m => On("left", k, m)
        BY <2>1, <2>2, <2>3 DEF Outermost
      <3> HIDE DEF m
      <3>2. \A k \in N : k <= m
        BY <1>3, <3>1 DEF On
      <3> QED
        BY <3>1, <3>2 DEF RB!Rightmost, m
    <2> QED
      BY <1>3, <2>4, <2>5, MinMaxIs
  <1>5. ASSUME NEW n \in N
        PROVE  RB!Successor(t, n) = IF next(n) = {} THEN RB!Nil ELSE RB!Min(next(n))
    <2> DEFINE y == RB!Successor(t, n)
    <2>1. Follows(N, n, y)
      BY <1>2, SuccessorIs
    <2> HIDE DEF y
    <2>2. CASE y = RB!Nil
      <3>1. \A k \in N : k <= n
        BY <2>1, <2>2 DEF Follows
      <3>2. next(n) = {}
        BY <1>3, <3>1
      <3> QED
        BY <2>2, <3>2 DEF y
    <2>3. CASE y # RB!Nil
      <3>1. y \in N /\ n < y /\ \A k \in N : n < k => y <= k
        BY <2>1, <2>3 DEF Follows
      <3>2. y \in next(n) /\ next(n) \in SUBSET Nat /\ \A k \in next(n) : y <= k
        BY <1>3, <3>1
      <3>3. RB!Min(next(n)) = y
        <4> HIDE DEF next
        <4> QED
          BY <3>2, MinMaxIs
      <3> QED
        BY <3>2, <3>3 DEF y
    <2> QED
      BY <2>2, <2>3
  <1> QED
    BY <1>4, <1>5 DEF InOrder

(* What the heights say of the way from the root. *)
LEMMA IsBalancedIs ==
    ASSUME NEW t, Sound(t)
    PROVE  RB!IsBalanced(t)
  <1> DEFINE N == Keys(t)
             Def(f) == [n \in N |-> (IF t.node[n].parent = RB!Nil THEN 0 ELSE f[t.node[n].parent])
                                    + (IF t.node[n].red THEN 0 ELSE 1)]
             blacks == CHOOSE f : f = Def(f)
             leaves == {n \in N : RB!Nil \in {t.node[n].left, t.node[n].right}}
  <1>1. PICK sub, b : IsRedBlack(t, N, sub, b)
    BY DEF Sound
  <1>2. /\ Tree(t, N, sub) /\ Heights(N, b) /\ \A m \in N : Level(t, b, m)
        /\ \A m \in N, s \in Sides : Black(t, m) = 0 => BlackChild(t, m, s)
        /\ t.root # RB!Nil => Black(t, t.root) = 1
    BY <1>1 DEF IsRedBlack
  <1>3. N \subseteq Nat /\ RB!Nil \notin N
    BY <1>2, TreeNats
  <1>4. /\ t.root \in N \cup {RB!Nil}
        /\ t.root # RB!Nil => Parent(t, t.root) = RB!Nil
        /\ \A n \in N \ {t.root} : Parent(t, n) \in N /\ \E s \in Sides : Child(t, Parent(t, n), s) = n
        /\ \A n \in N, s \in Sides : Child(t, n, s) \in N \cup {RB!Nil}
    BY <1>2 DEF Tree
  <1> DEFINE h == [n \in N |-> (b[t.root] - b[n]) + Black(t, n)]
  <1>5. \A n \in N \cup {RB!Nil} : b[n] \in Nat
    BY <1>2 DEF Heights
  <1>6. ASSUME NEW n \in N
        PROVE  /\ n = t.root <=> Parent(t, n) = RB!Nil
               /\ n = t.root => h[n] = Black(t, n)
               /\ n # t.root => Parent(t, n) \in N /\ h[n] = h[Parent(t, n)] + Black(t, n)
    <2>1. n = t.root <=> Parent(t, n) = RB!Nil
      BY <1>3, <1>4
    <2>2. Black(t, n) \in {0, 1} /\ h[n] = (b[t.root] - b[n]) + Black(t, n) /\ b[n] \in Nat /\ b[t.root] \in Nat
      BY <1>4, <1>5, BlackIs
    <2>3. ASSUME n # t.root
          PROVE  Parent(t, n) \in N /\ h[n] = h[Parent(t, n)] + Black(t, n)
      <3> DEFINE p == Parent(t, n)
      <3>1. PICK s \in Sides : p \in N /\ Child(t, p, s) = n
        BY <1>4, <2>3
      <3> HIDE DEF p
      <3>2. b[p] = b[n] + Black(t, p)
        BY <1>2, <3>1 DEF Level
      <3>3. Black(t, p) \in {0, 1} /\ h[p] = (b[t.root] - b[p]) + Black(t, p) /\ b[p] \in Nat
        BY <1>5, <3>1, BlackIs
      <3>4. h[n] = h[p] + Black(t, n)
        <4> HIDE DEF h
        <4> QED
          BY <2>2, <3>2, <3>3
      <3> QED
        BY <3>1, <3>4 DEF p
    <2>4. n = t.root => h[n] = Black(t, n)
      <3> HIDE DEF h
      <3> QED
        BY <2>2
    <2> QED
      BY <2>1, <2>3, <2>4
  <1>7. h = Def(h)
    <2>1. \A n \in N : h[n] = (IF t.node[n].parent = RB!Nil THEN 0 ELSE h[t.node[n].parent])
                              + (IF t.node[n].red THEN 0 ELSE 1)
      <3> SUFFICES ASSUME NEW n \in N
                   PROVE  h[n] = (IF Parent(t, n) = RB!Nil THEN 0 ELSE h[Parent(t, n)]) + Black(t, n)
        BY Zenon DEF Parent, Black
      <3> HIDE DEF h
      <3> QED
        BY <1>6, BlackIs
    <2>2. h = [n \in N |-> h[n]]
      OBVIOUS
    <2> HIDE DEF h
    <2> QED
      BY <2>1, <2>2, Zenon
  <1> HIDE DEF h
  <1>8. blacks = Def(blacks)
    BY <1>7, Zenon
  <1> HIDE DEF blacks
  <1>9. \A n \in N : blacks[n] = (IF Parent(t, n) = RB!Nil THEN 0 ELSE blacks[Parent(t, n)]) + Black(t, n)
    BY <1>8, Zenon DEF Parent, Black
  <1>10. \A n \in N : blacks[n] = h[n]
    <2> DEFINE Q == {n \in N : blacks[n] = h[n]}
    <2>1. t.root \in Q \cup {RB!Nil}
      BY <1>4, <1>6, <1>9, BlackIs
    <2>2. ASSUME NEW n \in N, NEW s \in Sides, n \in Q
          PROVE  Child(t, n, s) \in Q \cup {RB!Nil}
      <3> DEFINE c == Child(t, n, s)
      <3> SUFFICES ASSUME c # RB!Nil
                   PROVE  c \in Q
        OBVIOUS
      <3>1. c \in N /\ Parent(t, c) = n /\ c # t.root
        BY <1>2, <1>3, <1>4, OneParent
      <3> HIDE DEF c
      <3> QED
        BY <1>3, <1>6, <1>9, <2>2, <3>1
    <2>3. N \subseteq Q
      <3> HIDE DEF Q
      <3> QED
        BY <1>2, <2>1, <2>2, DownInduction
    <2> QED
      BY <2>3
  <1>11. \A n \in leaves : blacks[n] = b[t.root]
    <2> SUFFICES ASSUME NEW n \in leaves
                 PROVE  blacks[n] = b[t.root]
      OBVIOUS
    <2>1. n \in N /\ \E s \in Sides : Child(t, n, s) = RB!Nil
      BY DEF Sides, Child
    <2>2. b[n] = Black(t, n)
      <3>1. b[RB!Nil] = 0
        BY <1>2 DEF Heights
      <3> QED
        BY <1>2, <2>1, <3>1, BlackIs DEF Level
    <2>3. blacks[n] = (b[t.root] - b[n]) + Black(t, n)
      BY <1>10, <2>1 DEF h
    <2>4. b[t.root] \in Nat /\ b[n] \in Nat
      BY <1>4, <1>5, <2>1
    <2> QED
      BY <2>2, <2>3, <2>4
  <1>12. ~RB!IsRed(t, t.root)
    BY <1>2, IsRedIs
  <1>13. ASSUME NEW n \in N, RB!IsRed(t, n)
         PROVE  ~RB!IsRed(t, t.node[n].parent)
    <2>1. Black(t, n) = 0 /\ n # RB!Nil
      BY <1>13, IsRedIs
    <2>2. n # t.root
      BY <1>2, <2>1
    <2>3. PICK s \in Sides : Parent(t, n) \in N /\ Child(t, Parent(t, n), s) = n
      BY <1>4, <2>2
    <2>4. Black(t, Parent(t, n)) # 0
      BY <1>2, <2>1, <2>3 DEF BlackChild
    <2> QED
      BY <2>4, IsRedIs DEF Parent
  <1>14. \A m, n \in leaves : blacks[m] = blacks[n]
    BY <1>11
  <1>15. RB!IsBalanced(t) <=>
            /\ ~RB!IsRed(t, t.root)
            /\ \A n \in N : RB!IsRed(t, n) => ~RB!IsRed(t, t.node[n].parent)
            /\ \A m, n \in leaves : blacks[m] = blacks[n]
    BY Zenon DEF RB!IsBalanced, blacks, RB!Keys, Keys
  <1> HIDE DEF leaves
  <1> QED
    BY <1>12, <1>13, <1>14, <1>15

-----------------------------------------------------------------------------
(***************************************************************************)
(* The levels in their order, and the copies of the best of them           *)
(***************************************************************************)
(* The elements of S, each side of a later one. *)
Sorted(s, S, side) ==
    /\ s \in Seq(S)
    /\ \A m \in S : \E i \in 1 .. Len(s) : s[i] = m
    /\ \A i, j \in 1 .. Len(s) : i < j => On(side, s[i], s[j])

LEMMA SortedConcat ==
    ASSUME NEW side, NEW A, NEW B, NEW a, NEW b, Sorted(a, A, side), Sorted(b, B, side),
           \A m \in A, k \in B : On(side, m, k)
    PROVE  Sorted(a \o b, A \cup B, side)
  <1> DEFINE S == A \cup B
             s == a \o b
             z == Len(a)
  <1>1. /\ a \in Seq(A) /\ b \in Seq(B) /\ z \in Nat /\ Len(b) \in Nat
        /\ \A m \in A : \E i \in 1 .. z : a[i] = m
        /\ \A m \in B : \E i \in 1 .. Len(b) : b[i] = m
        /\ \A i, j \in 1 .. z : i < j => On(side, a[i], a[j])
        /\ \A i, j \in 1 .. Len(b) : i < j => On(side, b[i], b[j])
    BY LenProperties DEF Sorted
  <1>2. a \in Seq(S) /\ b \in Seq(S)
    BY <1>1, SeqMonotonic
  <1>3. /\ s \in Seq(S) /\ Len(s) = z + Len(b)
        /\ \A i \in 1 .. z + Len(b) : s[i] = IF i <= z THEN a[i] ELSE b[i - z]
    BY <1>2, ConcatProperties
  <1>4. (\A i \in 1 .. z : a[i] \in A) /\ \A i \in 1 .. Len(b) : b[i] \in B
    BY <1>1, ElementOfSeq
  <1> HIDE DEF s, z
  <1>5. ASSUME NEW m \in S
        PROVE  \E i \in 1 .. Len(s) : s[i] = m
    <2>1. CASE m \in A
      <3>1. PICK i \in 1 .. z : a[i] = m
        BY <1>1, <2>1
      <3>2. i \in 1 .. z + Len(b) /\ i <= z
        BY <1>1
      <3> QED
        BY <1>3, <3>1, <3>2
    <2>2. CASE m \in B
      <3>1. PICK i \in 1 .. Len(b) : b[i] = m
        BY <1>1, <2>2
      <3>2. z + i \in 1 .. z + Len(b) /\ ~(z + i <= z) /\ (z + i) - z = i
        BY <1>1
      <3> QED
        BY <1>3, <3>1, <3>2
    <2> QED
      BY <2>1, <2>2
  <1>6. ASSUME NEW i \in 1 .. Len(s), NEW j \in 1 .. Len(s), i < j
        PROVE  On(side, s[i], s[j])
    <2>1. s[i] = (IF i <= z THEN a[i] ELSE b[i - z]) /\ s[j] = IF j <= z THEN a[j] ELSE b[j - z]
      BY <1>3
    <2>2. CASE j <= z
      <3>1. i \in 1 .. z /\ j \in 1 .. z /\ i <= z
        BY <1>1, <1>3, <1>6, <2>2
      <3> QED
        BY <1>1, <1>6, <2>1, <2>2, <3>1
    <2>3. CASE i <= z /\ ~(j <= z)
      <3>1. i \in 1 .. z /\ j - z \in 1 .. Len(b)
        BY <1>1, <1>3, <1>6, <2>3
      <3> QED
        BY <1>4, <2>1, <2>3, <3>1
    <2>4. CASE ~(i <= z)
      <3>1. i - z \in 1 .. Len(b) /\ j - z \in 1 .. Len(b) /\ i - z < j - z /\ ~(j <= z)
        BY ONLY <1>1, <1>3, <1>6, <2>4
      <3> QED
        BY <1>1, <2>1, <2>4, <3>1
    <2> QED
      BY <2>2, <2>3, <2>4
  <1> QED
    BY <1>3, <1>5, <1>6 DEF Sorted, s

(* The best i of them: there are i, and the others are worse. *)
BestLevels(S, side, T, i) ==
    /\ T \subseteq S /\ IsFiniteSet(T) /\ Cardinality(T) = i
    /\ \A m \in T, k \in S \ T : On(side, m, k)

LEMMA SortedBest ==
    ASSUME NEW S \in SUBSET Nat, NEW side \in Sides, NEW s, Sorted(s, S, side), NEW i \in 0 .. Len(s)
    PROVE  BestLevels(S, side, {s[j] : j \in 1 .. i}, i)
  <1> DEFINE T == {s[j] : j \in 1 .. i}
             f == [j \in 1 .. i |-> s[j]]
  <1>1. /\ s \in Seq(S) /\ Len(s) \in Nat
        /\ \A m \in S : \E j \in 1 .. Len(s) : s[j] = m
        /\ \A k, j \in 1 .. Len(s) : k < j => On(side, s[k], s[j])
    BY LenProperties DEF Sorted
  <1>2. i \in Nat /\ \A j \in 1 .. i : j \in 1 .. Len(s)
    BY <1>1
  <1>3. \A j \in 1 .. Len(s) : s[j] \in S
    BY <1>1, ElementOfSeq
  <1>4. T \subseteq S
    BY <1>2, <1>3
  <1>5. \A m, k \in S : On(side, m, k) => m # k
    BY DEF On
  <1>6. \A j, k \in 1 .. i : s[j] = s[k] => j = k
    <2> SUFFICES ASSUME NEW j \in 1 .. i, NEW k \in 1 .. i, j # k
                 PROVE  s[j] # s[k]
      OBVIOUS
    <2>1. j < k \/ k < j
      OBVIOUS
    <2>2. On(side, s[j], s[k]) \/ On(side, s[k], s[j])
      BY <1>1, <1>2, <2>1
    <2> QED
      BY <1>2, <1>3, <1>5, <2>2
  <1>7. f \in Bijection(1 .. i, T)
    <2>1. f \in [1 .. i -> T] /\ \A m \in T : \E j \in 1 .. i : f[j] = m
      OBVIOUS
    <2>2. \A j, k \in 1 .. i : f[j] = f[k] => j = k
      BY <1>6
    <2> HIDE DEF f, T
    <2> QED
      BY <2>1, <2>2 DEF Bijection, Injection, IsInjective, Surjection
  <1>8. ExistsBijection(1 .. i, T)
    BY <1>7 DEF ExistsBijection
  <1>9. Cardinality(T) = i /\ IsFiniteSet(T)
    <2>1. IsFiniteSet(1 .. i)
      BY <1>2, FS_Interval
    <2> HIDE DEF T
    <2> QED
      BY <1>2, <1>8, <2>1, FS_CountingElements, FS_Bijection
  <1>10. ASSUME NEW m \in T, NEW k \in S \ T
         PROVE  On(side, m, k)
    <2>1. PICK j \in 1 .. i : s[j] = m
      OBVIOUS
    <2>2. PICK l \in 1 .. Len(s) : s[l] = k
      BY <1>1
    <2>3. l \notin 1 .. i
      BY <1>10, <2>2
    <2>4. j < l
      BY <1>1, <2>3
    <2> QED
      BY <1>1, <1>2, <2>1, <2>2, <2>4
  <1> QED
    BY <1>4, <1>9, <1>10 DEF BestLevels

(* g is what Inorder computes, at the nodes of M. *)
Traversal(t, M, side, g) ==
    /\ g[RB!Nil] = <<>>
    /\ \A n \in M : g[n] = g[Child(t, n, side)] \o <<n>> \o g[Child(t, n, RB!Other(side))]

LEMMA TraversalExists ==
    ASSUME NEW t, NEW N, NEW sub, Tree(t, N, sub), NEW side \in Sides
    PROVE  \E g : g \in [N \cup {RB!Nil} -> Seq(N)] /\ Traversal(t, N, side, g)
  <1> DEFINE o == RB!Other(side)
             Q == {n \in N : \E g : g \in [sub[n] \cup {RB!Nil} -> Seq(N)] /\ Traversal(t, sub[n], side, g)}
             leaf == [n \in {RB!Nil} |-> <<>>]
  <1>0. RB!Nil \notin N /\ o \in Sides /\ RB!Other(o) = side /\ <<>> \in Seq(N) /\ sub[RB!Nil] = {}
    BY TreeNats, OtherIs, EmptySeq DEF Tree
  <1>1. leaf \in [sub[RB!Nil] \cup {RB!Nil} -> Seq(N)] /\ Traversal(t, sub[RB!Nil], side, leaf)
    BY <1>0 DEF Traversal
  <1> HIDE DEF leaf
  <1>2. ASSUME NEW n \in N, \A s \in Sides : Child(t, n, s) \in Q \cup {RB!Nil}
        PROVE  n \in Q
    <2> DEFINE l == Child(t, n, side)
               r == Child(t, n, o)
    <2>1. PICK a : a \in [sub[l] \cup {RB!Nil} -> Seq(N)] /\ Traversal(t, sub[l], side, a)
      BY <1>0, <1>1, <1>2
    <2>2. PICK c : c \in [sub[r] \cup {RB!Nil} -> Seq(N)] /\ Traversal(t, sub[r], side, c)
      BY <1>0, <1>1, <1>2
    <2>3. /\ sub[n] = {n} \cup sub[l] \cup sub[r] /\ n \notin sub[l] /\ n \notin sub[r]
          /\ sub[l] \cap sub[r] = {} /\ sub[l] \subseteq N /\ sub[r] \subseteq N
          /\ l # RB!Nil => l \in sub[l]
          /\ r # RB!Nil => r \in sub[r]
      <3>1. sub[n] \subseteq N
        BY DEF Tree
      <3> QED
        BY <1>0, <3>1, Below
    <2>4. \A m \in sub[l], s \in Sides : Child(t, m, s) \in sub[l] \cup {RB!Nil}
      <3> SUFFICES ASSUME NEW m \in sub[l], NEW s \in Sides, Child(t, m, s) # RB!Nil
                   PROVE  Child(t, m, s) \in sub[l]
        OBVIOUS
      <3>1. l \in N
        BY <1>0, Below
      <3>2. m \in N /\ sub[m] \subseteq sub[l]
        BY <3>1, Nested
      <3> QED
        BY <3>2, Below
    <2>5. \A m \in sub[r], s \in Sides : Child(t, m, s) \in sub[r] \cup {RB!Nil}
      <3> SUFFICES ASSUME NEW m \in sub[r], NEW s \in Sides, Child(t, m, s) # RB!Nil
                   PROVE  Child(t, m, s) \in sub[r]
        OBVIOUS
      <3>1. r \in N
        BY <1>0, Below
      <3>2. m \in N /\ sub[m] \subseteq sub[r]
        BY <3>1, Nested
      <3> QED
        BY <3>2, Below
    <2> HIDE DEF l, r, o
    <2> DEFINE mid == a[l] \o <<n>> \o c[r]
               g == [m \in sub[n] \cup {RB!Nil} |->
                       IF m = n THEN mid ELSE IF m \in sub[r] THEN c[m] ELSE a[m]]
    <2>6. a[l] \in Seq(N) /\ c[r] \in Seq(N) /\ a[RB!Nil] = <<>> /\ c[RB!Nil] = <<>>
      BY <2>1, <2>2, <2>3 DEF Traversal
    <2>7. mid \in Seq(N)
      <3>1. <<n>> \in Seq(N)
        OBVIOUS
      <3>2. a[l] \o <<n>> \in Seq(N)
        BY <2>6, <3>1, ConcatProperties
      <3> QED
        BY <2>6, <3>2, ConcatProperties
    <2>8. /\ g[n] = mid /\ g[RB!Nil] = <<>>
          /\ \A m \in sub[l] \cup {RB!Nil} : g[m] = a[m]
          /\ \A m \in sub[r] \cup {RB!Nil} : g[m] = c[m]
      <3> HIDE DEF mid
      <3> QED
        BY <1>0, <2>3, <2>6
    <2>9. g \in [sub[n] \cup {RB!Nil} -> Seq(N)]
      <3> HIDE DEF mid
      <3> QED
        BY <2>1, <2>2, <2>3, <2>7
    <2> HIDE DEF g
    <2>10. g[n] = g[l] \o <<n>> \o g[r]
      BY <2>3, <2>8
    <2>11. ASSUME NEW m \in sub[l]
           PROVE  g[m] = g[Child(t, m, side)] \o <<m>> \o g[Child(t, m, o)]
      <3>1. a[m] = a[Child(t, m, side)] \o <<m>> \o a[Child(t, m, o)]
        BY <2>1 DEF Traversal, o
      <3>2. g[Child(t, m, side)] = a[Child(t, m, side)] /\ g[Child(t, m, o)] = a[Child(t, m, o)] /\ g[m] = a[m]
        BY <1>0, <2>4, <2>8
      <3> QED
        BY <3>1, <3>2, Zenon
    <2>12. ASSUME NEW m \in sub[r]
           PROVE  g[m] = g[Child(t, m, side)] \o <<m>> \o g[Child(t, m, o)]
      <3>1. c[m] = c[Child(t, m, side)] \o <<m>> \o c[Child(t, m, o)]
        BY <2>2 DEF Traversal, o
      <3>2. g[Child(t, m, side)] = c[Child(t, m, side)] /\ g[Child(t, m, o)] = c[Child(t, m, o)] /\ g[m] = c[m]
        BY <1>0, <2>5, <2>8
      <3> QED
        BY <3>1, <3>2, Zenon
    <2>13. \A m \in sub[n] : g[m] = g[Child(t, m, side)] \o <<m>> \o g[Child(t, m, o)]
      <3> SUFFICES ASSUME NEW m \in sub[n]
                   PROVE  g[m] = g[Child(t, m, side)] \o <<m>> \o g[Child(t, m, o)]
        OBVIOUS
      <3>1. m = n \/ m \in sub[l] \/ m \in sub[r]
        BY <2>3
      <3>2. CASE m = n
        BY <2>10, <3>2, Zenon DEF l, r
      <3> QED
        BY <2>11, <2>12, <3>1, <3>2, Zenon
    <2>14. Traversal(t, sub[n], side, g)
      BY <2>8, <2>13, Zenon DEF Traversal, o
    <2> QED
      BY <2>9, <2>14
  <1> HIDE DEF Q
  <1>3. N \subseteq Q
    BY <1>2, UpInduction
  <1>4. t.root \in N \cup {RB!Nil} /\ sub[t.root] = N
    BY DEF Tree
  <1> QED
    BY <1>1, <1>3, <1>4 DEF Q

LEMMA TraversalSorted ==
    ASSUME NEW t, NEW N, NEW sub, Tree(t, N, sub), NEW side \in Sides, NEW g, Traversal(t, N, side, g)
    PROVE  Sorted(g[t.root], N, side)
  <1> DEFINE o == RB!Other(side)
             Q == {n \in N : Sorted(g[n], sub[n], side)}
  <1>0. RB!Nil \notin N /\ N \subseteq Nat /\ o \in Sides /\ RB!Other(o) = side /\ sub[RB!Nil] = {}
    BY TreeNats, OtherIs DEF Tree
  <1>1. Sorted(g[RB!Nil], sub[RB!Nil], side)
    <2>1. g[RB!Nil] = <<>> /\ <<>> \in Seq({}) /\ Len(<<>>) = 0 /\ 1 .. 0 = {}
      BY EmptySeq DEF Traversal
    <2> QED
      BY <1>0, <2>1 DEF Sorted
  <1>2. ASSUME NEW n \in N, \A s \in Sides : Child(t, n, s) \in Q \cup {RB!Nil}
        PROVE  n \in Q
    <2> DEFINE l == Child(t, n, side)
               r == Child(t, n, o)
    <2>1. Sorted(g[l], sub[l], side)
      BY <1>0, <1>1, <1>2
    <2>2. Sorted(g[r], sub[r], side)
      BY <1>0, <1>1, <1>2
    <2>3. sub[n] = {n} \cup sub[l] \cup sub[r] /\ sub[n] \subseteq N
      <3>1. sub[n] \subseteq N
        BY DEF Tree
      <3> QED
        BY <3>1, Below
    <2>4. (\A m \in sub[l] : On(side, m, n)) /\ \A m \in sub[r] : On(o, m, n)
      BY <1>0 DEF Tree
    <2>5. g[n] = g[l] \o <<n>> \o g[r]
      BY Zenon DEF Traversal
    <2> HIDE DEF l, r
    <2>6. \A m \in sub[r] : On(side, n, m)
      <3>1. \A m \in sub[r] : m \in Nat /\ n \in Nat
        BY <1>0, <2>3
      <3> QED
        BY <1>0, <2>4, <3>1, OnIs
    <2>7. \A m \in sub[l], k \in sub[r] : On(side, m, k)
      <3>1. \A m \in sub[l], k \in sub[r] : m \in Nat /\ k \in Nat /\ n \in Nat
        BY <1>0, <2>3
      <3> QED
        BY <2>4, <2>6, <3>1, OnIs
    <2> HIDE DEF o
    <2>8. Sorted(<<n>>, {n}, side)
      <3>1. <<n>> \in Seq({n}) /\ Len(<<n>>) = 1 /\ <<n>>[1] = n
        OBVIOUS
      <3>2. \A i, j \in 1 .. 1 : ~(i < j)
        OBVIOUS
      <3>3. 1 \in 1 .. 1
        OBVIOUS
      <3> QED
        BY <3>1, <3>2, <3>3 DEF Sorted
    <2>9. Sorted(g[l] \o <<n>>, sub[l] \cup {n}, side)
      BY <2>1, <2>4, <2>8, SortedConcat
    <2>10. Sorted((g[l] \o <<n>>) \o g[r], (sub[l] \cup {n}) \cup sub[r], side)
      <3>1. \A m \in sub[l] \cup {n}, k \in sub[r] : On(side, m, k)
        BY <2>6, <2>7
      <3> QED
        BY <2>2, <2>9, <3>1, SortedConcat
    <2>11. sub[n] = (sub[l] \cup {n}) \cup sub[r]
      BY <2>3
    <2> QED
      BY <2>5, <2>10, <2>11, Zenon
  <1> HIDE DEF Q
  <1>3. N \subseteq Q
    BY <1>2, UpInduction
  <1>4. t.root \in N \cup {RB!Nil} /\ sub[t.root] = N
    BY DEF Tree
  <1> QED
    BY <1>1, <1>3, <1>4 DEF Q

LEMMA InorderIs ==
    ASSUME NEW t, Sound(t), NEW side \in Sides
    PROVE  Sorted(RB!Inorder(t, side), Keys(t), side)
  <1> DEFINE N == Keys(t)
             z == RB!Nil
             Def(f) == [n \in N \cup {z} |->
                          IF n = z THEN <<>>
                          ELSE f[t.node[n][side]] \o <<n>> \o f[t.node[n][RB!Other(side)]]]
             below == CHOOSE f : f = Def(f)
  <1>1. PICK sub, b : IsRedBlack(t, N, sub, b)
    BY DEF Sound
  <1>2. Tree(t, N, sub)
    BY <1>1 DEF IsRedBlack
  <1>3. PICK g : g \in [N \cup {z} -> Seq(N)] /\ Traversal(t, N, side, g)
    BY <1>2, TraversalExists
  <1>4. g = Def(g)
    <2>1. \A n \in N \cup {z} : g[n] = IF n = z THEN <<>>
                                        ELSE g[t.node[n][side]] \o <<n>> \o g[t.node[n][RB!Other(side)]]
      BY <1>3, Zenon DEF Traversal, Child
    <2>2. g = [n \in N \cup {z} |-> g[n]]
      BY <1>3
    <2> QED
      BY <2>1, <2>2, Zenon
  <1>5. below = Def(below)
    BY <1>4, Zenon
  <1> HIDE DEF below
  <1>6. Traversal(t, N, side, below)
    <2>1. \A n \in N \cup {z} : below[n] = IF n = z THEN <<>>
                                        ELSE below[t.node[n][side]] \o <<n>> \o below[t.node[n][RB!Other(side)]]
      BY <1>5, Zenon
    <2>2. z \notin N
      BY <1>2, TreeNats
    <2>3. below[z] = <<>>
      BY <2>1
    <2>4. \A n \in N : below[n] = below[t.node[n][side]] \o <<n>> \o below[t.node[n][RB!Other(side)]]
      BY <2>1, <2>2, Zenon
    <2> QED
      BY <2>3, <2>4, Zenon DEF Traversal, Child
  <1>7. RB!Inorder(t, side) = below[t.root]
    BY Zenon DEF RB!Inorder, below, RB!Keys, Keys
  <1> QED
    BY <1>2, <1>6, <1>7, TraversalSorted

LEMMA EmptyTreeIs ==
    Sound(RB!EmptyTree) /\ Keys(RB!EmptyTree) = {}
  <1> DEFINE t == RB!EmptyTree
             z == RB!Nil
             sub == [n \in {z} |-> {}]
             b == [n \in {} \cup {z} |-> 0]
  <1>1. t.root = z /\ t.node = [k \in {} |-> z]
    BY DEF RB!EmptyTree
  <1>2. Keys(t) = {}
    BY <1>1 DEF Keys
  <1>3. Heap(t)
    <2>1. t = [root |-> z, node |-> [k \in {} |-> z]]
      BY DEF RB!EmptyTree
    <2>2. [k \in {} |-> z] \in [{} -> Nodes({})]
      OBVIOUS
    <2>3. DOMAIN t.node = {} /\ IsFiniteSet({})
      BY <1>2, FS_EmptySet DEF Keys
    <2> HIDE DEF t
    <2> QED
      BY <2>1, <2>2, <2>3 DEF Heap
  <1>4. Tree(t, {}, sub)
    <2> HIDE DEF t
    <2> QED
      BY <1>1, <1>2, <1>3 DEF Tree
  <1>5. Heights({}, b)
    BY DEF Heights
  <1>6. IsRedBlack(t, {}, sub, b)
    <2> HIDE DEF t, sub, b
    <2> QED
      BY <1>1, <1>4, <1>5 DEF IsRedBlack
  <1> QED
    BY <1>2, <1>6 DEF Sound

LEMMA SoundHeap ==
    ASSUME NEW t, Sound(t)
    PROVE  Heap(t) /\ t \in Heaps(Keys(t)) /\ Keys(t) \in SUBSET (Nat \ {RB!Nil}) /\ IsFiniteSet(Keys(t))
  <1>1. Heap(t)
    BY DEF Sound, IsRedBlack, Tree
  <1> QED
    BY <1>1, HeapIs DEF Heap, Keys

(* A copy of different keys is a tree of these. *)
LEMMA CopyOfIs ==
    ASSUME NEW t, NEW keys, NEW n \in Nat, n = Len(keys),
           \A i \in 1 .. n : keys[i] \in Nat \ {RB!Nil} /\ Volume(t, keys[i]) \in Int,
           \A i, j \in 1 .. n : i # j => keys[i] # keys[j]
    PROVE  Sound(RB!CopyOf(t, keys)) /\ Keys(RB!CopyOf(t, keys)) = {keys[j] : j \in 1 .. n}
  <1> DEFINE V == UNION {Heaps(S) : S \in SUBSET Nat}
             T(i) == {keys[j] : j \in 1 .. i}
             P == [i \in 0 .. n |-> {u \in V : Sound(u) /\ Keys(u) = T(i)}]
             New(i, u) == RB!Insert(u, keys[i], Volume(t, keys[i]))
             D == [i \in 1 .. n |-> [u \in V |-> IF New(i, u) \in V THEN New(i, u) ELSE u]]
             Def(f) == [i \in 0 .. n |-> IF i = 0 THEN RB!EmptyTree ELSE New(i, f[i - 1])]
             copy == CHOOSE f : f = Def(f)
  <1>1. \A u : Sound(u) => u \in V
    <2>1. \A u : Sound(u) => u \in Heaps(Keys(u)) /\ Keys(u) \in SUBSET Nat
      BY SoundHeap
    <2> QED
      BY <2>1
  <1>2. RB!EmptyTree \in P[0] /\ RB!EmptyTree \in V
    <2>1. T(0) = {} /\ 0 \in 0 .. n
      OBVIOUS
    <2>2. P[0] = {u \in V : Sound(u) /\ Keys(u) = T(0)}
      BY <2>1
    <2> QED
      BY <1>1, <2>1, <2>2, EmptyTreeIs
  <1>3. ASSUME NEW i \in 1 .. n, NEW u \in P[i - 1]
        PROVE  New(i, u) \in P[i] /\ u \in V /\ New(i, u) \in V
    <2>1. i - 1 \in 0 .. n /\ i \in 0 .. n
      OBVIOUS
    <2>2. u \in V /\ Sound(u) /\ Keys(u) = T(i - 1)
      BY <2>1
    <2>3. keys[i] \in Nat \ {RB!Nil} /\ Volume(t, keys[i]) \in Int
      OBVIOUS
    <2>4. keys[i] \notin T(i - 1)
      OBVIOUS
    <2>5. Sound(New(i, u)) /\ Keys(New(i, u)) = Keys(u) \cup {keys[i]}
      BY <2>2, <2>3, <2>4, InsertIs
    <2>6. T(i) = T(i - 1) \cup {keys[i]}
      <3>1. 1 .. i = (1 .. i - 1) \cup {i}
        OBVIOUS
      <3> QED
        BY <3>1
    <2> HIDE DEF T, New, V
    <2> QED
      BY <1>1, <2>1, <2>2, <2>5, <2>6
  <1> HIDE DEF New, V
  <1>4. D \in [1 .. n -> [V -> V]]
    OBVIOUS
  <1>5. PICK g : Recursion(g, n, V, RB!EmptyTree, D)
    <2> HIDE DEF D
    <2> QED
      BY <1>2, <1>4, RecursionExists
  <1>6. g \in [0 .. n -> V] /\ g[0] = RB!EmptyTree /\ \A i \in 1 .. n : g[i] = D[i][g[i - 1]]
    <2> HIDE DEF D
    <2> QED
      BY <1>5 DEF Recursion
  <1> DEFINE S == {i \in 0 .. n : g[i] \in P[i]}
  <1>7. 0 \in S
    <2> HIDE DEF P
    <2> QED
      BY <1>2, <1>6
  <1>8. ASSUME NEW i \in 1 .. n, g[i - 1] \in P[i - 1]
        PROVE  g[i] = New(i, g[i - 1]) /\ g[i] \in P[i]
    <2>1. New(i, g[i - 1]) \in P[i] /\ g[i - 1] \in V /\ New(i, g[i - 1]) \in V
      BY <1>3, <1>8
    <2>2. D[i][g[i - 1]] = New(i, g[i - 1])
      BY <2>1
    <2> HIDE DEF D, P
    <2> QED
      BY <1>6, <2>1, <2>2
  <1>9. 0 .. n \subseteq S
    <2>1. ASSUME NEW i \in 0 .. n - 1, i \in S
          PROVE  i + 1 \in S
      <3>1. i + 1 \in 1 .. n /\ (i + 1) - 1 = i /\ i + 1 \in 0 .. n
        OBVIOUS
      <3> HIDE DEF P
      <3> QED
        BY <1>8, <2>1, <3>1
    <2> HIDE DEF S
    <2> QED
      BY <1>7, <2>1, IntervalInduction
  <1>10. g = Def(g)
    <2>1. \A i \in 1 .. n : g[i] = New(i, g[i - 1])
      <3> SUFFICES ASSUME NEW i \in 1 .. n
                   PROVE  g[i] = New(i, g[i - 1])
        OBVIOUS
      <3>1. i - 1 \in 0 .. n
        OBVIOUS
      <3> HIDE DEF P
      <3>2. g[i - 1] \in P[i - 1]
        BY <1>9, <3>1
      <3> QED
        BY <1>8, <3>2
    <2>2. g = [i \in 0 .. n |-> g[i]]
      BY <1>6
    <2>3. \A i \in 0 .. n : i = 0 \/ i \in 1 .. n
      OBVIOUS
    <2>4. \A i \in 0 .. n : g[i] = IF i = 0 THEN RB!EmptyTree ELSE New(i, g[i - 1])
      BY <1>6, <2>1, <2>3
    <2> QED
      BY <2>2, <2>4, Zenon
  <1>11. copy = Def(copy)
    BY <1>10, Zenon
  <1> HIDE DEF copy
  <1>12. RB!CopyOf(t, keys) = copy[n]
    BY Zenon DEF RB!CopyOf, copy, New, Volume
  <1>13. copy[0] = RB!EmptyTree /\ \A i \in 1 .. n : copy[i] = New(i, copy[i - 1])
    <2>1. \A i \in 0 .. n : copy[i] = IF i = 0 THEN RB!EmptyTree ELSE New(i, copy[i - 1])
      BY <1>11, Zenon
    <2>2. 0 \in 0 .. n /\ \A i \in 1 .. n : i \in 0 .. n /\ i # 0
      OBVIOUS
    <2> QED
      BY <2>1, <2>2
  <1>14. copy[n] \in P[n]
    <2> HIDE DEF P
    <2>1. \A i \in 1 .. n : copy[i - 1] \in P[i - 1] => copy[i] \in P[i]
      BY <1>3, <1>13
    <2>2. copy[0] \in P[0]
      BY <1>2, <1>13
    <2> QED
      BY <2>1, <2>2, LoopEnds
  <1>15. Sound(copy[n]) /\ Keys(copy[n]) = T(n)
    <2>1. n \in 0 .. n
      OBVIOUS
    <2> QED
      BY <1>14, <2>1
  <1> QED
    BY <1>12, <1>15

LEMMA LesserIs ==
    ASSUME NEW m \in Nat, NEW n \in Nat
    PROVE  RB!Min({m, n}) = IF m <= n THEN m ELSE n
  <1>1. CASE m <= n
    <2>1. \A k \in {m, n} : m <= k
      BY <1>1
    <2> QED
      BY <1>1, <2>1, MinMaxIs
  <1>2. CASE ~(m <= n)
    <2>1. \A k \in {m, n} : n <= k
      BY <1>2
    <2> QED
      BY <1>2, <2>1, MinMaxIs
  <1> QED
    BY <1>1, <1>2

(* The copies of limited depth, from the lowest price up and from the highest down. *)
Copied(t, u, side, limit) ==
    Sound(u) /\ BestLevels(Keys(t), side, Keys(u), RB!Min({limit, Cardinality(Keys(t))}))

LEMMA BestCopy ==
    ASSUME NEW t, Sound(t), NEW side \in Sides, NEW limit \in Nat \ {0},
           NEW s, s = RB!Inorder(t, side)
    PROVE  Copied(t, RB!CopyOf(t, SubSeq(s, 1, RB!Min({limit, Len(s)}))), side, limit)
  <1> DEFINE N == Keys(t)
             m == RB!Min({limit, Len(s)})
             k == SubSeq(s, 1, m)
  <1>1. Sorted(s, N, side)
    BY InorderIs
  <1>2. /\ s \in Seq(N) /\ Len(s) \in Nat
        /\ \A n \in N : \E i \in 1 .. Len(s) : s[i] = n
        /\ \A i, j \in 1 .. Len(s) : i < j => On(side, s[i], s[j])
    BY <1>1, LenProperties DEF Sorted
  <1>3. N \in SUBSET Nat /\ N \subseteq Nat \ {RB!Nil} /\ \A n \in N : Volume(t, n) \in Int
    <2>1. Heap(t)
      BY SoundHeap
    <2> QED
      BY <2>1 DEF Heap, Nodes, Keys, Volume
  <1>4. m = IF limit <= Len(s) THEN limit ELSE Len(s)
    BY <1>2, LesserIs
  <1>5. m \in 0 .. Len(s)
    BY <1>2, <1>4
  <1> HIDE DEF m
  <1>6. \A i \in 1 .. Len(s) : s[i] \in N
    BY <1>2, ElementOfSeq
  <1>7. Len(k) = m /\ \A i \in 1 .. m : k[i] = s[i]
    <2>1. \A i \in 1 .. m : s[i] \in N
      BY <1>2, <1>5, <1>6
    <2>2. /\ Len(k) = IF 1 <= m THEN m - 1 + 1 ELSE 0
          /\ \A i \in 1 .. m - 1 + 1 : k[i] = s[1 + i - 1]
      BY <1>2, <1>5, <2>1, SubSeqProperties
    <2>3. m \in Nat /\ m - 1 + 1 = m /\ \A i \in 1 .. m : 1 + i - 1 = i
      BY <1>2, <1>5
    <2> QED
      BY <2>2, <2>3
  <1> HIDE DEF k
  <1>8. {k[j] : j \in 1 .. m} = {s[j] : j \in 1 .. m}
    BY <1>7
  <1>9. \A i \in 1 .. m : k[i] \in Nat \ {RB!Nil} /\ Volume(t, k[i]) \in Int
    <2>1. \A i \in 1 .. m : i \in 1 .. Len(s)
      BY <1>2, <1>5
    <2>2. \A i \in 1 .. m : k[i] \in N
      BY <1>6, <1>7, <2>1
    <2> HIDE DEF N
    <2> QED
      BY <1>3, <2>2
  <1>10. \A i, j \in 1 .. m : i # j => k[i] # k[j]
    <2> SUFFICES ASSUME NEW i \in 1 .. m, NEW j \in 1 .. m, i # j
                 PROVE  k[i] # k[j]
      OBVIOUS
    <2>1. i \in 1 .. Len(s) /\ j \in 1 .. Len(s) /\ (i < j \/ j < i)
      BY <1>2, <1>5
    <2>2. On(side, s[i], s[j]) \/ On(side, s[j], s[i])
      BY <1>2, <2>1
    <2>3. s[i] \in Nat /\ s[j] \in Nat
      BY <1>3, <1>6, <2>1
    <2> QED
      BY <1>7, <2>2, <2>3 DEF On
  <1>11. Sound(RB!CopyOf(t, k)) /\ Keys(RB!CopyOf(t, k)) = {k[j] : j \in 1 .. m}
    <2>1. m \in Nat
      BY <1>2, <1>5
    <2> QED
      BY <1>7, <1>9, <1>10, <2>1, CopyOfIs
  <1>12. BestLevels(N, side, {s[j] : j \in 1 .. m}, m)
    BY <1>1, <1>3, <1>5, SortedBest
  <1>13. Cardinality(N) = Len(s)
    <2>1. BestLevels(N, side, {s[j] : j \in 1 .. Len(s)}, Len(s))
      <3> DEFINE l == Len(s)
      <3>1. l \in 0 .. Len(s)
        BY <1>2
      <3> HIDE DEF l
      <3>2. BestLevels(N, side, {s[j] : j \in 1 .. l}, l)
        BY <1>1, <1>3, <3>1, SortedBest
      <3> QED
        BY <3>2 DEF l
    <2>2. N = {s[j] : j \in 1 .. Len(s)}
      BY <1>2, <1>6
    <2> QED
      BY <2>1, <2>2 DEF BestLevels
  <1> QED
    BY <1>8, <1>11, <1>12, <1>13 DEF Copied, k, m

LEMMA CopiesAre ==
    ASSUME NEW t, Sound(t), NEW limit \in Nat \ {0}
    PROVE  /\ Copied(t, RB!CopyInorder(t, limit), "left", limit)
           /\ Copied(t, RB!CopyInorderReverse(t, limit), "right", limit)
  <1>1. "left" \in Sides /\ "right" \in Sides
    BY DEF Sides
  <1>2. RB!CopyInorder(t, limit)
          = RB!CopyOf(t, SubSeq(RB!Inorder(t, "left"), 1, RB!Min({limit, Len(RB!Inorder(t, "left"))})))
    <2>1. limit > 0
      OBVIOUS
    <2> QED
      BY <2>1, Zenon DEF RB!CopyInorder
  <1>3. RB!CopyInorderReverse(t, limit)
          = RB!CopyOf(t, SubSeq(RB!Inorder(t, "right"), 1, RB!Min({limit, Len(RB!Inorder(t, "right"))})))
    BY Zenon DEF RB!CopyInorderReverse
  <1> QED
    BY <1>1, <1>2, <1>3, BestCopy
=============================================================================
