---------------------------- MODULE RedBlackTree ----------------------------
(***************************************************************************)
(* The red-black tree of pkg/types/rbtree.go: Upsert and Delete, with      *)
(* their rotations, search and copies, as functions of a heap of nodes:    *)
(* the root, and the nodes by key.  A side is "left" or "right": the       *)
(* code's two mirrored branches are one operator here.                     *)
(*                                                                         *)
(* A node is named by its key.  Delete copies the successor's key into the *)
(* node it deletes; here the successor takes that node's place (Renamed).  *)
(* Every nil leaf of the code is an object of its own, whose parent Delete *)
(* sets: a cursor is a node, or Nil, together with its parent.             *)
(***************************************************************************)
EXTENDS Integers, Sequences, FiniteSetsExt

Nil == 0

EmptyTree == [root |-> Nil, node |-> [k \in {} |-> Nil]]

Keys(t) == DOMAIN t.node

Size(t) == Cardinality(Keys(t))

-----------------------------------------------------------------------------
(***************************************************************************)
(* Nodes and rotations                                                     *)
(***************************************************************************)
Other(side) == IF side = "left" THEN "right" ELSE "left"

IsRed(t, n) == n # Nil /\ t.node[n].red

Paint(t, n, red) == IF n = Nil THEN t ELSE [t EXCEPT !.node[n].red = red]

SetParent(t, n, p) == IF n = Nil THEN t ELSE [t EXCEPT !.node[n].parent = p]

SetChild(t, n, side, c) == [t EXCEPT !.node[n][side] = c]

SideOf(t, n, p) == IF t.node[p].left = n THEN "left" ELSE "right"

(* The place of `old' below p, or at the root, is taken by `new'. *)
Hang(t, p, old, new) ==
    IF p = Nil THEN [t EXCEPT !.root = new] ELSE SetChild(t, p, SideOf(t, old, p), new)

(* RotateLeft, RotateRight: x's other child y takes its place, and x becomes
   y's child on the side of the rotation. *)
Rotate(t, x, side) ==
    LET y == t.node[x][Other(side)]
        inner == t.node[y][side]
        moved == SetParent(SetChild(t, x, Other(side), inner), inner, x)
        risen == SetParent(Hang(moved, t.node[x].parent, x, y), y, t.node[x].parent)
    IN  SetParent(SetChild(risen, y, side, x), x, y)

-----------------------------------------------------------------------------
(***************************************************************************)
(* Search and order                                                        *)
(*                                                                         *)
(* A loop of the code passes at most once for every node; where it has     *)
(* ended it stays.                                                         *)
(***************************************************************************)
(* Down from the root until the key or a leaf. *)
Down(t, key, c) ==
    IF c[1] \in {Nil, key} THEN c
    ELSE <<t.node[c[1]][IF key < c[1] THEN "left" ELSE "right"], c[1]>>

Descend(t, key) ==
    LET at[n \in 0 .. Size(t)] == IF n = 0 THEN <<t.root, Nil>> ELSE Down(t, key, at[n - 1])
    IN  at[Size(t)]

Search(t, key) == Descend(t, key)[1]

Outwards(t, n, side) == IF n = Nil \/ t.node[n][side] = Nil THEN n ELSE t.node[n][side]

OuterOf(t, n, side) ==
    LET at[i \in 0 .. Size(t)] == IF i = 0 THEN n ELSE Outwards(t, at[i - 1], side) IN at[Size(t)]

Leftmost(t) == OuterOf(t, t.root, "left")
Rightmost(t) == OuterOf(t, t.root, "right")

(* Up from n as long as it is a right child. *)
Upwards(t, n) ==
    LET p == t.node[n].parent IN IF p # Nil /\ t.node[p].right = n THEN p ELSE n

Ascend(t, n) ==
    LET at[i \in 0 .. Size(t)] == IF i = 0 THEN n ELSE Upwards(t, at[i - 1]) IN t.node[at[Size(t)]].parent

Successor(t, n) ==
    IF t.node[n].right # Nil THEN OuterOf(t, t.node[n].right, "left") ELSE Ascend(t, n)

-----------------------------------------------------------------------------
(***************************************************************************)
(* Upsert                                                                  *)
(***************************************************************************)
BlackRoot(t) == Paint(t, t.root, FALSE)

(* The node n is red, and so may be its parent. *)
InsertPass(c) ==
    LET t == c[1]
        n == c[2]
        p == t.node[n].parent
        g == t.node[p].parent
        side == SideOf(t, p, g)
        uncle == t.node[g][Other(side)]
        inner == SideOf(t, n, p) # side
        turned == IF inner THEN Rotate(t, p, side) ELSE t
        top == IF inner THEN n ELSE p
    IN  IF ~IsRed(t, p) THEN c
        ELSE IF IsRed(t, uncle) THEN <<Paint(Paint(Paint(t, p, FALSE), uncle, FALSE), g, TRUE), g>>
        ELSE <<Rotate(Paint(Paint(turned, top, FALSE), g, TRUE), g, Other(side)),
               IF inner THEN p ELSE n>>

InsertFixup(t, n) ==
    LET at[i \in 0 .. Size(t)] == IF i = 0 THEN <<t, n>> ELSE InsertPass(at[i - 1]) IN BlackRoot(at[Size(t)][1])

NewNode(v, p) == [red |-> TRUE, left |-> Nil, right |-> Nil, parent |-> p, value |-> v]

Attach(t, key, v, p) ==
    LET grown == [t EXCEPT !.node = [k \in Keys(t) \cup {key} |-> IF k = key THEN NewNode(v, p) ELSE t.node[k]]]
    IN  IF p = Nil THEN [grown EXCEPT !.root = key]
        ELSE SetChild(grown, p, IF key < p THEN "left" ELSE "right", key)

Insert(t, key, v) == InsertFixup(Attach(t, key, v, Descend(t, key)[2]), key)

Upsert(t, key, v) ==
    IF Search(t, key) # Nil THEN [t EXCEPT !.node[key].value = v] ELSE Insert(t, key, v)

-----------------------------------------------------------------------------
(***************************************************************************)
(* Delete                                                                  *)
(***************************************************************************)
(* Mutant: a red sibling is not turned away first. *)
SiblingAsIs(t, p, side) == t

(* A red sibling becomes the grandparent, and a black one comes in its place. *)
BlackSibling(t, p, side) ==
    LET s == t.node[p][Other(side)]
    IN  IF IsRed(t, s) THEN Rotate(Paint(Paint(t, s, FALSE), p, TRUE), p, side) ELSE t

(* The sibling's far child becomes red. *)
RedFarChild(t, s, side) ==
    IF IsRed(t, t.node[s][Other(side)]) THEN t
    ELSE Rotate(Paint(Paint(t, t.node[s][side], FALSE), s, TRUE), s, Other(side))

(* The subtree of x, below p, has one black node too few. *)
DeletePass(c) ==
    LET t == c[1]
        x == c[2]
        p == c[3]
        side == SideOf(t, x, p)
        t1 == BlackSibling(t, p, side)
        s == t1.node[p][Other(side)]
        t2 == RedFarChild(t1, s, side)
        far == t2.node[p][Other(side)]
        t3 == Paint(Paint(Paint(t2, far, t2.node[p].red), p, FALSE), t2.node[far][Other(side)], FALSE)
        t4 == Rotate(t3, p, side)
    IN  IF x = t.root \/ IsRed(t, x) THEN c
        ELSE IF ~IsRed(t1, t1.node[s].left) /\ ~IsRed(t1, t1.node[s].right)
        THEN <<Paint(t1, s, TRUE), p, t1.node[p].parent>>
        ELSE <<t4, t4.root, Nil>>

DeleteFixup(t, x, p) ==
    LET at[i \in 0 .. Size(t)] == IF i = 0 THEN <<t, x, p>> ELSE DeletePass(at[i - 1])
        last == at[Size(t)]
    IN  Paint(last[1], last[2], FALSE)

(* Mutant: the value of y does not move. *)
RenamedOnly(t, key, y) ==
    LET name(n) == IF n = key THEN y ELSE n
        node(k) == IF k = y THEN t.node[key] ELSE t.node[k]
    IN  [root |-> name(t.root),
         node |-> [k \in Keys(t) \ {key} |->
                     [node(k) EXCEPT !.left = name(@), !.right = name(@), !.parent = name(@)]]]

(* The key and the value of y move into the node of `key', and y is gone. *)
Renamed(t, key, y) ==
    LET name(n) == IF n = key THEN y ELSE n
        node(k) == IF k = y THEN [t.node[key] EXCEPT !.value = t.node[y].value] ELSE t.node[k]
    IN  [root |-> name(t.root),
         node |-> [k \in Keys(t) \ {key} |->
                     [node(k) EXCEPT !.left = name(@), !.right = name(@), !.parent = name(@)]]]

Delete(t, key) ==
    IF Search(t, key) = Nil THEN t
    ELSE LET two == t.node[key].left # Nil /\ t.node[key].right # Nil
             y == IF two THEN Successor(t, key) ELSE key
             x == IF t.node[y].left = Nil THEN t.node[y].right ELSE t.node[y].left
             p == t.node[y].parent
             cut == Hang(SetParent(t, x, p), p, y, x)
             fixed == IF t.node[y].red THEN cut ELSE DeleteFixup(cut, x, p)
         IN  Renamed(fixed, key, y)

-----------------------------------------------------------------------------
(***************************************************************************)
(* Copies of the best levels                                               *)
(***************************************************************************)
(* The keys, from the outermost on `side' to the other end. *)
Inorder(t, side) ==
    LET below[n \in Keys(t) \cup {Nil}] ==
            IF n = Nil THEN <<>>
            ELSE below[t.node[n][side]] \o <<n>> \o below[t.node[n][Other(side)]]
    IN  below[t.root]

CopyOf(t, keys) ==
    LET copy[i \in 0 .. Len(keys)] ==
            IF i = 0 THEN EmptyTree ELSE Insert(copy[i - 1], keys[i], t.node[keys[i]].value)
    IN  copy[Len(keys)]

CopyInorder(t, limit) ==
    LET keys == Inorder(t, "left")
    IN  CopyOf(t, IF limit > 0 THEN SubSeq(keys, 1, Min({limit, Len(keys)})) ELSE keys)

CopyInorderReverse(t, limit) ==
    LET keys == Inorder(t, "right") IN CopyOf(t, SubSeq(keys, 1, Min({limit, Len(keys)})))

(* "A red node always has black children" (rbtree_node.go:13-17), the root is
   black, and as many black nodes lie above every leaf. *)
IsBalanced(t) ==
    LET blacks[n \in Keys(t)] == (IF t.node[n].parent = Nil THEN 0 ELSE blacks[t.node[n].parent])
                                 + (IF t.node[n].red THEN 0 ELSE 1)
        leaves == {n \in Keys(t) : Nil \in {t.node[n].left, t.node[n].right}}
    IN  /\ ~IsRed(t, t.root)
        /\ \A n \in Keys(t) : IsRed(t, n) => ~IsRed(t, t.node[n].parent)
        /\ \A m, n \in leaves : blacks[m] = blacks[n]

=============================================================================
