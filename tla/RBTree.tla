------------------------------- MODULE RBTree -------------------------------
(***************************************************************************)
(* One side of an RBTOrderBook (pkg/types/rbtorderbook.go): a red-black    *)
(* tree of its levels, which the updates of the exchange set and delete.   *)
(***************************************************************************)
EXTENDS RedBlackTree

CONSTANTS
    Prices, Volumes,
    Depths              \* the depths of the copies that are looked at

(* Prices and the depths of copies are positive; at depth 0 CopyDepth takes all
   asks and no bids. *)
Parameters == Prices \subseteq Nat \ {Nil} /\ Volumes \subseteq Int /\ Depths \subseteq Nat \ {0}

VARIABLE tree

Node == [red : BOOLEAN, left : Prices \cup {Nil}, right : Prices \cup {Nil},
         parent : Prices \cup {Nil}, value : Volumes]

Init == tree = EmptyTree

-----------------------------------------------------------------------------
(***************************************************************************)
(* The updates of one side of the book, one level at a time                *)
(***************************************************************************)
SetLevel(p, v) == tree' = Upsert(tree, p, v)

DeleteLevel(p) == tree' = Delete(tree, p)

Next == \E p \in Prices : DeleteLevel(p) \/ \E v \in Volumes : SetLevel(p, v)

Spec == Init /\ [][Next]_tree

-----------------------------------------------------------------------------
(***************************************************************************)
(* Properties                                                              *)
(***************************************************************************)
(* The links of the nodes are a tree: a node is the child of its parent. *)
TypeOK ==
    /\ Keys(tree) \subseteq Prices
    /\ tree.node \in [Keys(tree) -> Node]
    /\ tree.root \in Keys(tree) \cup {Nil}
    /\ tree.root # Nil => tree.node[tree.root].parent = Nil
    /\ \A n \in Keys(tree) \ {tree.root} :
          LET p == tree.node[n].parent IN p \in Keys(tree) /\ tree.node[p][SideOf(tree, n, p)] = n
    /\ \A n \in Keys(tree), side \in {"left", "right"} :
          LET c == tree.node[n][side] IN c # Nil => c \in Keys(tree) /\ tree.node[c].parent = n

(* CopyDepth: a copy of a limited depth holds the best levels and no other. *)
CopiesHoldBest ==
    \A limit \in Depths :
        LET asks == CopyInorder(tree, limit)
            bids == CopyInorderReverse(tree, limit)
            size == Min({limit, Cardinality(Keys(tree))})
        IN  /\ IsBalanced(asks) /\ IsBalanced(bids)
            /\ Cardinality(Keys(asks)) = size /\ Cardinality(Keys(bids)) = size
            /\ \A n \in Keys(asks), k \in Keys(tree) \ Keys(asks) : n < k
            /\ \A n \in Keys(bids), k \in Keys(tree) \ Keys(bids) : n > k

(* The best level of a book is found at an end of the tree (BestBid, BestAsk),
   every level is found by its price, and Successor, on which Delete relies,
   is the next price: no rotation loses or hides a level.  And "a red node
   always has black children" (rbtree_node.go:13-17), the root is black, and as
   many black nodes lie above every leaf, so that an update takes logarithmic
   time whatever the levels that came and went.  The copies of CopyDepth are such
   trees too. *)
SearchTree ==
    LET next(n) == {k \in Keys(tree) : k > n}
    IN  /\ Keys(tree) # {} => Leftmost(tree) = Min(Keys(tree)) /\ Rightmost(tree) = Max(Keys(tree))
        /\ \A p \in Prices : Search(tree, p) = IF p \in Keys(tree) THEN p ELSE Nil
        /\ \A n \in Keys(tree) : Successor(tree, n) = IF next(n) = {} THEN Nil ELSE Min(next(n))
        /\ IsBalanced(tree)
        /\ CopiesHoldBest

Levels == INSTANCE PriceLevels WITH levels <- [k \in Keys(tree) |-> tree.node[k].value]

(* A side of an RBTOrderBook is the map of its prices to their volumes. *)
ImplementsLevels == Levels!Spec
=============================================================================
