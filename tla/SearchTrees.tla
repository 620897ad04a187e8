---------------------------- MODULE SearchTrees ----------------------------
(***************************************************************************)
(* The search trees of tree.h and of MYSTL (binnode.h, bintree.h,          *)
(* binSearchTree.h, avlTree.h, splayTree.h): a tree of one kind and the    *)
(* calls that change it. A tree is a value, and the parent of a node is    *)
(* where it hangs. The assignments of rotateAt's result take the place of  *)
(* the old root, as compilers before C++17 order them.                     *)
(***************************************************************************)
EXTENDS Integers, Sequences, SequencesExt, FiniteSets, FiniteSetsExt, BagsExt

CONSTANTS Keys,     \* kind of tree -> the keys it is used with
          MaxSize   \* kind of tree -> how many it holds at most

VARIABLES kind,     \* "plain" for tree.h, "bst", "avl" and "splay" for MYSTL
          tree, kept   \* the tree, and the bag of the keys that were put in
vars == << kind, tree, kept >>

-----------------------------------------------------------------------------
(* Binary trees as values, the traversals of binnode.h and tree.h with     *)
(* stacks and queues of their own, and building a tree from two orders.    *)

Nil == [none |-> TRUE]
Node(l, k, r) == [l |-> l, key |-> k, r |-> r]
Leaf(k)       == Node(Nil, k, Nil)

RECURSIVE Size(_), Height(_), InOrder(_), PreOrder(_), PostOrder(_)
Size(t)      == IF t = Nil THEN 0 ELSE Size(t.l) + 1 + Size(t.r)
Height(t)    == IF t = Nil THEN -1 ELSE 1 + Max({Height(t.l), Height(t.r)})
InOrder(t)   == IF t = Nil THEN << >> ELSE InOrder(t.l) \o << t.key >> \o InOrder(t.r)
PreOrder(t)  == IF t = Nil THEN << >> ELSE << t.key >> \o PreOrder(t.l) \o PreOrder(t.r)
PostOrder(t) == IF t = Nil THEN << >> ELSE PostOrder(t.l) \o PostOrder(t.r) \o << t.key >>

\* The children of a node, in the order they are queued or, backwards, stacked.
Children(t) == SelectSeq(<< t.l, t.r >>, LAMBDA c : c # Nil)

-----------------------------------------------------------------------------
(* Traversals. A stack is a sequence with its top at the end.              *)

\* The nodes from t down to the left.
RECURSIVE LeftChain(_)
LeftChain(t) == IF t = Nil THEN << >> ELSE << t >> \o LeftChain(t.l)
KeysOf(nodes) == [i \in DOMAIN nodes |-> nodes[i].key]

\* A node is visited when its left chain is walked down.
RECURSIVE TravPre(_, _)
TravPre(t, stack) ==
    LET s == stack \o LeftChain(t)
    IN  KeysOf(LeftChain(t)) \o
        IF s = << >> THEN << >> ELSE TravPre(Last(s).r, Front(s))

\* A node is visited when it is taken off; then comes the left chain of its right child.
RECURSIVE TravIn(_)
TravIn(s) ==
    IF s = << >> THEN << >> ELSE << Last(s).key >> \o TravIn(Front(s) \o LeftChain(Last(s).r))

\* A node is visited when its right child was the last node visited, or is not there.
RECURSIVE TravPost(_, _)
TravPost(s, visited) ==
    IF s = << >> THEN << >>
    ELSE LET t == Last(s)
         IN  IF t.r \in {Nil, visited} THEN << t.key >> \o TravPost(Front(s), t)
             ELSE TravPost(s \o LeftChain(t.r), visited)

RECURSIVE TravLevel(_)
TravLevel(queue) ==
    IF queue = << >> THEN << >>
    ELSE << Head(queue).key >> \o TravLevel(Tail(queue) \o Children(Head(queue)))

\* tree.h: the right child is stacked below the left one.
RECURSIVE FirstTraverIteration(_)
FirstTraverIteration(s) ==
    IF s = << >> THEN << >>
    ELSE << Last(s).key >> \o FirstTraverIteration(Front(s) \o Reverse(Children(Last(s))))

-----------------------------------------------------------------------------
(* Building.                                                               *)

Index(s, v) == Min({i \in DOMAIN s : s[i] = v})

\* The first of the pre-order is the root; what is left of it in the in-order is as
\* long as what follows it in the pre-order.
RECURSIVE BuildPreIn(_, _)
BuildPreIn(pre, in) ==
    IF pre = << >> THEN Nil
    ELSE LET i == Index(in, pre[1])
         IN  Node(BuildPreIn(SubSeq(pre, 2, i), SubSeq(in, 1, i - 1)), pre[1],
                  BuildPreIn(SubSeq(pre, i + 1, Len(pre)), SubSeq(in, i + 1, Len(in))))

RECURSIVE BuildPostIn(_, _)
BuildPostIn(post, in) ==
    IF post = << >> THEN Nil
    ELSE LET n == Len(post)  i == Index(in, post[n])
         IN  Node(BuildPostIn(SubSeq(post, 1, i - 1), SubSeq(in, 1, i - 1)), post[n],
                  BuildPostIn(SubSeq(post, i, n - 1), SubSeq(in, i + 1, n)))

-----------------------------------------------------------------------------
(* Properties.                                                             *)

\* For a tree of different keys: every traversal with a stack or a queue meets the
\* nodes as the recursive one does, level order goes down level by level, and two of
\* the orders give the tree back.
TraversalsAgree(t) ==
    LET s == IF t = Nil THEN << >> ELSE << t >>
    IN  /\ TravPre(t, << >>) = PreOrder(t)
        /\ TravIn(LeftChain(t)) = InOrder(t)
        /\ TravPost(LeftChain(t), Nil) = PostOrder(t)
        /\ FirstTraverIteration(s) = PreOrder(t)
        /\ ToSet(TravLevel(s)) = ToSet(InOrder(t)) /\ Len(TravLevel(s)) = Size(t)
        /\ BuildPreIn(PreOrder(t), InOrder(t)) = t
        /\ BuildPostIn(PostOrder(t), InOrder(t)) = t

-----------------------------------------------------------------------------
(* tree.h: equal keys go to the left.                                      *)

RECURSIVE PlainInsert(_, _)
PlainInsert(t, v) ==
    IF t = Nil THEN Leaf(v)
    ELSE IF v <= t.key THEN [t EXCEPT !.l = PlainInsert(t.l, v)]
    ELSE [t EXCEPT !.r = PlainInsert(t.r, v)]

RECURSIVE Search(_, _)
Search(t, v) ==
    IF t = Nil \/ t.key = v THEN t ELSE IF v <= t.key THEN Search(t.l, v) ELSE Search(t.r, v)

RECURSIVE Least(_), WithoutLeast(_)
Least(t)        == IF t.l = Nil THEN t.key ELSE Least(t.l)
WithoutLeast(t) == IF t.l = Nil THEN t.r ELSE [t EXCEPT !.l = WithoutLeast(t.l)]

RECURSIVE BSTMax(_)
BSTMax(t) == IF t.r = Nil THEN t.key ELSE BSTMax(t.r)

\* A node with two children takes the key of its successor, which goes instead;
\* one with a single child becomes that child.
Unlinked(t) ==
    IF t.l = Nil THEN t.r
    ELSE IF t.r = Nil THEN t.l
    ELSE Node(t.l, Least(t.r), WithoutLeast(t.r))

RECURSIVE Delete(_, _)
Delete(t, v) ==
    IF t = Nil THEN Nil
    ELSE IF t.key = v THEN Unlinked(t)
    ELSE IF v <= t.key THEN [t EXCEPT !.l = Delete(t.l, v)]
    ELSE [t EXCEPT !.r = Delete(t.r, v)]

\* The last node is freed but its caller keeps the pointer: with it the tree is over.
LastOne(t) == t.l = Nil /\ t.r = Nil

RECURSIVE Depth(_)
Depth(t) == IF t = Nil \/ LastOne(t) THEN 0 ELSE 1 + Max({Depth(t.l), Depth(t.r)})

-----------------------------------------------------------------------------
(* MYSTL: the plain search tree and rotations.                             *)

RECURSIVE BstInsert(_, _)
BstInsert(t, v) ==
    IF t = Nil THEN Leaf(v)
    ELSE IF t.key = v THEN t
    ELSE IF v < t.key THEN [t EXCEPT !.l = BstInsert(t.l, v)]
    ELSE [t EXCEPT !.r = BstInsert(t.r, v)]

RECURSIVE BstRemove(_, _)
BstRemove(t, v) ==
    IF t = Nil THEN Nil
    ELSE IF t.key = v THEN Unlinked(t)
    ELSE IF v < t.key THEN [t EXCEPT !.l = BstRemove(t.l, v)]
    ELSE [t EXCEPT !.r = BstRemove(t.r, v)]

Connect34(a, b, c, t0, t1, t2, t3) == Node(Node(t0, a, t1), b, Node(t2, c, t3))

\* v hangs on the side pv of p, and p on the side gp of g.
RotateAt(g, gp, pv) ==
    LET p == g[gp]  v == p[pv]
    IN  CASE gp = "l" /\ pv = "l" -> Connect34(v.key, p.key, g.key, v.l, v.r, p.r, g.r)
          [] gp = "l" /\ pv = "r" -> Connect34(p.key, v.key, g.key, p.l, v.l, v.r, g.r)
          [] gp = "r" /\ pv = "r" -> Connect34(g.key, p.key, v.key, g.l, p.l, v.l, v.r)
          [] gp = "r" /\ pv = "l" -> Connect34(g.key, v.key, p.key, g.l, v.l, v.r, p.r)

\* When both are equally high, the side the node itself is on.
TallerChild(t, side) ==
    IF Height(t.l) > Height(t.r) THEN "l"
    ELSE IF Height(t.l) < Height(t.r) THEN "r" ELSE side

AvlBalanced(t) == Height(t.l) - Height(t.r) \in -1 .. 1

\* Rotation at a node that its children leave unbalanced.
Rebalanced(g) ==
    IF AvlBalanced(g) THEN g
    ELSE LET side == TallerChild(g, "r") IN RotateAt(g, side, TallerChild(g[side], side))

RECURSIVE AvlInsert(_, _)
AvlInsert(t, v) ==
    IF t = Nil THEN Leaf(v)
    ELSE IF t.key = v THEN t
    ELSE IF v < t.key THEN Rebalanced([t EXCEPT !.l = AvlInsert(t.l, v)])
    ELSE Rebalanced([t EXCEPT !.r = AvlInsert(t.r, v)])

\* Up from the parent of the node that was taken out, which is the successor of v
\* when v has two children.
RECURSIVE AvlWithoutLeast(_), AvlRemove(_, _)
AvlWithoutLeast(t) ==
    IF t.l = Nil THEN t.r ELSE Rebalanced([t EXCEPT !.l = AvlWithoutLeast(t.l)])
AvlRemove(t, v) ==
    IF t = Nil THEN Nil
    ELSE IF t.key = v THEN
        IF t.l = Nil THEN t.r
        ELSE IF t.r = Nil THEN t.l
        ELSE Rebalanced(Node(t.l, Least(t.r), AvlWithoutLeast(t.r)))
    ELSE IF v < t.key THEN Rebalanced([t EXCEPT !.l = AvlRemove(t.l, v)])
    ELSE Rebalanced([t EXCEPT !.r = AvlRemove(t.r, v)])

-----------------------------------------------------------------------------
(* Splay trees.                                                            *)

\* The way from the root down to v, or to the last node before it: the nodes left
\* behind, the nearest first, each with the side that was taken.
RECURSIVE SearchIn(_, _, _)
SearchIn(t, v, up) ==
    LET side == IF v < t.key THEN "l" ELSE "r"
    IN  IF t.key = v \/ t[side] = Nil THEN << t, up >>
        ELSE SearchIn(t[side], v, << << side, t >> >> \o up)

\* One level: v takes the place of its parent p.
Single(v, side, p) ==
    IF side = "l" THEN Node(v.l, v.key, Node(v.r, p.key, p.r))
    ELSE Node(Node(p.l, p.key, v.l), v.key, v.r)

\* Two levels: from the grandparent first when v, p and g are in line.
Double(v, pv, p, gp, g) ==
    CASE pv = "l" /\ gp = "l" -> Node(v.l, v.key, Node(v.r, p.key, Node(p.r, g.key, g.r)))
      [] pv = "l" /\ gp = "r" -> Node(Node(g.l, g.key, v.l), v.key, Node(v.r, p.key, p.r))
      [] pv = "r" /\ gp = "r" -> Node(Node(Node(g.l, g.key, p.l), p.key, v.l), v.key, v.r)
      [] pv = "r" /\ gp = "l" -> Node(Node(p.l, p.key, v.l), v.key, Node(v.r, g.key, g.r))

RECURSIVE Splay(_, _)
Splay(v, up) ==
    IF up = << >> THEN v
    ELSE IF Len(up) = 1 THEN Single(v, up[1][1], up[1][2])
    ELSE Splay(Double(v, up[1][1], up[1][2], up[2][1], up[2][2]), SubSeq(up, 3, Len(up)))

SplaySearch(t, v) ==
    IF t = Nil THEN Nil ELSE LET way == SearchIn(t, v, << >>) IN Splay(way[1], way[2])

SplayInsert(t, v) ==
    LET s == SplaySearch(t, v)
    IN  IF t = Nil THEN Leaf(v)
        ELSE IF s.key = v THEN s
        ELSE IF s.key < v THEN Node([s EXCEPT !.r = Nil], v, s.r)
        ELSE Node(s.l, v, [s EXCEPT !.l = Nil])

\* The two subtrees of the key that goes are joined below the successor, which the
\* search for the key brings to the root of the right one.
SplayRemove(t, v) ==
    LET s == SplaySearch(t, v)
    IN  IF t = Nil \/ s.key # v THEN s
        ELSE IF s.l = Nil THEN s.r
        ELSE IF s.r = Nil THEN s.l
        ELSE [SplaySearch(s.r, v) EXCEPT !.l = s.l]

-----------------------------------------------------------------------------
(* The calls.                                                              *)

Kinds == {"plain", "bst", "avl", "splay"}

TypeOK ==
    /\ kind \in Kinds /\ BagToSet(kept) \subseteq Keys[kind]
    /\ BagCardinality(kept) <= MaxSize[kind] /\ Size(tree) <= MaxSize[kind]

Init == kind \in Kinds /\ tree = Nil /\ kept = EmptyBag

\* What a search for v says, and the tree it leaves.
Found(v)    == IF kind = "splay" THEN tree # Nil /\ SplaySearch(tree, v).key = v
               ELSE Search(tree, v) # Nil
Searched(v) == IF kind = "splay" THEN SplaySearch(tree, v) ELSE tree

InsertKey(v) ==
    /\ BagCardinality(kept) < MaxSize[kind]
    /\ tree' = CASE kind = "plain" -> PlainInsert(tree, v)
                 [] kind = "bst"   -> BstInsert(tree, v)
                 [] kind = "avl"   -> AvlInsert(tree, v)
                 [] kind = "splay" -> SplayInsert(tree, v)
    /\ kept' = IF kind # "plain" /\ BagIn(v, kept) THEN kept ELSE kept (+) SetToBag({v})
    /\ UNCHANGED kind

RemoveKey(v) ==
    /\ tree # Nil /\ ~(kind = "plain" /\ LastOne(tree))
    /\ tree' = CASE kind = "plain" -> Delete(tree, v)
                 [] kind = "bst"   -> BstRemove(tree, v)
                 [] kind = "avl"   -> AvlRemove(tree, v)
                 [] kind = "splay" -> SplayRemove(tree, v)
    /\ kept' = kept (-) SetToBag({v})
    /\ UNCHANGED kind

SearchKey(v) == tree' = Searched(v) /\ UNCHANGED << kind, kept >>

Next == \E v \in Keys[kind] : InsertKey(v) \/ RemoveKey(v) \/ SearchKey(v)
Spec == Init /\ [][Next]_vars

-----------------------------------------------------------------------------
(* Properties.                                                             *)

RECURSIVE Balanced(_)
Balanced(t) == t = Nil \/ (AvlBalanced(t) /\ Balanced(t.l) /\ Balanced(t.r))

Keeps(t, bag) ==
    /\ \A i \in 2 .. Size(t) : InOrder(t)[i - 1] <= InOrder(t)[i]
    /\ \A k \in BagToSet(bag) \cup ToSet(InOrder(t)) :
           CopiesIn(k, bag) = Cardinality({i \in 1 .. Size(t) : InOrder(t)[i] = k})

\* After any calls, rotations and splays the tree holds the keys put in and not taken
\* out, in order; a search finds exactly those, and leaves all of them in the tree; an
\* AVL tree is balanced at every node; and the traversals agree on it.
TreesSearch ==
    /\ Keeps(tree, kept)
    /\ \A v \in Keys[kind] : (Found(v) <=> BagIn(v, kept)) /\ Keeps(Searched(v), kept)
    /\ kind = "avl" => Balanced(tree)
    /\ kind # "plain" => TraversalsAgree(tree)
    /\ tree # Nil => BSTMax(tree) = Max(BagToSet(kept)) /\ Depth(tree) = Height(tree)
=============================================================================
