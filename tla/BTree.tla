-------------------------------- MODULE BTree --------------------------------
(***************************************************************************)
(* The B-tree of MYSTL/BTree.h. A node is a value with its keys and its    *)
(* children, always one more than keys; those of a leaf are Null. The      *)
(* parent pointers are the path from the root: solveOverflow and           *)
(* solveUnderflow climb as the recursion returns. release() is empty: the  *)
(* nodes merged away are leaked. key.search is that of Vectors.tla: the    *)
(* last key that is not greater.                                           *)
(***************************************************************************)
EXTENDS Integers, Sequences, FiniteSets, SequencesExt, FiniteSetsExt

CONSTANTS Keys, Order
OrderAssumption == Order \in Nat /\ Order >= 3

VARIABLES root, size,
          kept     \* the keys it should hold
vars == << root, size, kept >>

Null == [key |-> << >>, child |-> << >>]
Node(key, child) == [key |-> key, child |-> child]
IsLeaf(v) == v.child[1] = Null
Least == (Order + 1) \div 2   \* children a node must keep, but for the root

Rank(key, e) == Cardinality({i \in 1 .. Len(key) : key[i] <= e})

Has(v, e) == \E i \in 1 .. Len(v.key) : v.key[i] = e

RECURSIVE Search(_, _)
Search(v, e) == v # Null /\ (Has(v, e) \/ Search(v.child[Rank(v.key, e) + 1], e))

-----------------------------------------------------------------------------
(* Insertion.                                                               *)

\* solveOverflow of the child at i: its middle key goes up, with the keys right
\* of it in a new node.
SolveOverflow(p, i) ==
    LET v == p.child[i]
        s == (Order \div 2) + 1
    IN  IF Len(v.child) <= Order THEN p
        ELSE Node(InsertAt(p.key, i, v.key[s]),
                  InsertAt(ReplaceAt(p.child, i, Node(SubSeq(v.key, 1, s - 1), SubSeq(v.child, 1, s))),
                           i + 1, Node(SubSeq(v.key, s + 1, Len(v.key)),
                                       SubSeq(v.child, s + 1, Len(v.child)))))

RECURSIVE Inserted(_, _)
Inserted(v, e) ==
    LET r == Rank(v.key, e) + 1
    IN  IF IsLeaf(v) THEN Node(InsertAt(v.key, r, e), InsertAt(v.child, r + 1, Null))
        ELSE SolveOverflow([v EXCEPT !.child[r] = Inserted(v.child[r], e)], r)

-----------------------------------------------------------------------------
(* Removal.                                                                 *)

\* The first i - 1 and the rest after two neighbours of p are joined with the
\* key between them.
Merge(p, i) ==
    LET ls == p.child[i]
        rs == p.child[i + 1]
    IN  Node(RemoveAt(p.key, i),
             RemoveAt(ReplaceAt(p.child, i, Node(Append(ls.key, p.key[i]) \o rs.key, ls.child \o rs.child)),
                      i + 1))

BorrowLeft(p, i) ==
    LET ls == p.child[i - 1]
        v  == p.child[i]
    IN  Node(ReplaceAt(p.key, i - 1, Last(ls.key)),
             [p.child EXCEPT ![i - 1] = Node(Front(ls.key), Front(ls.child)),
                             ![i] = Node(<< p.key[i - 1] >> \o v.key, << Last(ls.child) >> \o v.child)])

BorrowRight(p, i) ==
    LET v  == p.child[i]
        rs == p.child[i + 1]
    IN  Node(ReplaceAt(p.key, i, Head(rs.key)),
             [p.child EXCEPT ![i] = Node(Append(v.key, p.key[i]), Append(v.child, Head(rs.child))),
                             ![i + 1] = Node(Tail(rs.key), Tail(rs.child))])

\* solveUnderflow of the child at i.
SolveUnderflow(p, i) ==
    CASE Len(p.child[i].child) >= Least -> p
      [] OTHER ->
             IF i > 1 /\ Len(p.child[i - 1].child) > Least THEN BorrowLeft(p, i)
             ELSE IF i < Len(p.child) /\ Len(p.child[i + 1].child) > Least THEN BorrowRight(p, i)
             ELSE IF i > 1 THEN Merge(p, i - 1) ELSE Merge(p, i)

RECURSIVE LeastKey(_)
LeastKey(v) == IF IsLeaf(v) THEN Head(v.key) ELSE LeastKey(v.child[1])

\* A key of an inner node is replaced by its successor, which is removed from
\* its leaf instead.
RECURSIVE Removed(_, _)
Removed(v, e) ==
    LET r    == Rank(v.key, e)
        Below(w, x) == SolveUnderflow([w EXCEPT !.child[r + 1] = Removed(@, x)], r + 1)
        next == LeastKey(v.child[r + 1])
    IN  CASE IsLeaf(v) -> Node(RemoveAt(v.key, r), RemoveAt(v.child, r + 1))
          [] ~IsLeaf(v) /\ Has(v, e) -> Below([v EXCEPT !.key[r] = next], next)
          [] OTHER -> Below(v, e)

-----------------------------------------------------------------------------
(* Actions.                                                                 *)

Init == root = Node(<< >>, << Null >>) /\ size = 0 /\ kept = {}

\* The new root of an overflow has the old one as its only child.
InsertKey(e) ==
    /\ IF Search(root, e) THEN UNCHANGED << root, size >>
       ELSE LET v == Inserted(root, e)
            IN  /\ root' = IF Len(v.child) <= Order THEN v
                           ELSE SolveOverflow(Node(<< >>, << v >>), 1)
                /\ size' = size + 1
    /\ kept' = kept \cup {e}

\* A root left without keys gives way to its only child.
RemoveKey(e) ==
    /\ IF ~Search(root, e) THEN UNCHANGED << root, size >>
       ELSE LET v == Removed(root, e)
            IN  /\ root' = IF v.key = << >> /\ v.child[1] # Null THEN v.child[1] ELSE v
                /\ size' = size - 1
    /\ kept' = kept \ {e}

Next == \E e \in Keys : InsertKey(e) \/ RemoveKey(e)

Spec == Init /\ [][Next]_vars

-----------------------------------------------------------------------------
(* Properties.                                                              *)

RECURSIVE InOrder(_)
InOrder(v) ==
    IF v = Null THEN << >>
    ELSE InOrder(v.child[1]) \o
         FlattenSeq([i \in 1 .. Len(v.key) |-> << v.key[i] >> \o InOrder(v.child[i + 1])])

\* The depths of the leaves, and the nodes of a subtree.
RECURSIVE Depths(_)
Depths(v) == IF IsLeaf(v) THEN {1} ELSE UNION {{d + 1 : d \in Depths(v.child[i])} : i \in 1 .. Len(v.child)}

RECURSIVE Nodes(_)
Nodes(v) == IF v = Null THEN {} ELSE {v} \cup UNION {Nodes(v.child[i]) : i \in 1 .. Len(v.child)}

\* Splitting, borrowing and merging leave a B-tree of its order that holds the
\* keys in order: every leaf at one depth, every node but the root between half
\* full and full, and a search that finds what was kept and nothing else.
BTreeSound ==
    /\ LET held == InOrder(root)
       IN  ToSet(held) = kept /\ \A i \in 1 .. Len(held) - 1 : held[i] < held[i + 1]
    /\ size = Cardinality(kept)
    /\ Cardinality(Depths(root)) = 1
    /\ \A v \in Nodes(root) : Len(v.child) = Len(v.key) + 1 /\ Len(v.child) <= Order
    /\ \A v \in Nodes(root) \ {root} : Len(v.child) >= Least
    /\ \A e \in Keys : Search(root, e) <=> e \in kept
=============================================================================
