---------------------------- MODULE MCAlgorithms ----------------------------
(***************************************************************************)
(* The data structures and algorithms, each by itself and on a small       *)
(* instance: Init chooses part, and a behaviour is one of that part. In    *)
(* the part "input" v1 is an array, for which every answer is checked, and *)
(* it grows. v1 to v6 are the variables of the part in the order of the    *)
(* WITH of its INSTANCE; those it has no use for stay 0.                   *)
(***************************************************************************)
EXTENDS Integers, Sequences

Elements  == -1 .. 2   \* what an array may hold
MaxLength == 6         \* how long it grows
KindKeys == [plain |-> 1 .. 3, bst |-> 1 .. 5, avl |-> 1 .. 7, splay |-> 1 .. 5]
KindSize == [plain |-> 5, bst |-> 5, avl |-> 7, splay |-> 5]

\* The rectangle of the quad tree, what it holds and is asked for.
Rectangle(l, t, r, b) == [left |-> l, top |-> t, right |-> r, bottom |-> b]
QuadPoints  == {0, 1, 3, 4} \X {0, 1, 3}
QuadQueries == {Rectangle(l, t, r, b) : l \in {0, 1}, t \in {0, 2}, r \in {1, 3, 4}, b \in {1, 3}}

\* Distinct points in the order of an array, and where to search for the nearest.
Scattered(a) == [i \in 1 .. Len(a) |-> << 8 * a[i] + i, 2 * i - 7 * a[i] >>]
Places       == {-5, 4, 17} \X {-6, 5}

VARIABLES part, v1, v2, v3, v4, v5, v6
allvars == << part, v1, v2, v3, v4, v5, v6 >>

Sorts == INSTANCE Sorting
Tasks == INSTANCE Exercises

Trees == INSTANCE SearchTrees WITH
    Keys <- KindKeys, MaxSize <- KindSize, kind <- v1, tree <- v2, kept <- v3

Avl == INSTANCE AvlPointers WITH
    Keys <- 1 .. 5, Addresses <- 1 .. 5, mem <- v1, root <- v2, kept <- v3,
    deleted <- v4

RedBlack == INSTANCE RedBlack WITH
    Keys <- 1 .. 8, MaxNodes <- 8, tree <- v1, kept <- v2

Lists == INSTANCE LinkedList WITH
    Values <- {1, 2}, MaxSize <- 4, list <- v1, order <- v2, mangled <- v3

Arrays == INSTANCE Vectors WITH
    Values <- 1 .. 3, MaxSize <- 5, elem <- v1, size <- v2, order <- v3,
    emptyCopy <- v4, overrun <- v5

Quads == INSTANCE QuadTree WITH
    Area <- Rectangle(0, 0, 4, 4), Points <- QuadPoints, MaxPoints <- 3,
    Queries <- QuadQueries, StopNum <- 1, root <- v1, be_list <- v2, points <- v3

Kds == INSTANCE KdTree WITH
    Points <- {0, 1, 2} \X {0, 2}, Dim <- 2, MaxNodes <- 3, Ranges <- {1, 2},
    root <- v1, rect <- v2, kept <- v3, rset <- v4, free_nodes <- v5, allocated <- v6

BTrees == INSTANCE BTree WITH Keys <- 1 .. 9, Order <- 4, root <- v1, size <- v2, kept <- v3

Graph == INSTANCE MatrixGraph WITH
    MaxVertices <- 3, MaxInserted <- 3, V <- v1, E <- v2, e <- v3, inserted <- v4

\* The slots after the first n are not used.
Unused5 == v6 = 0
Unused4 == v5 = 0 /\ Unused5
Unused3 == v4 = 0 /\ Unused4
Unused2 == v3 = 0 /\ Unused3
Unused1 == v2 = 0 /\ Unused2
rest5 == << v6 >>
rest4 == << v5, v6 >>
rest3 == << v4, v5, v6 >>
rest2 == << v3, v4, v5, v6 >>
rest1 == << v2, v3, v4, v5, v6 >>

Grow == Len(v1) < MaxLength /\ \E x \in Elements : v1' = Append(v1, x)

Init ==
    \/ part = "input" /\ v1 = << >> /\ Unused1
    \/ part = "search" /\ Trees!Init /\ Unused3
    \/ part = "avl" /\ Avl!Init /\ Unused4
    \/ part = "redblack" /\ RedBlack!Init /\ Unused2
    \/ part = "list" /\ Lists!Init /\ Unused3
    \/ part = "vector" /\ Arrays!Init /\ Unused5
    \/ part = "quad" /\ Quads!Init /\ Unused3
    \/ part = "kd" /\ Kds!Init
    \/ part = "btree" /\ BTrees!Init /\ Unused3
    \/ part = "graph" /\ Graph!Init /\ Unused4

Next ==
    \/ part = "input" /\ Grow /\ UNCHANGED << part, rest1 >>
    \/ part = "search" /\ Trees!Next /\ UNCHANGED << part, rest3 >>
    \/ part = "avl" /\ Avl!Next /\ UNCHANGED << part, rest4 >>
    \/ part = "redblack" /\ RedBlack!Next /\ UNCHANGED << part, rest2 >>
    \/ part = "list" /\ Lists!Next /\ UNCHANGED << part, rest3 >>
    \/ part = "vector" /\ Arrays!Next /\ UNCHANGED << part, rest5 >>
    \/ part = "quad" /\ Quads!Next /\ UNCHANGED << part, rest3 >>
    \/ part = "kd" /\ Kds!Next /\ UNCHANGED part
    \/ part = "btree" /\ BTrees!Next /\ UNCHANGED << part, rest3 >>
    \/ part = "graph" /\ Graph!Next /\ UNCHANGED << part, rest4 >>

Spec == Init /\ [][Next]_allvars

-----------------------------------------------------------------------------
(* The properties of the parts, as their modules state them.                *)

ASSUME BTrees!OrderAssumption

TreesSound      == /\ part = "search" => Trees!TypeOK /\ Trees!TreesSearch
                   /\ part = "avl" => Avl!TypeOK /\ Avl!AvlSound
                   /\ part = "redblack" => RedBlack!RedBlackSound
                   /\ part = "btree" => BTrees!BTreeSound
ContainersSound == /\ part = "list" => Lists!TypeOK /\ Lists!ListSound
                   /\ part = "vector" => Arrays!TypeOK /\ Arrays!VectorSound
                   /\ part = "graph" => Graph!GraphSound
SpatialSound    == /\ part = "quad" => Quads!QuadTreeSound
                   /\ part = "kd" => Kds!KdTreeSound
=============================================================================
