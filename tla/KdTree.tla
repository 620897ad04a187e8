------------------------------- MODULE KdTree -------------------------------
(***************************************************************************)
(* The k-d tree of kd-tree/kdtree.c and the result sets of its range       *)
(* search. A tree is a value: << >> is a null pointer and a node keeps its *)
(* point, the coordinate it splits by and its children. Coordinates are    *)
(* integers, and malloc succeeds. The nodes of a result list come from a   *)
(* free list shared by all trees; only its length is kept, for its nodes   *)
(* are alike. One result set is open at a time.                            *)
(*                                                                         *)
(* And the one of kd-tree/base-kdtree.c, built at once by splitting an     *)
(* array at its median, and its search for the nearest point. Points are   *)
(* sequences of dim integers. Among equal coordinates find_median may stop *)
(* with larger ones still left of the median (line 63), and the search may *)
(* then miss the nearest point; the program draws its coordinates from     *)
(* rand(), and the properties are stated for distinct ones.                *)
(***************************************************************************)
EXTENDS Integers, Sequences, FiniteSets, SequencesExt, FiniteSetsExt

CONSTANTS Points,     \* sequences of dim coordinates
          Dim,
          MaxNodes,   \* bound: insertions
          Ranges      \* of a range search

VARIABLES root, rect,
          kept,        \* the points inserted, with their data
          rset,        \* the open result set: its items, and those riter has left
          free_nodes,  \* length of the free list
          allocated    \* result nodes ever taken from malloc
vars == << root, rect, kept, rset, free_nodes, allocated >>

Axes == 1 .. Dim
NoSet == [open |-> FALSE, items |-> << >>, left |-> << >>, size |-> 0]

Square(x) == x * x
distance(p, q) == MapThenSumSet(LAMBDA i : Square(p[i] - q[i]), Axes)

\* insert_rec: an equal coordinate goes to the right.
RECURSIVE InsertRec(_, _, _)
InsertRec(node, item, idx) ==
    IF node = << >> THEN [item |-> item, idx |-> idx, left |-> << >>, right |-> << >>]
    ELSE LET next == (node.idx % Dim) + 1
         IN  IF item.pos[node.idx] < node.item.pos[node.idx]
             THEN [node EXCEPT !.left = InsertRec(@, item, next)]
             ELSE [node EXCEPT !.right = InsertRec(@, item, next)]

\* find_nearest and rlist_insert: the items within range, each put before the
\* earlier ones since the list is not ordered (dist_sq is -1), and the number
\* of them.
RECURSIVE FindNearest(_, _, _, _)
FindNearest(node, pos, range, list) ==
    IF node = << >> THEN [list |-> list, added |-> 0]
    ELSE LET hit    == distance(node.item.pos, pos) <= Square(range)
             here   == IF hit THEN << node.item >> \o list ELSE list
             dx     == pos[node.idx] - node.item.pos[node.idx]
             near   == FindNearest(IF dx <= 0 THEN node.left ELSE node.right, pos, range, here)
             far    == IF Max({dx, -dx}) < range
                       THEN FindNearest(IF dx <= 0 THEN node.right ELSE node.left, pos, range, near.list)
                       ELSE [near EXCEPT !.added = 0]
         IN  [list |-> far.list, added |-> (IF hit THEN 1 ELSE 0) + near.added + far.added]

-----------------------------------------------------------------------------
(* Actions.                                                                 *)

Init ==
    /\ root = << >> /\ rect = << >> /\ kept = {}
    /\ rset = NoSet /\ free_nodes = 0 /\ allocated = 0

\* kd_insert: the data are the number of the insertion.
Insert(pos) ==
    LET item == [pos |-> pos, data |-> Cardinality(kept) + 1]
    IN  /\ Cardinality(kept) < MaxNodes
        /\ root' = InsertRec(root, item, 1)
        /\ rect' = IF rect = << >> THEN [min |-> pos, max |-> pos]
                   ELSE [min |-> [i \in Axes |-> Min({rect.min[i], pos[i]})],
                         max |-> [i \in Axes |-> Max({rect.max[i], pos[i]})]]
        /\ kept' = kept \cup {item}
        /\ UNCHANGED << rset, free_nodes, allocated >>

\* kd_nearest_range: the head of the list and one node for each item.
NearestRange(pos, range) ==
    LET found == FindNearest(root, pos, range, << >>)
        needs == Len(found.list) + 1
    IN  /\ ~rset.open
        /\ rset' = [open |-> TRUE, items |-> found.list, left |-> found.list, size |-> found.added]
        /\ free_nodes' = Max({0, free_nodes - needs})
        /\ allocated' = allocated + Max({0, needs - free_nodes})
        /\ UNCHANGED << root, rect, kept >>

\* kd_res_next, kd_res_rewind, and kd_res_free with clear_results.
ResNext ==
    /\ rset.open /\ rset.left # << >>
    /\ rset' = [rset EXCEPT !.left = Tail(@)]
    /\ UNCHANGED << root, rect, kept, free_nodes, allocated >>

ResRewind ==
    /\ rset.open
    /\ rset' = [rset EXCEPT !.left = rset.items]
    /\ UNCHANGED << root, rect, kept, free_nodes, allocated >>

ResFree ==
    /\ rset.open
    /\ rset' = NoSet
    /\ free_nodes' = free_nodes + Len(rset.items) + 1
    /\ UNCHANGED << root, rect, kept, allocated >>

Next ==
    \/ \E pos \in Points : Insert(pos)
    \/ \E pos \in Points, range \in Ranges : NearestRange(pos, range)
    \/ ResNext \/ ResRewind \/ ResFree

Spec == Init /\ [][Next]_vars

-----------------------------------------------------------------------------
(* The tree of base-kdtree.c, a function of an array.                       *)

dist2(a, b) == MapThenSumSet(LAMBDA i : (a[i] - b[i]) * (a[i] - b[i]), DOMAIN a)

Swapped(t, i, j) == [t EXCEPT ![i] = t[j], ![j] = t[i]]

\* One pass of find_median over t[start] .. t[end]: the pivot is put last, the
\* smaller ones are moved to the front, and the pivot is put after them.
Pass(t, start, end, md, idx) ==
    LET pivot == t[md][idx]
        Step(p, acc) ==
            IF acc.t[p][idx] < pivot
            THEN [t |-> Swapped(acc.t, p, acc.store), store |-> acc.store + 1]
            ELSE acc
        RECURSIVE Over(_, _)
        Over(p, acc) == IF p > end THEN acc ELSE Over(p + 1, Step(p, acc))
        moved == Over(start, [t |-> Swapped(t, md, end), store |-> start])
    IN  [t |-> Swapped(moved.t, moved.store, end), store |-> moved.store]

\* find_median: the array as it leaves it, with the median at md.
RECURSIVE Median(_, _, _, _, _)
Median(t, start, end, md, idx) ==
    LET pass == Pass(t, start, end, md, idx)
    IN  IF pass.t[pass.store][idx] = pass.t[md][idx] THEN pass.t
        ELSE IF pass.store > md THEN Median(pass.t, start, pass.store - 1, md, idx)
        ELSE Median(pass.t, pass.store, end, md, idx)

\* make_tree, with << >> for a null pointer.
RECURSIVE MakeTree(_, _)
MakeTree(t, i) ==
    IF t = << >> THEN << >>
    ELSE LET md   == (Len(t) \div 2) + 1
             s    == IF Len(t) = 1 THEN t ELSE Median(t, 1, Len(t), md, i)
             next == (i % Len(t[1])) + 1
         IN  [point |-> s[md],
              left  |-> MakeTree(SubSeq(s, 1, md - 1), next),
              right |-> MakeTree(SubSeq(s, md + 1, Len(s)), next)]

\* nearest: best is << >> or the best point so far.
RECURSIVE Nearest(_, _, _, _)
Nearest(node, nd, i, best) ==
    IF node = << >> THEN best
    ELSE LET dx    == node.point[i] - nd[i]
             here  == IF best = << >> \/ dist2(node.point, nd) < dist2(best, nd) THEN node.point ELSE best
             next  == (i % Len(nd)) + 1
             near  == Nearest(IF dx > 0 THEN node.left ELSE node.right, nd, next, here)
         IN  IF dist2(here, nd) = 0 THEN here
             ELSE IF dx * dx >= dist2(near, nd) THEN near
             ELSE Nearest(IF dx > 0 THEN node.right ELSE node.left, nd, next, near)

RECURSIVE Below(_)
Below(node) == IF node = << >> THEN {} ELSE {node.point} \cup Below(node.left) \cup Below(node.right)

-----------------------------------------------------------------------------
(* Properties.                                                              *)

\* A range search finds every point nearer than the range, each once, none
\* beyond it, and its size is their number. One at the range itself may be
\* missed: the insertion sends a coordinate equal to the node's to the right,
\* the search begins on the left and crosses only for less than the range
\* (kdtree.c:287).
RangeRight ==
    ~rset.open => \A pos \in Points, range \in Ranges :
        LET found == FindNearest(root, pos, range, << >>)
            dist(item) == distance(item.pos, pos)
        IN  /\ {item \in kept : dist(item) < Square(range)} \subseteq ToSet(found.list)
            /\ ToSet(found.list) \subseteq {item \in kept : dist(item) <= Square(range)}
            /\ IsInjective(found.list)
            /\ found.added = Len(found.list)

\* Iterating yields what is left of as many items as size says, and the nodes
\* taken from malloc are on the free list or in the open set: none is lost.
SetSound ==
    /\ rset.open => Len(rset.items) = rset.size /\ IsSuffix(rset.left, rset.items)
    /\ allocated = free_nodes + (IF rset.open THEN rset.size + 1 ELSE 0)

\* The rectangle is the smallest that holds every point.
RectTight ==
    kept # {} => \A i \in Axes :
        LET coordinates == {item.pos[i] : item \in kept}
        IN  rect.min[i] = Min(coordinates) /\ rect.max[i] = Max(coordinates)

KdTreeSound == RangeRight /\ SetSound /\ RectTight

\* Of base-kdtree.c, with points t and those searched for.
Distinct(t) == \A i, j \in 1 .. Len(t) : \A k \in DOMAIN t[i] : i # j => t[i][k] # t[j][k]

\* The tree holds the points of the array, and the search of any place finds
\* one that no other is nearer than, though it leaves out whole subtrees.
NearestRight(t, places) ==
    Distinct(t) =>
        LET tree == MakeTree(t, 1)
        IN  /\ Below(tree) = {t[i] : i \in 1 .. Len(t)}
            /\ t # << >> => \A nd \in places :
                   LET best == Nearest(tree, nd, 1, << >>)
                   IN  best \in Below(tree) /\ \A p \in Below(tree) : dist2(best, nd) <= dist2(p, nd)
=============================================================================
