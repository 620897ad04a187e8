------------------------------ MODULE QuadTree ------------------------------
(***************************************************************************)
(* The quad tree of q-tree/sbd_tree.cpp. A node is a value: NONE is a null *)
(* pointer, DATA a stored point with the nodes chained behind it, INTER a  *)
(* rectangle with the number of points below it and four children.         *)
(*                                                                         *)
(* Points lie inside the rectangle of the root: AddNode does not ask. A    *)
(* point stands for its data. The mode is set while the tree is empty, as  *)
(* main.cpp does. SearchForNearestPoint has no return statement: what is   *)
(* modelled is the search it calls. Writing and reading files succeeds.    *)
(***************************************************************************)
EXTENDS Integers, Sequences, FiniteSets, Functions, FiniteSetsExt, SequencesExt

CONSTANTS Area,       \* the rectangle of the root
          Points,     \* what may be added
          MaxPoints,  \* bound: how many are added
          Queries,    \* the rectangles asked for
          StopNum     \* rect_search_stop_num

VARIABLES root, be_list,
          points      \* how often each point was accepted
vars == << root, be_list, points >>

StopRadius == 1

-----------------------------------------------------------------------------
(* Bound.                                                                   *)

Bound(l, t, r, b) == [left |-> l, top |-> t, right |-> r, bottom |-> b]

Center(b) == << b.left + (b.right - b.left) \div 2, b.top + (b.bottom - b.top) \div 2 >>

CanDivide(b) == (b.right - b.left) \div 2 # 0 \/ (b.bottom - b.top) \div 2 # 0

Intersect(b, c) == c.left <= b.right /\ c.top <= b.bottom /\ c.right >= b.left /\ c.bottom >= b.top

Covers(b, p) == p[1] \in b.left .. b.right /\ p[2] \in b.top .. b.bottom

\* Mutant: the lower edge is not compared.
ContainsBoundAbove(b, c) == c.left >= b.left /\ c.top >= b.top /\ c.right <= b.right

ContainsBound(b, c) == c.left >= b.left /\ c.top >= b.top /\ c.right <= b.right /\ c.bottom <= b.bottom

-----------------------------------------------------------------------------
(* Nodes.                                                                   *)

Nothing    == [type |-> "NONE"]
Data(ps)   == [type |-> "DATA", chain |-> ps]
Inter(b)   == [type |-> "INTER", bound |-> b, count |-> 0, child |-> [i \in 1 .. 4 |-> Nothing]]

\* Which quarter a point falls into, and the rectangle of that quarter.
Quarter(p, c) == IF p[1] <= c[1] THEN IF p[2] <= c[2] THEN 1 ELSE 2
                                 ELSE IF p[2] <= c[2] THEN 3 ELSE 4

ChildBound(b, c, i) ==
    CASE i = 1 -> Bound(b.left, b.top, c[1], c[2])
      [] i = 2 -> Bound(b.left, c[2], c[1], b.bottom)
      [] i = 3 -> Bound(c[1], b.top, b.right, c[2])
      [] i = 4 -> Bound(c[1], c[2], b.right, b.bottom)

\* AddNode(root_node, new_node), where new_node is the node of ps[1] with the
\* rest of ps chained behind it: the node afterwards, and whether it took it.
RECURSIVE AddNode(_, _)
AddNode(node, ps) ==
    LET center    == Center(node.bound)
        i         == Quarter(ps[1], center)
        child     == node.child[i]
        bound     == ChildBound(node.bound, center, i)
        Keep(c)   == [ok |-> FALSE, node |-> [node EXCEPT !.child[i] = c]]
        Count(c)  == [ok |-> TRUE, node |-> [node EXCEPT !.child[i] = c, !.count = @ + 1]]
        After(r)  == IF r.ok THEN Count(r.node) ELSE Keep(r.node)
        Together  == child.chain[1] = ps[1] \/ ~CanDivide(bound)
    IN  CASE ~CanDivide(node.bound) -> [ok |-> FALSE, node |-> node]
          [] child.type = "NONE" -> Count(Data(ps))
          [] child.type = "INTER" -> After(AddNode(child, ps))
          [] child.type = "DATA" /\ Together ->
                 IF be_list THEN Count(Data(<< child.chain[1] >> \o ps \o Tail(child.chain)))
                            ELSE Keep(child)
          [] child.type = "DATA" /\ ~Together ->
                 LET split == AddNode(Inter(bound), child.chain)
                 IN  IF split.ok THEN After(AddNode(split.node, ps)) ELSE Keep(child)

-----------------------------------------------------------------------------
(* Queries.                                                                 *)

RECURSIVE GetPointCount(_, _)
GetPointCount(node, query) ==
    CASE node.type = "NONE" -> 0
      [] node.type = "DATA" ->
             IF ~Covers(query, node.chain[1]) THEN 0
             ELSE IF be_list THEN Len(node.chain) ELSE 1
      [] node.type = "INTER" ->
             IF ~Intersect(node.bound, query) THEN 0
             ELSE IF ContainsBound(query, node.bound) THEN node.count
             ELSE MapThenSumSet(LAMBDA i : GetPointCount(node.child[i], query), 1 .. 4)

RECURSIVE GetPointExistance(_, _)
GetPointExistance(node, query) ==
    CASE node.type = "NONE" -> FALSE
      [] node.type = "DATA" -> Covers(query, node.chain[1])
      [] node.type = "INTER" ->
             /\ Intersect(node.bound, query)
             /\ \/ ContainsBound(query, node.bound)
                \/ \E i \in 1 .. 4 : GetPointExistance(node.child[i], query)

RECURSIVE Search(_, _)
Search(node, query) ==
    CASE node.type = "NONE" -> << >>
      [] node.type = "DATA" -> IF Covers(query, node.chain[1]) THEN node.chain ELSE << >>
      [] node.type = "INTER" ->
             IF ~Intersect(node.bound, query) THEN << >>
             ELSE FlattenSeq([i \in 1 .. 4 |-> Search(node.child[i], query)])

distance(p, q) == (p[1] - q[1]) * (p[1] - q[1]) + (p[2] - q[2]) * (p[2] - q[2])

Around(p, radius) == Bound(p[1] - radius, p[2] - radius, p[1] + radius, p[2] + radius)

\* RectSearchForNearestPoint: the radius doubles while nothing is found, and is
\* then halved between one that finds nothing (empty) and one that finds too
\* much (over). -1 stands for a radius not yet known; << >> for "not found".
RECURSIVE RectSearch(_, _, _, _, _, _, _)
RectSearch(p, max, radius, last, empty, over, force) ==
    LET query     == Around(p, radius)
        count     == GetPointCount(root, query)
        found     == ToSet(Search(root, query))
        close     == empty # -1 /\ Max({radius, last} ) - Min({radius, last}) < StopRadius
        next      == (radius + over) \div 2
    IN  IF count = 0
        THEN IF radius > max THEN << >>
             ELSE IF empty = -1 THEN RectSearch(p, max, radius * 2, radius, -1, over, FALSE)
             ELSE IF next = radius THEN RectSearch(p, max, over, radius, radius, over, TRUE)
             ELSE RectSearch(p, max, next, radius, radius, over, FALSE)
        ELSE IF count <= StopNum \/ close \/ force
        THEN IF found # {} THEN CHOOSE q \in found : \A r \in found : distance(p, q) <= distance(p, r)
             ELSE IF radius <= max /\ empty = -1
             THEN RectSearch(p, max, radius * 2, radius, empty, over, FALSE)
             ELSE << >>
        ELSE IF empty = -1 THEN RectSearch(p, max, (radius + last) \div 2, radius, last, radius, FALSE)
        ELSE IF radius < last THEN RectSearch(p, max, (radius + empty) \div 2, radius, empty, radius, FALSE)
        ELSE RectSearch(p, max, (radius + last) \div 2, radius, empty, radius, FALSE)

SearchForNearestPoint(p, max) == RectSearch(p, max, 1, 0, -1, -1, FALSE)

\* Whether a DATA node has another behind it, and how many points are below.
RECURSIVE Chained(_)
Chained(node) ==
    CASE node.type = "NONE" -> FALSE
      [] node.type = "DATA" -> Len(node.chain) > 1
      [] node.type = "INTER" -> \E i \in 1 .. 4 : Chained(node.child[i])

-----------------------------------------------------------------------------
(* Actions.                                                                 *)

Init == root = Inter(Area) /\ be_list = FALSE /\ points = [p \in Points |-> 0]

Added == SumFunction(points)

SetListMode ==
    /\ Added = 0
    /\ be_list' = TRUE
    /\ UNCHANGED << root, points >>

Add(p) ==
    LET added == AddNode(root, << p >>)
    IN  /\ Added < MaxPoints
        /\ root' = added.node
        /\ points' = IF added.ok THEN [points EXCEPT ![p] = @ + 1] ELSE points
        /\ UNCHANGED be_list

\* DumpToFile and LoadFromDumpFile of this tree: chains switch the mode on.
\* The constructor that reads a file leaves be_list uninitialized before that.
Reload ==
    /\ \E uninitialized \in BOOLEAN :
           be_list' = (Chained(root) \/ uninitialized)
    /\ UNCHANGED << root, points >>

Next == SetListMode \/ Reload \/ \E p \in Points : Add(p)

Spec == Init /\ [][Next]_vars

-----------------------------------------------------------------------------
(* Properties.                                                              *)

Accepted == {p \in Points : points[p] > 0}
Grown(b) == Bound(b.left - 1, b.top - 1, b.right + 1, b.bottom + 1)

\* Where nothing is chained, a search finds exactly the accepted points of its
\* rectangle, its count is their number, and existence agrees with both, though
\* the count and the existence stop at the first rectangle they contain and
\* the counters of split nodes were kept by another path. Only an empty tree
\* inside the query claims a point (cpp:461).
PlainExact ==
    ~Chained(root) => \A query \in Queries :
        LET found == Search(root, query)
        IN  /\ ToSet(found) = {p \in Accepted : Covers(query, p)}
            /\ Len(found) = Cardinality(ToSet(found))
            /\ GetPointCount(root, query) = Len(found)
            /\ Added > 0 => (GetPointExistance(root, query) <=> found # << >>)

\* A chained point may lie beside the one it hangs on (cpp:366), and the search
\* asks the first for its place only: what is found lies within one of the
\* query, and the query grown by one finds all of its points. The count, which
\* a split takes for one, never exceeds what is found.
ChainedNear ==
    \A query \in Queries :
        LET found == Search(root, query)
            wider == Search(root, Grown(query))
        IN  /\ \A i \in 1 .. Len(found) : Covers(Grown(query), found[i])
            /\ \A p \in Accepted : Covers(query, p) =>
                   Cardinality({i \in 1 .. Len(wider) : wider[i] = p}) = points[p]
            /\ be_list => GetPointCount(root, query) <= Len(found)

\* A list takes every point; without it a point is refused only beside, or on,
\* one that was accepted.
RefusedBeside ==
    \A p \in Points : ~AddNode(root, << p >>).ok =>
        ~be_list /\ \E q \in Accepted : Covers(Grown(Bound(p[1], p[2], p[1], p[2])), q)

\* The search for the nearest point ends, says "not found" only when the square
\* of the largest radius is empty, and is off by less than the root of two: it
\* compares the points of a square, and a point beside it may be nearer than
\* one in its corner.
NearestClose ==
    ~Chained(root) => \A p \in Points : \A max \in 1 .. 2 :
        LET found == SearchForNearestPoint(p, max)
        IN  IF found = << >> THEN \A q \in Accepted : ~Covers(Around(p, max), q)
            ELSE /\ found \in Accepted
                 /\ \A q \in Accepted : distance(p, found) <= 2 * distance(p, q)

QuadTreeSound == PlainExact /\ ChainedNear /\ RefusedBeside /\ NearestClose
=============================================================================
