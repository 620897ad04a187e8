------------------------------ MODULE RedBlack ------------------------------
(***************************************************************************)
(* rb_tree.h: red-black insertion over nodes with parents. A tree is a     *)
(* record of its nodes, its root and whether the program still runs; of    *)
(* whether InsertCase met a node that is bent (zig-zag) to its grandparent,*)
(* where it rotates at the node and not at its parent; and of the nodes    *)
(* that RotateRight was called for, with the number of nodes at the time.  *)
(* RotateRight gives its node the left child of the child that goes up,    *)
(* where it should give it the right one: the first then hangs from two    *)
(* nodes, the second from none, a key that is there may be inserted again, *)
(* and with more rotations the nodes can come to hang in a circle.         *)
(***************************************************************************)
EXTENDS Integers, Sequences, SequencesExt, FiniteSets, FiniteSetsExt

CONSTANTS Keys,
          MaxNodes   \* bound: how many nodes are made

VARIABLES tree, kept
vars == << tree, kept >>

NULL == 0

Init == tree = [node |-> << >>, root |-> NULL, runs |-> TRUE, bent |-> FALSE,
                turned |-> {}]
        /\ kept = << >>

Crashed(t) == [t EXCEPT !.runs = FALSE]
Other(side) == IF side = "left" THEN "right" ELSE "left"
Sets(t, n, field, x) == IF n = NULL THEN t ELSE [t EXCEPT !.node[n][field] = x]
\* A color is written through a pointer that may be NULL.
Paint(t, n, red) == IF n = NULL THEN Crashed(t) ELSE [t EXCEPT !.node[n].red = red]
IsRed(t, n) == n # NULL /\ t.node[n].red

\* RotateLeft for side "left": the child on the other side takes the place of n, and
\* on either side n takes the left child of it.
Rotate(t, n, side) ==
    LET c  == t.node[n][Other(side)]
        p  == t.node[n].parent
        t1 == Sets(Sets(t, n, Other(side), t.node[c].left), t.node[c][side], "parent", n)
        t2 == [Sets(t1, c, "parent", p) EXCEPT
                  !.turned = @ \cup (IF side = "right" THEN {<< n, Len(t.node) >>} ELSE {})]
        t3 == IF t.root = n THEN [t2 EXCEPT !.root = c]
              ELSE Sets(t2, p, IF t1.node[p][side] = n THEN side ELSE Other(side), c)
    IN  IF ~t.runs \/ n = NULL THEN Crashed(t)
        ELSE IF c = NULL \/ (p = NULL /\ t.root # n) THEN Crashed(t)
        ELSE Sets(Sets(t3, c, side, n), n, "parent", c)

\* The grandparent of n, by now or after a rotation; there may be none.
Above(t, n) == IF t.node[n].parent = NULL THEN NULL ELSE t.node[t.node[n].parent].parent

\* n, its parent and its grandparent are in line, on this side.
Straight(t, n, side) ==
    LET t1 == Paint(Paint(t, t.node[n].parent, FALSE), Above(t, n), TRUE)
    IN  Rotate(t1, Above(t1, n), Other(side))

\* n is on the other side of its parent than the parent, which is on this side.
Bent(t, n, side) ==
    LET t1 == Rotate([t EXCEPT !.bent = TRUE], n, side)
        t2 == Paint(t1, n, FALSE)
        t3 == Paint(Paint(t2, t2.node[n].left, TRUE), t2.node[n].right, TRUE)
    IN  IF ~t1.runs \/ ~t3.runs THEN Crashed(t3) ELSE Rotate(t3, Above(t3, n), Other(side))

\* The ways n and its parent can hang, in the order in which InsertCase looks for them.
Ways == << << "right", "left" >>, << "left", "right" >>, << "left", "left" >>, << "right", "right" >> >>

RECURSIVE InsertCase(_, _)
InsertCase(t, n) ==
    LET p    == t.node[n].parent
        g    == Above(t, n)
        u    == IF t.node[g].left = p THEN t.node[g].right ELSE t.node[g].left
        ways == {i \in 1 .. 4 : t.node[p][Ways[i][1]] = n /\ t.node[g][Ways[i][2]] = p}
        side == Ways[Min(ways)][2]
    IN  IF p = NULL THEN Paint([t EXCEPT !.root = n], n, FALSE)
        ELSE IF t.root = n \/ ~IsRed(t, p) THEN t
        ELSE IF g = NULL THEN Crashed(t)
        ELSE IF IsRed(t, u) THEN InsertCase(Paint(Paint(Paint(t, p, FALSE), u, FALSE), g, TRUE), g)
        ELSE IF ways = {} THEN t
        ELSE IF Ways[Min(ways)][1] = side THEN Straight(t, n, side) ELSE Bent(t, n, side)

NewNode(k, p) == [obj |-> k, red |-> TRUE, parent |-> p, left |-> NULL, right |-> NULL]

RECURSIVE InsertValue(_, _, _)
InsertValue(t, n, k) ==
    LET side == IF k < t.node[n].obj THEN "left" ELSE "right"
        new  == Len(t.node) + 1
    IN  IF k = t.node[n].obj THEN t
        ELSE IF t.node[n][side] # NULL THEN InsertValue(t, t.node[n][side], k)
        ELSE InsertCase([t EXCEPT !.node = Append([@ EXCEPT ![n][side] = new], NewNode(k, n))], new)

Insert(k) ==
    /\ tree.runs /\ Len(tree.node) < MaxNodes /\ kept' = kept \o << k >>
    /\ k \notin ToSet(kept)
    /\ tree' = IF tree.root = NULL
               THEN [tree EXCEPT !.node = << [NewNode(k, NULL) EXCEPT !.red = FALSE] >>, !.root = 1]
               ELSE InsertValue(tree, tree.root, k)

\* A key that is there changes nothing, where it is found.
Again(k) ==
    /\ tree.runs /\ Len(tree.node) < MaxNodes /\ k \in ToSet(kept)
    /\ tree' = InsertValue(tree, tree.root, k) /\ UNCHANGED kept

Next == \E k \in Keys : Insert(k) \/ Again(k)
Spec == Init /\ [][Next]_vars

-----------------------------------------------------------------------------
(* Properties.                                                             *)

RECURSIVE MidTraver(_, _), BlackHeights(_, _)
MidTraver(t, n) ==
    IF n = NULL THEN << >>
    ELSE MidTraver(t, t.node[n].left) \o << t.node[n].obj >> \o MidTraver(t, t.node[n].right)
\* The numbers of black nodes on the ways from n down.
BlackHeights(t, n) ==
    IF n = NULL THEN {0}
    ELSE {h + (IF t.node[n].red THEN 0 ELSE 1) :
              h \in BlackHeights(t, t.node[n].left) \cup BlackHeights(t, t.node[n].right)}

\* The rules in the comments of rb_tree.h.
Rules(t) ==
    /\ ~IsRed(t, t.root)
    /\ \A n \in DOMAIN t.node : t.node[n].red =>
           ~IsRed(t, t.node[n].left) /\ ~IsRed(t, t.node[n].right)
    /\ Cardinality(BlackHeights(t, t.root)) = 1

\* Those that take n for their parent and that n does not have.
Orphans(n) == {m \in DOMAIN tree.node :
                  tree.node[m].parent = n /\ m \notin {tree.node[n].left, tree.node[n].right}}
\* With the one wrong link put right.
Mended(n) == [tree EXCEPT !.node[n].left = IF Orphans(n) = {} THEN NULL
                                           ELSE CHOOSE m \in Orphans(n) : TRUE]

\* Before RotateRight was called the tree, and after the insertion that first calls it
\* the tree but for the left child of the node it was called for, holds the keys in
\* order as long as the program runs; and as long as no node was bent to its grandparent
\* it runs and keeps the rules. Of what comes after that nothing is said.
RedBlackSound ==
    LET Sound(t) == /\ t.runs => MidTraver(t, t.root) = SortSeq(kept, <)
                    /\ ~t.bent => t.runs /\ Rules(t)
    IN  /\ tree.turned = {} => Sound(tree)
        /\ \A n \in DOMAIN tree.node :
               tree.turned = {<< n, Len(tree.node) >>} => Cardinality(Orphans(n)) <= 1 /\ Sound(Mended(n))
=============================================================================
