---------------------------- MODULE AvlPointers ----------------------------
(***************************************************************************)
(* avl_tree.h: nodes in memory with their heights and parents, as Insert   *)
(* and Delete leave them. RotateRR hangs the middle subtree on the wrong   *)
(* parent, Delete goes by parents and restores no balance: a node it frees *)
(* may still be pointed to, and the model stops there. Nodes that Insert   *)
(* allocates on its way down and never links are left out.                 *)
(***************************************************************************)
EXTENDS Integers, Sequences, SequencesExt, FiniteSets, FiniteSetsExt, Functions

CONSTANTS Keys, Addresses

VARIABLES mem, root,  \* address -> node; 0 is NULL
          kept,       \* the keys put in and not taken out
          deleted     \* Delete took a node out before
vars == << mem, root, kept, deleted >>

NULL == 0
Alive == DOMAIN mem

TypeOK ==
    /\ Alive \subseteq Addresses /\ root \in Addresses \cup {NULL}
    /\ kept \subseteq Keys /\ deleted \in BOOLEAN
    /\ \A a \in Alive : mem[a].obj \in Keys /\ mem[a].height \in 1 .. Cardinality(Addresses)

Init == mem = << >> /\ root = NULL /\ kept = {} /\ deleted = FALSE

\* A node that was freed may have any height; who reads it is left with the pointer.
GetHeight(m, n) == IF n \in DOMAIN m THEN m[n].height ELSE 0
IsBalance(m, n) == GetHeight(m, m[n].left) - GetHeight(m, m[n].right) \in -1 .. 1
Measured(m, n)  ==
    [m EXCEPT ![n].height = Max({GetHeight(m, m[n].left), GetHeight(m, m[n].right)}) + 1]
Hang(m, c, p)   == IF c = NULL THEN m ELSE [m EXCEPT ![c].parent = p]

-----------------------------------------------------------------------------
(* Insert.                                                                 *)

\* Mutant: the middle subtree is dropped.
RotateLLDropping(m, a) ==
    LET b  == m[a].left
        m1 == [m EXCEPT ![b].parent = m[a].parent, ![b].right = a,
                        ![a].parent = b, ![a].left = NULL]
    IN  [m |-> Measured(Measured(m1, a), b), n |-> b]

RotateLL(m, a) ==
    LET b  == m[a].left
        c  == m[b].right
        m1 == [m EXCEPT ![b].parent = m[a].parent, ![b].right = a,
                        ![a].parent = b, ![a].left = c]
    IN  [m |-> Measured(Measured(Hang(m1, c, a), a), b), n |-> b]

\* c becomes a child of a and is told that b is its parent.
RotateRR(m, a) ==
    LET b  == m[a].right
        c  == m[b].left
        m1 == [m EXCEPT ![b].parent = m[a].parent, ![b].left = a,
                        ![a].parent = b, ![a].right = c]
    IN  [m |-> Measured(Measured(Hang(m1, c, b), a), b), n |-> b]

RotateLR(m, a) ==
    LET s == RotateRR(m, m[a].left) IN RotateLL([s.m EXCEPT ![a].left = s.n], a)
RotateRL(m, a) ==
    LET s == RotateLL(m, m[a].right) IN RotateRR([s.m EXCEPT ![a].right = s.n], a)

\* Of the subtree at n, in which v was put on the left, or on the right.
LeftRotated(m, n, v) ==
    IF IsBalance(m, n) \/ v = m[m[n].left].obj THEN [m |-> m, n |-> n]
    ELSE IF v < m[m[n].left].obj THEN RotateLL(m, n) ELSE RotateLR(m, n)
RightRotated(m, n, v) ==
    IF IsBalance(m, n) \/ v = m[m[n].right].obj THEN [m |-> m, n |-> n]
    ELSE IF v < m[m[n].right].obj THEN RotateRL(m, n) ELSE RotateRR(m, n)

Fresh(m) == Min(Addresses \ DOMAIN m)
NewNode(v) == [obj |-> v, height |-> 1, parent |-> NULL, left |-> NULL, right |-> NULL]

RECURSIVE Inserted(_, _, _)
Inserted(m, n, v) ==
    IF n = NULL
    THEN [m |-> [a \in DOMAIN m \cup {Fresh(m)} |-> IF a \in DOMAIN m THEN m[a] ELSE NewNode(v)],
          n |-> Fresh(m)]
    ELSE IF v = m[n].obj THEN [m |-> Measured(m, n), n |-> n]
    ELSE LET s == Inserted(m, IF v < m[n].obj THEN m[n].left ELSE m[n].right, v)
             r == IF v < m[n].obj
                  THEN LeftRotated([Hang(s.m, s.n, n) EXCEPT ![n].left = s.n], n, v)
                  ELSE RightRotated([Hang(s.m, s.n, n) EXCEPT ![n].right = s.n], n, v)
         IN  [m |-> Measured(r.m, r.n), n |-> r.n]

-----------------------------------------------------------------------------
(* Delete.                                                                 *)

RECURSIVE LastRight(_, _), LastLeft(_, _)
LastRight(m, n) == IF m[n].right = NULL THEN n ELSE LastRight(m, m[n].right)
LastLeft(m, n)  == IF m[n].left = NULL THEN n ELSE LastLeft(m, m[n].left)
FindLeftMax(m, n)  == LastRight(m, m[n].left)
FindRightMin(m, n) == LastLeft(m, m[n].right)

IsLeaf(m, n) == m[n].left = NULL /\ m[n].right = NULL

\* The leaf n is taken off the node it thinks is its parent, and freed.
Freed(m, n) ==
    LET p  == m[n].parent
        m1 == IF p = NULL THEN m
              ELSE IF m[p].left = n THEN [m EXCEPT ![p].left = NULL]
              ELSE IF m[p].right = n THEN [m EXCEPT ![p].right = NULL] ELSE m
    IN  Restrict(m1, DOMAIN m \ {n})

\* A node with children takes over the key next to its own, whose node is deleted from
\* that node on; only the nodes the calls went through are measured again.
RECURSIVE Deleted(_, _, _)
Deleted(m, n, v) ==
    IF n = NULL THEN m
    ELSE IF v # m[n].obj
    THEN Measured(Deleted(m, IF v < m[n].obj THEN m[n].left ELSE m[n].right, v), n)
    ELSE IF IsLeaf(m, n) THEN Freed(m, n)
    ELSE LET w == IF m[n].right = NULL THEN FindLeftMax(m, n) ELSE FindRightMin(m, n)
         IN  Measured(Deleted([m EXCEPT ![n].obj = m[w].obj], w, m[w].obj), n)

\* A freed node is somebody's child or parent, or the root.
Targets(a) == {mem[a].left, mem[a].right, mem[a].parent} \ {NULL}
Broken     == root \notin Alive \cup {NULL} \/ \E a \in Alive : ~(Targets(a) \subseteq Alive)

-----------------------------------------------------------------------------

Insert(v) ==
    /\ ~Broken /\ (v \in kept \/ Cardinality(Alive) < Cardinality(Addresses))
    /\ LET r == Inserted(mem, root, v) IN mem' = r.m /\ root' = r.n
    /\ kept' = kept \cup {v}
    /\ UNCHANGED deleted

\* The pointer of the caller to the root stays as it was.
Delete(v) ==
    /\ ~Broken
    /\ mem' = Deleted(mem, root, v) /\ kept' = kept \ {v}
    /\ deleted' = (deleted \/ v \in kept)
    /\ UNCHANGED root

Next == \E v \in Keys : Insert(v) \/ Delete(v)
Spec == Init /\ [][Next]_vars

-----------------------------------------------------------------------------
(* Properties.                                                             *)

RECURSIVE MidTraver(_, _)
MidTraver(m, n) ==
    IF n = NULL THEN << >> ELSE MidTraver(m, m[n].left) \o << m[n].obj >> \o MidTraver(m, m[n].right)
RECURSIVE RealHeight(_)
RealHeight(n) ==
    IF n = NULL THEN 0 ELSE 1 + Max({RealHeight(mem[n].left), RealHeight(mem[n].right)})

\* Until a freed node is pointed to, the tree holds the keys put in and not deleted, in
\* order; and as long as none was deleted every node is balanced and knows its height.
AvlSound ==
    ~Broken => /\ MidTraver(mem, root) = SetToSortSeq(kept, <)
               /\ ~deleted => \A a \in Alive : IsBalance(mem, a) /\ mem[a].height = RealHeight(a)
=============================================================================
