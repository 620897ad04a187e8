----------------------------- MODULE MatrixGraph -----------------------------
(***************************************************************************)
(* The graph of MYSTL/matrixGraph.h and the traversals of MYSTL/graph.h.   *)
(* Vertices are numbered from 1, and 0 stands for the code's -1. E is the  *)
(* adjacency matrix, TRUE for an edge record. A traversal resets what it   *)
(* writes into vertices and edges before it starts, so that is its result  *)
(* here and not part of the state.                                         *)
(*                                                                         *)
(* remove(i) of a vertex drops column i only from rows with an edge to i,  *)
(* asks only for i smaller than the new n, counts down the degrees of the  *)
(* vertices before the shift, and leaves e (matrixGraph.h:143): after it   *)
(* the edges and degrees are those of no graph anyone built.               *)
(***************************************************************************)
EXTENDS Integers, Sequences, FiniteSets, SequencesExt, FiniteSetsExt

CONSTANTS MaxVertices,
          MaxInserted   \* bound: vertices ever inserted

VARIABLES V,         \* the degrees of each vertex
          E, e,
          inserted
vars == << V, E, e, inserted >>

n == Len(V)
Vertices == 1 .. n
Exist(i, j) == i \in Vertices /\ j \in Vertices /\ E[i][j]

\* firstNbr(i) is NextNbr(i, n + 1): neighbours come from the last to the first.
NextNbr(i, j) == Max({0} \cup {k \in 1 .. j - 1 : Exist(i, k)})

-----------------------------------------------------------------------------
(* Traversals: t is what one has written so far.                            *)

Reset ==
    [status |-> [i \in Vertices |-> "UNDISCOVERED"],
     dTime  |-> [i \in Vertices |-> -1],
     fTime  |-> [i \in Vertices |-> -1],
     parent |-> [i \in Vertices |-> 0],
     edge   |-> [p \in {q \in Vertices \X Vertices : Exist(q[1], q[2])} |-> "UNDETERMINED"],
     clock  |-> 0]

Discover(t, v) ==
    [t EXCEPT !.status[v] = "DISCOVERED", !.dTime[v] = t.clock + 1, !.clock = @ + 1]

\* The neighbours of v from u on, for BFS: r has the queue and what is written.
RECURSIVE Enqueue(_, _, _)
Enqueue(v, u, r) ==
    IF u = 0 THEN r
    ELSE Enqueue(v, NextNbr(v, u),
           IF r.t.status[u] = "UNDISCOVERED"
           THEN [queue |-> Append(r.queue, u),
                 t |-> [r.t EXCEPT !.status[u] = "DISCOVERED", !.edge[<< v, u >>] = "TREE",
                                   !.parent[u] = v]]
           ELSE [r EXCEPT !.t.edge[<< v, u >>] = "CROSS"])

RECURSIVE BFS(_, _)
BFS(queue, t) ==
    IF queue = << >> THEN t
    ELSE LET v == Head(queue)
             r == Enqueue(v, NextNbr(v, n + 1), [queue |-> Tail(queue), t |-> Discover(t, v)])
         IN  BFS(r.queue, [r.t EXCEPT !.status[v] = "VISITED"])

RECURSIVE DFS(_, _), Descend(_, _, _)
DFS(v, t) ==
    LET d == Descend(v, NextNbr(v, n + 1), Discover(t, v))
    IN  [d EXCEPT !.status[v] = "VISITED", !.fTime[v] = d.clock + 1, !.clock = @ + 1]

Descend(v, u, t) ==
    IF u = 0 THEN t
    ELSE LET Mark(s) == [t EXCEPT !.edge[<< v, u >>] = s]
         IN  Descend(v, NextNbr(v, u),
               CASE t.status[u] = "UNDISCOVERED" -> DFS(u, [Mark("TREE") EXCEPT !.parent[u] = v])
                 [] t.status[u] = "DISCOVERED"   -> Mark("BACKWARD")
                 [] t.status[u] = "VISITED"      ->
                        Mark(IF t.dTime[v] < t.dTime[u] THEN "FORWARD" ELSE "CROSS"))

\* bfs(s) and dfs(s): each vertex from s on and around that is still undiscovered.
From(s) == [i \in Vertices |-> ((s + i - 2) % n) + 1]

bfs(s) ==
    FoldLeft(LAMBDA t, v : IF t.status[v] = "UNDISCOVERED"
                           THEN BFS(<< v >>, [t EXCEPT !.status[v] = "DISCOVERED"]) ELSE t,
             Reset, From(s))
dfs(s) == FoldLeft(LAMBDA t, v : IF t.status[v] = "UNDISCOVERED" THEN DFS(v, t) ELSE t,
                   Reset, From(s))

-----------------------------------------------------------------------------
(* Actions.                                                                 *)

Init == V = << >> /\ E = << >> /\ e = 0 /\ inserted = 0

InsertVertex ==
    /\ n < MaxVertices /\ inserted < MaxInserted
    /\ E' = Append([i \in Vertices |-> Append(E[i], FALSE)], [j \in 1 .. n + 1 |-> FALSE])
    /\ V' = Append(V, [inDegree |-> 0, outDegree |-> 0])
    /\ inserted' = inserted + 1
    /\ UNCHANGED e

RemoveVertex(i) ==
    LET rows     == RemoveAt(E, i)
        Hits(j)  == j < n /\ i < n /\ rows[j][i]
    IN  /\ E' = [j \in 1 .. n - 1 |-> IF Hits(j) THEN RemoveAt(rows[j], i) ELSE rows[j]]
        /\ V' = RemoveAt([j \in Vertices |->
                    [inDegree  |-> V[j].inDegree - (IF Exist(i, j) THEN 1 ELSE 0),
                     outDegree |-> V[j].outDegree - (IF Hits(j) THEN 1 ELSE 0)]], i)
        /\ UNCHANGED << e, inserted >>

InsertEdge(i, j) ==
    /\ ~Exist(i, j)
    /\ E' = [E EXCEPT ![i][j] = TRUE]
    /\ e' = e + 1
    /\ V' = LET out == [V EXCEPT ![i].outDegree = @ + 1] IN [out EXCEPT ![j].inDegree = @ + 1]
    /\ UNCHANGED inserted

RemoveEdge(i, j) ==
    /\ Exist(i, j)
    /\ E' = [E EXCEPT ![i][j] = FALSE]
    /\ e' = e - 1
    /\ V' = LET out == [V EXCEPT ![i].outDegree = @ - 1] IN [out EXCEPT ![j].inDegree = @ - 1]
    /\ UNCHANGED inserted

Next ==
    \/ InsertVertex
    \/ \E i \in Vertices : RemoveVertex(i)
    \/ \E i, j \in Vertices : InsertEdge(i, j) \/ RemoveEdge(i, j)

Spec == Init /\ [][Next]_vars

-----------------------------------------------------------------------------
(* Properties.                                                              *)

Edges == {p \in Vertices \X Vertices : Exist(p[1], p[2])}

\* No access goes past a row, whatever was removed; and until a vertex is, the
\* counters are those of the matrix.
MatrixSound ==
    /\ Len(E) = n /\ \A i \in Vertices : Len(E[i]) >= n
    /\ inserted = n =>
           /\ e = Cardinality(Edges)
           /\ \A i \in Vertices :
                  /\ V[i].inDegree = Cardinality({p \in Edges : p[2] = i})
                  /\ V[i].outDegree = Cardinality({p \in Edges : p[1] = i})

\* The vertices at most k edges from s.
RECURSIVE Within(_, _)
Within(s, k) ==
    IF k = 0 THEN {s}
    ELSE LET near == Within(s, k - 1) IN near \cup {p[2] : p \in {q \in Edges : q[1] \in near}}

RECURSIVE Depth(_, _)
Depth(t, v) == IF t.parent[v] = 0 THEN 0 ELSE 1 + Depth(t, t.parent[v])

\* Breadth first: every vertex is visited at a time of its own, the tree edges
\* are the parents', and in the tree of s a vertex is as deep as it is far.
BFSRight ==
    \A s \in Vertices :
        LET t == bfs(s)
        IN  /\ \A v \in Vertices : t.status[v] = "VISITED"
            /\ {t.dTime[v] : v \in Vertices} = Vertices
            /\ \A p \in Edges : t.edge[p] = (IF t.parent[p[2]] = p[1] THEN "TREE" ELSE "CROSS")
            /\ \A v \in Within(s, n), k \in 0 .. n : v \in Within(s, k) <=> Depth(t, v) <= k

RECURSIVE Above(_, _)
Above(t, v) == IF t.parent[v] = 0 THEN {} ELSE {t.parent[v]} \cup Above(t, t.parent[v])

\* Depth first: the times of an ancestor enclose those of its descendants and
\* no others, each edge is marked for what it is in the forest, and there is a
\* backward edge just when the graph has a cycle.
DFSRight ==
    \A s \in Vertices :
        LET t == dfs(s)
        IN  /\ {t.dTime[v] : v \in Vertices} \cup {t.fTime[v] : v \in Vertices} = 1 .. 2 * n
            /\ \A u, v \in Vertices :
                   u \in Above(t, v) <=> t.dTime[u] < t.dTime[v] /\ t.fTime[v] < t.fTime[u]
            /\ \A p \in Edges :
                   t.edge[p] = (IF t.parent[p[2]] = p[1] THEN "TREE"
                                ELSE IF p[2] \in Above(t, p[1]) \cup {p[1]} THEN "BACKWARD"
                                ELSE IF p[1] \in Above(t, p[2]) THEN "FORWARD" ELSE "CROSS")
            /\ (\E p \in Edges : t.edge[p] = "BACKWARD")
               <=> \E p \in Edges : p[1] \in Within(p[2], n)

GraphSound == MatrixSound /\ BFSRight /\ DFSRight
=============================================================================
