----------------------------- MODULE LinkedList -----------------------------
(***************************************************************************)
(* The doubly linked list of MYSTL (list.h): a list with its two sentinels *)
(* and the calls that relink it; and the singly linked list of             *)
(* list_algorithm.cc. Reverse() turns succ_ round and leaves the pred_ of  *)
(* the first and the last node and of trailer_ wrong: only calls that      *)
(* follow succ_ alone go on after it. A call that would follow NULL, and   *)
(* what sort, Reverse, Rotate and deduplicate do to an empty list, are     *)
(* left out, as are IsConverge, which no compiler takes, and insertionSort,*)
(* which nothing calls.                                                    *)
(***************************************************************************)
EXTENDS Integers, Sequences, SequencesExt, FiniteSets, FiniteSetsExt

CONSTANTS Values, MaxSize

VARIABLES list,     \* the nodes' fields, and size_
          order,    \* the values it should hold
          mangled   \* Reverse() was called on two nodes or more
vars == << list, order, mangled >>

Header  == 0
Trailer == MaxSize + 1
NULL    == -1
Default == 0    \* T(), which the sentinels hold
Nodes   == 1 .. MaxSize

TypeOK ==
    /\ list.val \in UNION {[S -> Values \cup {Default}] : S \in SUBSET Nodes} /\ list.size \in 0 .. MaxSize
    /\ order \in Seq(Values \cup {Default}) /\ mangled \in BOOLEAN

EmptyList ==
    [val |-> << >>, size |-> 0,
     succ |-> [n \in Header .. Trailer |-> IF n = Header THEN Trailer ELSE NULL],
     pred |-> [n \in Header .. Trailer |-> IF n = Trailer THEN Header ELSE NULL]]
Init == list = EmptyList /\ order = << >> /\ mangled = FALSE

-----------------------------------------------------------------------------
(* Walking and linking.                                                    *)

First(l)  == l.succ[Header]
LastOf(l) == l.pred[Trailer]

\* The nodes on the way along links from node n to the sentinel end; a way longer
\* than the list is cut.
RECURSIVE Way(_, _, _, _)
Way(links, n, end, max) ==
    IF n \in {end, NULL} \/ max = 0 THEN << >> ELSE << n >> \o Way(links, links[n], end, max - 1)
Forward(l)  == Way(l.succ, First(l), Trailer, Trailer)
Backward(l) == Way(l.pred, LastOf(l), Header, Trailer)
ValuesOf(l, way) == [i \in DOMAIN way |-> l.val[way[i]]]

\* A new node between p and n.
Linked(l, p, n, v) ==
    LET new == Min(Nodes \ DOMAIN l.val)
    IN  [val  |-> [m \in DOMAIN l.val \cup {new} |-> IF m = new THEN v ELSE l.val[m]],
         size |-> l.size + 1,
         succ |-> [l.succ EXCEPT ![new] = n, ![p] = new],
         pred |-> [l.pred EXCEPT ![new] = p, ![n] = new]]
InsertAsSucc(l, p, v) == Linked(l, p, l.succ[p], v)
InsertAsPred(l, p, v) == Linked(l, l.pred[p], p, v)
InsertAsLast(l, v)    == InsertAsSucc(l, LastOf(l), v)

\* Mutant: the successor goes on pointing back to the node that is freed.
RemovedForward(l, p) ==
    [val |-> [m \in DOMAIN l.val \ {p} |-> l.val[m]], size |-> l.size - 1,
     succ |-> [l.succ EXCEPT ![l.pred[p]] = l.succ[p], ![p] = NULL], pred |-> l.pred]

Removed(l, p) ==
    [val  |-> [m \in DOMAIN l.val \ {p} |-> l.val[m]], size |-> l.size - 1,
     succ |-> [l.succ EXCEPT ![l.pred[p]] = l.succ[p], ![p] = NULL],
     pred |-> [l.pred EXCEPT ![l.succ[p]] = l.pred[p], ![p] = NULL]]

SwapValues(l, m, n) == [l EXCEPT !.val[m] = l.val[n], !.val[n] = l.val[m]]

-----------------------------------------------------------------------------
(* Calls that only read.                                                   *)

\* Among the n nodes that end with p, the last one that holds e.
RECURSIVE Find(_, _, _, _)
Find(l, e, n, p) ==
    IF l.val[p] = e THEN p ELSE IF n = 1 THEN NULL ELSE Find(l, e, n - 1, l.pred[p])

\* The last one that holds no more than e; the n-th when there is none.
RECURSIVE Search(_, _, _, _)
Search(l, e, n, p) == IF n = 1 \/ l.val[p] <= e THEN p ELSE Search(l, e, n - 1, l.pred[p])

Disordered(l) ==
    Cardinality({n \in DOMAIN l.val : l.succ[n] # Trailer /\ l.val[n] > l.val[l.succ[n]]})

TwoOn(l, n) == IF l.succ[n] # Trailer THEN l.succ[l.succ[n]] ELSE l.succ[n]

RECURSIVE Middle(_, _, _)
Middle(l, slow, fast) == IF fast = Trailer THEN slow ELSE Middle(l, l.succ[slow], TwoOn(l, fast))
MiddleNode(l) == Middle(l, First(l), TwoOn(l, First(l)))

RECURSIVE Chase(_, _, _)
Chase(l, slow, fast) ==
    fast # Trailer /\ (slow = fast \/ Chase(l, l.succ[slow], TwoOn(l, fast)))
IsLoop(l) ==
    First(l) # Trailer /\ (l.succ[First(l)] = First(l) \/ Chase(l, First(l), TwoOn(l, First(l))))
MakeLoop(l, from) == [l EXCEPT !.succ[LastOf(l)] = Forward(l)[from]]

\* fast goes n nodes ahead, or as far as it can, before slow leaves the header.
RECURSIVE Together(_, _, _)
Together(l, slow, fast) == IF fast = Trailer THEN slow ELSE Together(l, l.succ[slow], l.succ[fast])
Ahead(l, n)  == (<< Header >> \o Forward(l) \o << Trailer >>)[Min({n, l.size + 1}) + 1]
LastN(l, n)  == Together(l, Header, Ahead(l, n))

-----------------------------------------------------------------------------
(* Calls that change the list.                                             *)

\* From the end on, each node gets the last of the largest values before it.
SelectionSort(l) ==
    LET way == Forward(l)
        LastMax(m, k) == Max({i \in 1 .. k : \A j \in 1 .. k : m.val[way[j]] <= m.val[way[i]]})
    IN  FoldLeft(LAMBDA m, k : SwapValues(m, way[LastMax(m, k)], way[k]), l,
                 [i \in 1 .. Len(way) - 1 |-> Len(way) + 1 - i])

\* last ends the nodes, n of them, that differ from each other.
RECURSIVE Deduplicated(_, _, _)
Deduplicated(l, last, n) ==
    LET u == l.succ[last]
    IN  IF u = Trailer THEN l
        ELSE IF Find(l, l.val[u], n, last) # NULL THEN Deduplicated(Removed(l, u), last, n)
        ELSE Deduplicated(l, u, n + 1)

RECURSIVE SwapEnds(_, _, _)
SwapEnds(l, f, e) ==
    IF f = e \/ l.pred[f] = e THEN l ELSE SwapEnds(SwapValues(l, f, e), l.succ[f], l.pred[e])

\* The nodes after the first move ones come to the front.
Rotated(l, n) ==
    LET way   == Forward(l)  move == n % l.size
        front == way[move + 1]  last == way[l.size]
    IN  IF move = 0 THEN l
        ELSE [l EXCEPT !.succ = [@ EXCEPT ![Header] = front, ![last] = way[1], ![way[move]] = Trailer],
                       !.pred = [@ EXCEPT ![front] = Header, ![way[1]] = last, ![Trailer] = way[move]]]

RECURSIVE Relinked(_, _, _)
Relinked(l, front, mid) ==
    IF mid = Trailer THEN [l EXCEPT !.succ[Header] = front]
    ELSE Relinked([l EXCEPT !.succ[mid] = front, !.pred[mid] = l.succ[mid]], mid, l.succ[mid])
Reversed(l) == Relinked([l EXCEPT !.succ[First(l)] = Trailer], First(l), l.succ[First(l)])

\* A new list of n values from node p of l on. copyNodes looks out for the trailer_ of
\* the new list, so that of l is a node like the others to it.
RECURSIVE CopyNodes(_, _, _, _)
CopyNodes(new, l, p, n) ==
    IF n = 0 THEN new
    ELSE CopyNodes(InsertAsLast(new, IF p = Trailer THEN Default ELSE l.val[p]), l, l.succ[p], n - 1)

-----------------------------------------------------------------------------
(* The calls.                                                              *)

Becomes(l, s) == list' = l /\ order' = s /\ UNCHANGED mangled

Insert(k, v) ==
    /\ ~mangled /\ list.size < MaxSize
    /\ \/ /\ k > 0 /\ Becomes(InsertAsSucc(list, Forward(list)[k], v), InsertAt(order, k + 1, v))
       \/ /\ k > 0 /\ Becomes(InsertAsPred(list, Forward(list)[k], v), InsertAt(order, k, v))
       \/ Becomes(InsertAsPred(list, First(list), v), << v >> \o order)
       \/ Becomes(InsertAsLast(list, v), Append(order, v))

RemovePos(k) ==
    ~mangled /\ k > 0 /\ Becomes(Removed(list, Forward(list)[k]), RemoveAt(order, k))

\* Nothing goes when there is no n-th node from the end.
RemoveLastN(n) ==
    /\ ~mangled
    /\ Becomes(IF LastN(list, n) = Header THEN list ELSE Removed(list, LastN(list, n)),
               IF n > Len(order) THEN order ELSE RemoveAt(order, Len(order) + 1 - n))

Rotate(n) ==
    /\ ~mangled /\ order # << >>
    /\ LET m == n % Len(order)
       IN  Becomes(Rotated(list, n), SubSeq(order, m + 1, Len(order)) \o SubSeq(order, 1, m))

Rearrange ==
    /\ ~mangled /\ order # << >>
    /\ \/ Becomes(SelectionSort(list), SortSeq(order, <))
       \/ Becomes(SwapEnds(list, First(list), LastOf(list)), Reverse(order))
       \/ Becomes(Deduplicated(list, First(list), 1),
                  FoldLeft(LAMBDA s, v : IF Contains(s, v) THEN s ELSE Append(s, v), << >>, order))

\* The constructor for n values from the r-th on: r has gone down to -1 when it counts
\* n - r - 1. One value too many is the default value, two would follow NULL.
CopyPart(r, n) ==
    /\ ~mangled /\ r <= Len(order) /\ n <= Len(order) - r + 1
    /\ Becomes(CopyNodes(EmptyList, list, Append(Forward(list), Trailer)[r + 1], n),
               SubSeq(Append(order, Default), r + 1, r + n))

ReverseLinks ==
    /\ order # << >>
    /\ list' = Reversed(list) /\ order' = Reverse(order) /\ mangled' = (mangled \/ Len(order) > 1)

Next ==
    \/ \E k \in 0 .. list.size, v \in Values : Insert(k, v)
    \/ \E k \in 0 .. list.size : RemovePos(k)
    \/ \E n \in 1 .. MaxSize + 1 : RemoveLastN(n) \/ Rotate(n)
    \/ \E r \in 0 .. MaxSize, n \in 0 .. MaxSize : CopyPart(r, n)
    \/ Rearrange \/ ReverseLinks
Spec == Init /\ [][Next]_vars

-----------------------------------------------------------------------------
(* list_algorithm.cc: the nodes 1, 2, ... of a chain, next of the last one *)
(* 0 or, after MakeCircle, an earlier node; the node head counts as first. *)

Chain(n, back) == [i \in 1 .. n |-> IF i < n THEN i + 1 ELSE back]

\* Where fast, two nodes at a time, meets slow; 0 when it comes to the end.
RECURSIVE Meet(_, _, _)
Meet(next, slow, fast) ==
    IF fast = 0 THEN 0 ELSE IF next[fast] = 0 THEN 0
    ELSE IF next[next[fast]] = next[slow] THEN next[slow]
    ELSE Meet(next, next[slow], next[next[fast]])
IsCircle(next) == Meet(next, next[1], next[1])

RECURSIVE JoinPoint(_, _, _)
JoinPoint(next, start, end) ==
    IF start = end THEN start ELSE JoinPoint(next, next[start], next[end])
FindJoinCircleStart(next) ==
    IF IsCircle(next) = 0 THEN 0 ELSE JoinPoint(next, next[1], IsCircle(next))

RECURSIVE Turned(_, _, _)
Turned(next, prev, cur) ==
    IF cur = 0 THEN [next |-> next, head |-> prev]
    ELSE Turned([next EXCEPT ![cur] = prev], cur, next[cur])
ReverseChain(next) == Turned([next EXCEPT ![1] = 0], 1, next[1])

-----------------------------------------------------------------------------
(* Properties.                                                             *)

\* The first k nodes of a chain of n, back to the k-th: a circle is found where it is
\* joined, and none where there is none; Reverse turns the chain round.
ChainsSound ==
    \A n \in 2 .. MaxSize + 3 :
        /\ FindJoinCircleStart(Chain(n, 0)) = 0
        /\ \A back \in 2 .. n : FindJoinCircleStart(Chain(n, back)) = back
        /\ LET r == ReverseChain(Chain(n, 0)) IN Way(r.next, r.head, 0, n + 1) = [i \in 1 .. n |-> n + 1 - i]

\* What the calls that read find in a list whose links are in order.
ReadsRight ==
    LET n == Len(order)  at(node) == IF node \in Nodes THEN list.val[node] ELSE NULL
    IN  /\ \A i \in 1 .. n : at(LastN(list, i)) = order[n + 1 - i]
        /\ LastN(list, n + 1) = Header /\ LastN(list, n + 2) = Header /\ ~IsLoop(list)
        /\ n > 0 =>
             /\ MiddleNode(list) = Forward(list)[(n + 1) \div 2]
             /\ \A from \in 1 .. n : IsLoop(MakeLoop(list, from))
             /\ \A v \in Values : LET hits == {i \in 1 .. n : order[i] = v}
                IN  Find(list, v, n, LastOf(list)) = IF hits = {} THEN NULL ELSE Forward(list)[Max(hits)]
             /\ Disordered(list) = 0 => \A v \in Values :
                    LET low == {i \in 1 .. n : order[i] <= v}
                    IN  Search(list, v, n, LastOf(list)) = Forward(list)[Max(low \cup {1})]

\* Whatever is inserted, removed, sorted, rotated and reversed in whatever order, the
\* values met along succ_ and size_ are those the calls should leave; along pred_ they
\* are the same backwards, until Reverse(); and what is read is right.
ListSound ==
    /\ ValuesOf(list, Forward(list)) = order /\ list.size = Len(order)
    /\ ~mangled => Backward(list) = Reverse(Forward(list)) /\ ReadsRight
    /\ order = << >> => ChainsSound
=============================================================================
