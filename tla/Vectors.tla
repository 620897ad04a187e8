------------------------------- MODULE Vectors -------------------------------
(***************************************************************************)
(* vector.h of MYSTL: an array with its size and capacity, the calls that  *)
(* change it, and its sorting algorithms. A copy of an empty range has     *)
(* capacity 0, which doubling leaves at 0: the next insertion writes past  *)
(* the end (overrun), and there the model stops. operator= is not there:   *)
(* no compiler takes it. shrink() has no caller.                           *)
(***************************************************************************)
EXTENDS Integers, Sequences, SequencesExt, FiniteSets, FiniteSetsExt

CONSTANTS Values, MaxSize

VARIABLES elem,      \* the slots allocated, those after the size-th hold anything
          size,
          order,     \* the values it should hold
          emptyCopy, \* it was copied from an empty range, and nothing put in since
          overrun
vars == << elem, size, order, emptyCopy, overrun >>

Junk     == 0
Capacity == Len(elem)
Content  == SubSeq(elem, 1, size)

TypeOK ==
    /\ elem \in Seq(Values \cup {Junk}) /\ size \in 0 .. MaxSize
    /\ emptyCopy \in BOOLEAN /\ overrun \in BOOLEAN

DefaultCapacity == 3
Unset(n) == [i \in 1 .. n |-> Junk]

Init == elem = Unset(DefaultCapacity) /\ size = 0 /\ order = << >> /\ emptyCopy = FALSE /\ overrun = FALSE

-----------------------------------------------------------------------------
(* Sorting, on the range lo .. hi - 1 of the ranks 1, 2, ...               *)

Swap(a, i, j) == [a EXCEPT ![i] = a[j], ![j] = a[i]]
Upto(m, n)    == [k \in 1 .. n - m + 1 |-> m + k - 1]
Downto(m, n)  == [k \in 1 .. m - n + 1 |-> m - k + 1]

\* A sweep of swaps, and the rank where the last one was.
Swept(a, lo, hi) ==
    FoldLeft(LAMBDA s, i : IF s.arr[i - 1] > s.arr[i]
                           THEN [arr |-> Swap(s.arr, i - 1, i), last |-> i] ELSE s,
             [arr |-> a, last |-> lo], Upto(lo + 1, hi - 1))
RECURSIVE BubbleSort(_, _, _)
BubbleSort(a, lo, hi) ==
    LET s == Swept(a, lo, hi) IN IF lo < s.last THEN BubbleSort(s.arr, lo, s.last) ELSE s.arr

RECURSIVE Sunk(_, _, _)
Sunk(a, lo, i) == IF i > lo /\ a[i - 1] > a[i] THEN Sunk(Swap(a, i - 1, i), lo, i - 1) ELSE a
InsertionSort(a, lo, hi) == FoldLeft(LAMBDA b, i : Sunk(b, lo, i), a, Upto(lo + 1, hi - 1))

\* The last of the largest elements goes to the end.
LastMax(a, lo, last) == Max({i \in lo .. last : \A j \in lo .. last : a[j] <= a[i]})
SelectionSort(a, lo, hi) ==
    FoldLeft(LAMBDA b, last : Swap(b, LastMax(b, lo, last), last), a, Downto(hi - 1, lo))

RECURSIVE Merged(_, _)
Merged(b, c) ==
    IF b = << >> \/ c = << >> THEN b \o c
    ELSE IF Head(b) < Head(c) THEN << Head(b) >> \o Merged(Tail(b), c)
    ELSE << Head(c) >> \o Merged(b, Tail(c))
RECURSIVE MergeSort(_)
MergeSort(a) ==
    IF Len(a) <= 1 THEN a
    ELSE LET mi == Len(a) \div 2
         IN  Merged(MergeSort(SubSeq(a, 1, mi)), MergeSort(SubSeq(a, mi + 1, Len(a))))

\* The pivot, which rand picks, leaves a hole at start that is filled from both ends.
RECURSIVE LUG(_, _, _, _)
LUG(a, start, end, pivot) ==
    LET e  == Max({i \in start .. end : a[i] < pivot} \cup {start})
        a1 == [a EXCEPT ![start] = a[e]]
        s  == Min({i \in start .. e : a1[i] > pivot} \cup {e})
        a2 == [a1 EXCEPT ![e] = a1[s]]
    IN  IF s >= e THEN [arr |-> [a2 EXCEPT ![s] = pivot], at |-> s] ELSE LUG(a2, s, e, pivot)
PartitionLUG(a, lo, hi, r) == LUG(Swap(a, lo, r), lo, hi - 1, a[r])

\* Smaller elements are moved behind the pivot, which then changes place with the last.
PartitionLGU(a, lo, hi) ==
    LET end == FoldLeft(LAMBDA s, k : IF s.arr[k] < a[lo]
                                      THEN [arr |-> Swap(s.arr, s.at + 1, k), at |-> s.at + 1] ELSE s,
                        [arr |-> a, at |-> lo], Upto(lo + 1, hi - 1))
    IN  [end EXCEPT !.arr = Swap(@, end.at, lo)]
RECURSIVE QuickSort(_, _, _)
QuickSort(a, lo, hi) ==
    IF hi - lo <= 1 THEN a
    ELSE LET p == PartitionLGU(a, lo, hi) IN QuickSort(QuickSort(p.arr, lo, p.at), p.at + 1, hi)

\* Of equal ones the lowest: the right child before the left, and a child before idx.
Maxp2s(a, idx, n) ==
    LET family == {i \in {idx, 2 * idx, 2 * idx + 1} : i <= n}
        most   == {i \in family : \A j \in family : a[j] <= a[i]}
    IN  Max(most)
RECURSIVE DownFilter(_, _, _)
DownFilter(a, idx, n) ==
    LET m == Maxp2s(a, idx, n) IN IF m = idx THEN a ELSE DownFilter(Swap(a, idx, m), m, n)
HeapSort(a) ==
    IF a = << >> THEN a
    ELSE FoldLeft(LAMBDA b, hi : DownFilter(Swap(b, 1, hi), 1, hi - 1),
                  FoldLeft(LAMBDA b, i : DownFilter(b, i, Len(a)), a, Downto(Len(a) \div 2 + 1, 1)),
                  Downto(Len(a), 2))

-----------------------------------------------------------------------------
(* Searching and thinning out.                                             *)

\* The rank of the first e in lo .. hi - 1; 0 when there is none.
FindIn(a, e, lo, hi) ==
    LET hits == {i \in lo .. hi - 1 : a[i] = e} IN IF hits = {} THEN 0 ELSE Min(hits)

\* The last rank, in order, with no more than e.
RECURSIVE SearchIn(_, _, _, _)
SearchIn(a, e, lo, hi) ==
    LET mi == (lo + hi) \div 2
    IN  IF lo >= hi THEN lo - 1
        ELSE IF a[mi] <= e THEN SearchIn(a, e, mi + 1, hi) ELSE SearchIn(a, e, lo, mi)

\* deduplicate looks for an element among those before its neighbor, and takes out
\* the earlier one.
RECURSIVE DedupFrom(_, _)
DedupFrom(a, idx) ==
    IF idx > Len(a) THEN a
    ELSE LET pos == FindIn(a, a[idx], 1, idx - 1)
         IN  IF pos > 0 THEN DedupFrom(RemoveAt(a, pos), idx) ELSE DedupFrom(a, idx + 1)

\* uniquify leaves _size at the last rank it wrote, and so loses that element.
Uniquified(a) ==
    FoldLeft(LAMBDA b, j : IF Last(b) = a[j] THEN b ELSE Append(b, a[j]),
             SubSeq(a, 1, 1), Upto(2, Len(a)))

-----------------------------------------------------------------------------
(* The calls.                                                              *)

\* Twice the slots when all are taken.
Expanded == IF size = Capacity THEN elem \o Unset(Capacity) ELSE elem

Holds(s) == s \o SubSeq(elem, Len(s) + 1, Capacity)

Insert(r, e) ==
    /\ ~overrun /\ size < MaxSize
    /\ IF size = Len(Expanded) THEN overrun' = TRUE /\ UNCHANGED << elem, size, order, emptyCopy >>
       ELSE /\ elem' = [i \in DOMAIN Expanded |-> IF i < r \/ i > size + 1 THEN Expanded[i]
                                                  ELSE IF i = r THEN e ELSE Expanded[i - 1]]
            /\ size' = size + 1 /\ order' = InsertAt(order, r, e) /\ emptyCopy' = FALSE
            /\ UNCHANGED overrun

\* The elements from hi on move down to lo, the first not to be removed is hi.
RemoveRange(lo, hi) ==
    /\ ~overrun
    /\ elem' = [i \in DOMAIN elem |-> IF lo <= i /\ i < lo + size + 1 - hi THEN elem[i + hi - lo] ELSE elem[i]]
    /\ size' = size - (hi - lo)
    /\ order' = SubSeq(order, 1, lo - 1) \o SubSeq(order, hi, Len(order))
    /\ UNCHANGED << emptyCopy, overrun >>

\* What becomes of the elements in place.
InPlace(s) ==
    /\ ~overrun /\ elem' = Holds(s) /\ size' = Len(s) /\ order' = s
    /\ UNCHANGED << emptyCopy, overrun >>
Sort(lo, hi) ==
    /\ ~overrun /\ elem' = Holds(QuickSort(Content, lo, hi))
    /\ order' = SubSeq(order, 1, lo - 1) \o SortSeq(SubSeq(order, lo, hi - 1), <)
                                        \o SubSeq(order, hi, Len(order))
    /\ UNCHANGED << size, emptyCopy, overrun >>
Deduplicate == InPlace(DedupFrom(Content, 2))
Uniquify    == InPlace(IF size = 0 THEN << >> ELSE Front(Uniquified(Content)))
ReverseAll  ==
    InPlace(FoldLeft(LAMBDA a, s : Swap(a, s, size + 1 - s), Content, Upto(1, size \div 2)))
\* What rand can make of it: each place, from the last, changes with one up to it.
Shuffles(a) ==
    FoldLeft(LAMBDA S, i : {Swap(b, i, j) : b \in S, j \in 1 .. i}, {a}, Downto(Len(a), 1))
Unsort == \E s \in Shuffles(Content) : InPlace(s)

\* The copy takes the place of the vector.
CopyRange(lo, hi) ==
    /\ ~overrun
    /\ elem' = SubSeq(Content, lo, hi - 1) \o Unset(hi - lo) /\ size' = hi - lo
    /\ order' = SubSeq(order, lo, hi - 1) /\ emptyCopy' = (lo = hi)
    /\ UNCHANGED overrun

Ranges == {<< lo, hi >> \in (1 .. size + 1) \X (1 .. size + 1) : lo <= hi}
Next ==
    \/ \E r \in 1 .. size + 1, e \in Values : Insert(r, e)
    \/ \E lh \in Ranges : RemoveRange(lh[1], lh[2]) \/ Sort(lh[1], lh[2]) \/ CopyRange(lh[1], lh[2])
    \/ Unsort \/ Deduplicate \/ Uniquify \/ ReverseAll
Spec == Init /\ [][Next]_vars

-----------------------------------------------------------------------------
(* Properties.                                                             *)

\* Every algorithm of the file sorts the array, and so do the bubble, insertion and
\* selection sorts and quicksort a part of it.
AllSort(a) ==
    LET n == Len(a) + 1  sorted == SortSeq(a, <)
        part(lo, hi) == SubSeq(a, 1, lo - 1) \o SortSeq(SubSeq(a, lo, hi - 1), <) \o SubSeq(a, hi, Len(a))
    IN  /\ MergeSort(a) = sorted /\ HeapSort(a) = sorted
        /\ \A lo \in 1 .. n : \A hi \in lo .. n :
               /\ {BubbleSort(a, lo, hi), InsertionSort(a, lo, hi), SelectionSort(a, lo, hi),
                   QuickSort(a, lo, hi)} = {part(lo, hi)}
               /\ \A r \in lo .. hi - 1 :
                      LET p == PartitionLUG(a, lo, hi, r)
                      IN  /\ SortSeq(SubSeq(p.arr, lo, hi - 1), <) = SortSeq(SubSeq(a, lo, hi - 1), <)
                          /\ \A i \in lo .. hi - 1 : (i < p.at => p.arr[i] <= a[r])
                                                     /\ (i >= p.at => p.arr[i] >= a[r])

\* Searching the sorted array, and what is left when it is thinned out: deduplicate
\* loses no value (it may keep equal ones), and uniquify writes each value once.
ThinsAndFinds(a) ==
    LET sorted == SortSeq(a, <)  thin == DedupFrom(a, 2)
    IN  /\ \A e \in Values : SearchIn(sorted, e, 1, Len(a) + 1) = Cardinality({i \in DOMAIN a : a[i] <= e})
        /\ ToSet(thin) = ToSet(a) /\ (Cardinality(ToSet(a)) = Len(a) => thin = a)
        /\ a # << >> => ToSet(Uniquified(sorted)) = ToSet(a)
                        /\ Len(Uniquified(sorted)) = Cardinality(ToSet(a))

\* Whatever is inserted, removed, sorted and copied in whatever order, the vector holds
\* what those calls should leave, within its capacity; and it is written past its end
\* only after an empty range was copied and nothing else.
VectorSound ==
    /\ Content = order /\ size <= Capacity
    /\ overrun => emptyCopy
    /\ AllSort(order) /\ ThinsAndFinds(order)
=============================================================================
