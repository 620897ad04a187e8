------------------------------ MODULE Sorting ------------------------------
(***************************************************************************)
(* The sorting algorithms of sort.h (C++) and sort.go, binary search, and  *)
(* the score table of bucket_sort.cc.  An array is a sequence; a loop over *)
(* its indices is a fold over the sequence of the values of its counter.   *)
(***************************************************************************)
EXTENDS Integers, Sequences, SequencesExt, FiniteSets, FiniteSetsExt

Swap(a, i, j) == [a EXCEPT ![i] = a[j], ![j] = a[i]]
Upto(m, n)    == [k \in 1 .. n - m + 1 |-> m + k - 1]
Downto(m, n)  == [k \in 1 .. m - n + 1 |-> m - k + 1]
Sorted(a)     == SortSeq(a, <)
Distinct(a)   == Cardinality(ToSet(a)) = Len(a)

-----------------------------------------------------------------------------
(* Selection and insertion.                                                *)

\* The first of the smallest elements from i on.
LeastFrom(a, i) ==
    CHOOSE j \in i .. Len(a) :
        \A k \in i .. Len(a) : a[j] <= a[k] /\ (a[k] = a[j] => j <= k)

SortSelect(a) ==
    FoldLeft(LAMBDA b, i : Swap(b, i, LeastFrom(b, i)), a, Upto(1, Len(a) - 1))

\* sort.go does not swap a minimum that is in its place.
SelectSort(a) ==
    FoldLeft(LAMBDA b, i : IF b[LeastFrom(b, i)] # b[i] THEN Swap(b, i, LeastFrom(b, i)) ELSE b,
             a, Upto(1, Len(a)))

\* The word before the array, which SortInsert compares with: the upper half of
\* the size that malloc notes there.
BeforeArray == 0

\* Every inner loop goes on to index 0, past the place of the element.
SinkAll(b, i) ==
    FoldLeft(LAMBDA c, j : IF c[j - 1] > c[j] THEN Swap(c, j - 1, j) ELSE c, b, Downto(i, 1))

SortInsert(a) ==
    LET before == [k \in 0 .. Len(a) |-> IF k = 0 THEN BeforeArray ELSE a[k]]
        after  == FoldLeft(SinkAll, before, Upto(2, Len(a)))
    IN  [k \in 1 .. Len(a) |-> after[k]]

\* sort.go stops where the element is in order.
RECURSIVE Sink(_, _)
Sink(a, i) == IF i > 1 /\ a[i - 1] > a[i] THEN Sink(Swap(a, i - 1, i), i - 1) ELSE a
InsertSort(a) == FoldLeft(Sink, a, Upto(2, Len(a)))

\* For one gap only the elements at multiples of it are sorted; the last gap is 1.
SinkBy(a, i, gap) ==
    FoldLeft(LAMBDA b, m : IF b[m * gap + 1 - gap] > b[m * gap + 1]
                           THEN Swap(b, m * gap + 1 - gap, m * gap + 1) ELSE b,
             a, Downto(i, 1))
RECURSIVE ShellBy(_, _)
ShellBy(a, gap) ==
    IF gap = 0 THEN a
    ELSE ShellBy(FoldLeft(LAMBDA b, i : SinkBy(b, i, gap), a, Upto(1, (Len(a) - 1) \div gap)),
                 gap \div 2)
SortShell(a) == ShellBy(a, Len(a) \div 2)

\* One pass of BubbleSort takes the least of what is left to the front.
Bubbled(a, i) ==
    FoldLeft(LAMBDA b, j : IF b[j] < b[j - 1] THEN Swap(b, j, j - 1) ELSE b, a, Downto(Len(a), i + 1))
RECURSIVE BubbleFrom(_, _)
BubbleFrom(a, i) ==
    IF i > Len(a) \/ Bubbled(a, i) = a THEN a ELSE BubbleFrom(Bubbled(a, i), i + 1)
BubbleSort(a) == BubbleFrom(a, 1)

-----------------------------------------------------------------------------
(* Quicksort.                                                              *)

\* Where a pointer that walks from s up, or from e down, stops at the latest.
UpTo(a, s, e, p)   == Min({k \in s .. e : a[k] >= p} \cup {e})
DownTo(a, s, e, p) == Max({k \in s .. e : a[k] <= p} \cup {s})

\* Two elements that equal the pivot are swapped for ever.
RECURSIVE Partition(_, _, _, _)
Partition(a, s, e, p) ==
    LET e1 == DownTo(a, s, e, p)
        s1 == UpTo(a, s, e1, p)
    IN  IF s1 = e1 THEN [ends |-> TRUE, at |-> s1, arr |-> a]
        ELSE IF a[s1] = a[e1] THEN [ends |-> FALSE, at |-> s1, arr |-> a]
        ELSE Partition(Swap(a, s1, e1), s1, e1, p)

RECURSIVE DoSortQuick(_, _, _)
DoSortQuick(a, s, e) ==
    IF e <= s THEN [ends |-> TRUE, at |-> s, arr |-> a]
    ELSE LET part == Partition(a, s, e, a[s])
             left == DoSortQuick(part.arr, s, part.at - 1)
         IN  IF ~part.ends THEN part
             ELSE IF ~left.ends THEN left ELSE DoSortQuick(left.arr, part.at + 1, e)

\* sort.go fills the hole the pivot left from both sides in turn.
RECURSIVE Hole(_, _, _, _)
Hole(a, s, e, key) ==
    LET e1 == Max({k \in s .. e : a[k] < key} \cup {s})
        a1 == [a EXCEPT ![s] = a[e1]]
        s1 == Min({k \in s .. e1 : a1[k] > key} \cup {e1})
        a2 == [a1 EXCEPT ![e1] = a1[s1]]
    IN  IF s1 >= e1 THEN [at |-> s1, arr |-> [a2 EXCEPT ![s1] = key]]
        ELSE Hole(a2, s1, e1, key)

RECURSIVE QuickSortHelp(_, _, _)
QuickSortHelp(a, s, e) ==
    IF s >= e THEN a
    ELSE LET part == Hole(a, s, e, a[s])
         IN  QuickSortHelp(QuickSortHelp(part.arr, s, part.at), part.at + 1, e)

-----------------------------------------------------------------------------
(* Merging, heaps and buckets.                                             *)

\* Equal elements are taken from the right half first.
RECURSIVE Merged(_, _)
Merged(x, y) ==
    IF x = << >> \/ y = << >> THEN x \o y
    ELSE IF Head(x) < Head(y) THEN << Head(x) >> \o Merged(Tail(x), y)
    ELSE << Head(y) >> \o Merged(x, Tail(y))

RECURSIVE DoSortMerge(_)
DoSortMerge(a) ==
    IF Len(a) < 2 THEN a
    ELSE LET mid == (Len(a) + 1) \div 2
         IN  Merged(DoSortMerge(SubSeq(a, 1, mid)), DoSortMerge(SubSeq(a, mid + 1, Len(a))))

\* The larger child of p among the first len; the right one when they are equal.
LargerChild(a, len, p) ==
    IF 2 * p + 1 <= len /\ a[2 * p] <= a[2 * p + 1] THEN 2 * p + 1 ELSE 2 * p

RECURSIVE DownFilter(_, _, _)
DownFilter(a, len, p) ==
    LET c == LargerChild(a, len, p)
    IN  IF 2 * p > len \/ a[c] <= a[p] THEN a ELSE DownFilter(Swap(a, p, c), len, c)

Heap(a, from) == FoldLeft(LAMBDA b, i : DownFilter(b, Len(a), i), a, Downto(from, 1))
TakeMaxima(a, last) ==
    FoldLeft(LAMBDA b, i : DownFilter(Swap(b, i, 1), i - 1, 1), a, Downto(Len(a), last))
SortHeap(a) == TakeMaxima(Heap(a, Len(a) \div 2), 1)
HeapSort(a) == TakeMaxima(IF a = << >> THEN a ELSE Heap(a, Min({Len(a) \div 2 + 1, Len(a)})), 2)

MaxDigits(a, radix) == Min({d \in 1 .. 8 : Max(ToSet(a)) < radix ^ d})

\* One pass, from the end: an element goes behind all with a smaller digit and
\* the equal ones before it.
ByDigit(a, radix, digit) ==
    LET key(m)   == (a[m] \div digit) % radix
        place(m) == Cardinality({j \in DOMAIN a : key(j) < key(m) \/ (key(j) = key(m) /\ j <= m)})
    IN  [k \in DOMAIN a |-> a[CHOOSE m \in DOMAIN a : place(m) = k]]
RadixSort(a, radix) ==
    FoldLeft(LAMBDA b, d : ByDigit(b, radix, radix ^ (d - 1)), a, Upto(1, MaxDigits(a, radix)))

\* Lists of equal remainder, sorted, merged into the first.
BucketSort(a) ==
    FoldLeft(LAMBDA l, r : SortSeq(l \o SelectSeq(a, LAMBDA x : x % 10 = r), <), << >>, Upto(0, 9))

-----------------------------------------------------------------------------
(* Search, and ranks by counting.                                          *)

RECURSIVE Between(_, _, _, _)
Between(a, key, s, e) ==
    LET mid == (s + e) \div 2
    IN  IF s > e THEN 0
        ELSE IF a[mid] = key THEN mid
        ELSE IF a[mid] < key THEN Between(a, key, mid + 1, e)
        ELSE Between(a, key, s, mid - 1)
BinSearch(a, key) == Between(a, key, 1, Len(a))

\* at[s]: the users with score s.  The number of users above every score.
PartialSum(at) ==
    [s \in DOMAIN at |-> MapThenSumSet(LAMBDA t : at[t], {t \in DOMAIN at : t > s})]

\* A user is given a new score; an old one of -1 is a user not seen before.
UpdateScore(table, old, new) ==
    LET from  == IF old = -1 THEN 0 ELSE old
        left  == IF old = -1 THEN table.at
                 ELSE [table.at EXCEPT ![old] = Max({@ - 1, 0})]
        above == [s \in DOMAIN left |->
                     table.above[s] + (IF from <= s /\ s < new THEN 1 ELSE 0)
                                    - (IF new <= s /\ s < from THEN 1 ELSE 0)]
    IN  [at |-> [left EXCEPT ![new] = @ + 1], above |-> above]

-----------------------------------------------------------------------------
(* Properties.                                                             *)

\* Whatever the array, each algorithm returns it in order: SortInsert when no
\* element is less than the word before the array, SortQuick when it ends, which
\* equal elements may keep it from.
SortsSort(a) ==
    LET quick == DoSortQuick(a, 1, Len(a))
    IN  /\ \A r \in {SortSelect(a), SelectSort(a), InsertSort(a), SortShell(a), BubbleSort(a),
                     QuickSortHelp(a, 1, Len(a)), DoSortMerge(a), SortHeap(a), HeapSort(a)} :
               r = Sorted(a)
        /\ (\A k \in DOMAIN a : a[k] >= BeforeArray) => SortInsert(a) = Sorted(a)
        /\ quick.ends => quick.arr = Sorted(a)
        /\ Distinct(a) => quick.ends
        /\ (a # << >> /\ \A k \in DOMAIN a : a[k] >= 0) =>
               RadixSort(a, 2) = Sorted(a) /\ RadixSort(a, 3) = Sorted(a) /\ BucketSort(a) = Sorted(a)

\* Binary search in the sorted array finds a key that is there.
SearchFinds(a) ==
    \A key \in ToSet(a) \cup {0} :
        LET i == BinSearch(Sorted(a), key)
        IN  IF key \in ToSet(a) THEN Sorted(a)[i] = key ELSE i = 0

\* However often a user's score changes, the ranks that are kept up to date are those
\* that counting all users anew would give; every score had a user before.
RanksRight(a) ==
    LET at    == [s \in 0 .. 3 |-> 1]
        moves == [k \in DOMAIN a |-> << IF k = 1 THEN -1 ELSE a[k - 1], a[k] >>]
        table == FoldLeft(LAMBDA t, m : UpdateScore(t, m[1], m[2]),
                          [at |-> at, above |-> PartialSum(at)], moves)
    IN  (\A k \in DOMAIN a : a[k] \in DOMAIN at) => table.above = PartialSum(table.at)
=============================================================================
