----------------------------- MODULE Exercises -----------------------------
(***************************************************************************)
(* The single-problem solutions of recursive.go, backtracking.go,          *)
(* greedy.go, dp.go, dp_base.h, algorithm.cc, stack.cc, string.cc,         *)
(* array.cc and the files on divide, decrease and conquer, as functions of *)
(* their input, against what an exhaustive search finds. A distance is     *)
(* kept as its square. What goes beyond its array on small inputs or never *)
(* gives an answer (MinKV1, MinKV2, Sum2_v1, DoQuickSort of algorithm.cc,  *)
(* the getAnswer that divides an array and binsearch of the searching      *)
(* exercises, closestPair.cc, which no compiler takes) is left out, and so *)
(* are the inputs on which a function kept here does the same.             *)
(***************************************************************************)
EXTENDS Sorting

\* The elements of a at the places in S, in their order.
Picked(a, S) == [k \in 1 .. Cardinality(S) |-> a[SetToSortSeq(S, <)[k]]]
Sum(S, f(_)) == MapThenSumSet(f, S)
Lesser(x, y) == IF x < y THEN x ELSE y
Larger(x, y) == IF x < y THEN y ELSE x
Abs(x)       == IF x < 0 THEN -x ELSE x

-----------------------------------------------------------------------------
(* Recursion.                                                              *)

RECURSIVE Perm(_, _), PermUnique(_, _)
Perm(seq, s) ==
    IF s > Len(seq) THEN << seq >>
    ELSE FlattenSeq([i \in 1 .. Len(seq) + 1 - s |-> Perm(Swap(seq, s, s + i - 1), s + 1)])
\* An element equal to the one it would change with is passed over.
PermUnique(seq, s) ==
    IF s > Len(seq) THEN << seq >>
    ELSE LET turns == SelectSeq(Upto(s, Len(seq)), LAMBDA i : i = s \/ seq[i] # seq[s])
         IN  FlattenSeq([k \in DOMAIN turns |-> PermUnique(Swap(seq, s, turns[k]), s + 1)])

\* recursive.go moves from a to b, algorithm.cc from x to z.
RECURSIVE Hanoi(_, _, _, _), HanoiTower(_, _, _, _)
Hanoi(n, a, b, c) ==
    IF n <= 0 THEN << >> ELSE Hanoi(n - 1, a, c, b) \o << << a, b >> >> \o Hanoi(n - 1, c, b, a)
HanoiTower(n, x, y, z) ==
    IF n = 1 THEN << << x, z >> >>
    ELSE HanoiTower(n - 1, x, z, y) \o HanoiTower(1, x, y, z) \o HanoiTower(n - 1, y, x, z)

PartitionHole(a, l, r) == Hole(a, l, r, a[l])

\* What may be selected, whatever pivot rand draws; one that leaves the range as it
\* is, is drawn again.
RECURSIVE LinearSelect(_, _, _, _)
LinearSelect(a, p, r, k) ==
    IF p = r THEN {a[p]}
    ELSE UNION {LET q == PartitionHole(Swap(a, hole, p), p, r)  j == q.at - p + 1
                IN  IF k = j THEN {q.arr[q.at]}
                    ELSE IF k > j THEN LinearSelect(q.arr, q.at + 1, r, k - j)
                    ELSE IF q.at = r THEN {} ELSE LinearSelect(q.arr, p, q.at, k) : hole \in p .. r}

Far == 1000
Dist(p, q) == (p[1] - q[1]) ^ 2 + (p[2] - q[2]) ^ 2
BruteForce(ps) ==
    Min({Far} \cup {Dist(ps[i], ps[j]) : << i, j >> \in {ij \in (DOMAIN ps) \X (DOMAIN ps) : ij[1] < ij[2]}})

\* Of 4 to 6 points each half is small enough for brute force; from 7 on the points by
\* y are dealt out differently from those by x and an index goes out of range.
ClosestUtil(px, py) ==
    LET n == Len(px)  mid == n \div 2  m == px[mid + 1]
        d == Lesser(BruteForce(SubSeq(px, 1, mid)), BruteForce(SubSeq(px, mid + 1, n)))
    IN  IF n <= 3 THEN BruteForce(px)
        ELSE Lesser(d, BruteForce(SelectSeq(py, LAMBDA p : (p[1] - m[1]) ^ 2 < d)))
Closest(ps) ==
    ClosestUtil(SortSeq(ps, LAMBDA p, q : p[1] < q[1]), SortSeq(ps, LAMBDA p, q : p[2] < q[2]))

\* Reverse of algorithm.cc: on the way back each node's successor points to it.
RECURSIVE ReverseNodes(_, _)
ReverseNodes(next, cur) ==
    IF next[cur] = 0 THEN [next |-> next, head |-> cur]
    ELSE LET r == ReverseNodes(next, next[cur])
         IN  [r EXCEPT !.next = [@ EXCEPT ![r.next[cur]] = cur, ![cur] = 0]]

-----------------------------------------------------------------------------
(* Backtracking and stacks.                                                *)

CanPlace(row, col, q) ==
    \A r \in 1 .. row - 1 : q[r] # col /\ Abs(r - row) # Abs(q[r] - col)

\* q holds the columns of the queens in the rows done.
RECURSIVE Place(_, _)
Place(n, q) ==
    IF Len(q) = n THEN << q >>
    ELSE LET cols == SelectSeq(Upto(1, n), LAMBDA c : CanPlace(Len(q) + 1, c, q))
         IN  FlattenSeq([i \in DOMAIN cols |-> Place(n, Append(q, cols[i]))])

\* The next row is tried from column j on.
RECURSIVE QueenLoop(_, _, _, _)
QueenLoop(n, q, j, shown) ==
    LET cols == {c \in j .. n : CanPlace(Len(q) + 1, c, q)}
    IN  IF cols # {} THEN
            IF Len(q) + 1 < n THEN QueenLoop(n, Append(q, Min(cols)), 1, shown)
            ELSE QueenLoop(n, q, Min(cols) + 1, Append(shown, Append(q, Min(cols))))
        ELSE IF q = << >> THEN shown
        ELSE QueenLoop(n, Front(q), Last(q) + 1, shown)

\* -1 and 0 stand for ( and ), 1 and 2 for [ and ].
RECURSIVE MatchFrom(_, _)
MatchFrom(text, s) ==
    IF text = << >> THEN s = << >>
    ELSE IF Head(text) \in {-1, 1} THEN MatchFrom(Tail(text), Append(s, Head(text)))
    ELSE s # << >> /\ Last(s) = Head(text) - 1 /\ MatchFrom(Tail(text), Front(s))
IsMatchBrackets(text) == MatchFrom(text, << >>)

\* How many are moved from a stack of n: rand() % n, or one when that is none.
Moved(n) == IF n = 0 THEN {0} ELSE {Larger(k, 1) : k \in 0 .. n - 1}
Popped(s, k) == Reverse(SubSeq(s, Len(s) - k + 1, Len(s)))
RECURSIVE StackShuffling(_, _, _)
StackShuffling(from, s, to) ==
    IF from = << >> /\ s = << >> THEN {to}
    ELSE UNION {LET f == SubSeq(from, 1, Len(from) - k)  t == s \o Popped(from, k)
                IN  UNION {StackShuffling(f, SubSeq(t, 1, Len(t) - m), to \o Popped(t, m)) :
                               m \in Moved(Len(t))} : k \in Moved(Len(from))}

RECURSIVE BaseConvert(_, _), RBaseConvert(_, _)
BaseConvert(n, base)  == IF n <= 0 THEN << >> ELSE << n % base >> \o BaseConvert(n \div base, base)
RBaseConvert(n, base) == IF n <= 0 THEN << >> ELSE Append(RBaseConvert(n \div base, base), n % base)

-----------------------------------------------------------------------------
(* Greedy choices.                                                         *)

RECURSIVE MinCoin(_)
MinCoin(money) == IF money < 1 THEN 0 ELSE 1 + MinCoin(money - Max({c \in {1, 3, 5} : c <= money}))

Moneys == << 1, 5, 10, 50, 100 >>
Counts == << 5, 2, 2, 3, 5 >>
CurrencySelection(k) ==
    LET end == FoldLeft(LAMBDA s, i :
                            LET amount == Lesser(s.left \div Moneys[i], Counts[i])
                            IN  [left |-> s.left - amount * Moneys[i], num |-> s.num + amount],
                        [left |-> k, num |-> 0], Downto(5, 1))
    IN  IF end.left = 0 THEN end.num ELSE 0

\* Activity i ends at time i; the one chosen before ends at last.
ActivityPlanning(start) ==
    FoldLeft(LAMBDA s, i : IF start[i] >= Last(<< 0 >> \o s) THEN Append(s, i) ELSE s,
             << >>, Upto(1, Len(start)))

\* The head goes first when the rest read from the head is less than from the tail.
RECURSIVE BestCowLine(_)
BestCowLine(seq) ==
    LET n == Len(seq)  differ == {i \in 1 .. n : i < n /\ seq[i] # seq[n + 1 - i]}
        head == differ # {} /\ seq[Min(differ)] < seq[n + 1 - Min(differ)]
    IN  IF seq = << >> THEN << >>
        ELSE IF head THEN << Head(seq) >> \o BestCowLine(Tail(seq))
        ELSE << Last(seq) >> \o BestCowLine(Front(seq))

\* Heap i takes what it lacks from the next one, or gives it what it has too much.
DividePoker(pokers) ==
    LET n == Len(pokers)  avg == Sum(1 .. n, LAMBDA i : pokers[i]) \div n
    IN  FoldLeft(LAMBDA s, i : IF s.heap[i] = avg THEN s
                               ELSE [heap |-> [s.heap EXCEPT ![i] = avg, ![i + 1] = @ - (avg - s.heap[i])],
                                     count |-> s.count + 1],
                 [heap |-> pokers, count |-> 0], Upto(1, n)).count

\* Whether x comes before y when both are sequences of the same length.
Before(x, y) == \E i \in DOMAIN x : x[i] < y[i] /\ \A j \in 1 .. i - 1 : x[j] = y[j]
MaxInteger(ns) ==
    FlattenSeq(FoldLeft(LAMBDA s, ij : IF Before(s[ij[1]] \o s[ij[2]], s[ij[2]] \o s[ij[1]])
                                       THEN Swap(s, ij[1], ij[2]) ELSE s,
                        ns, FlattenSeq([i \in 1 .. Len(ns) - 1 |->
                                           [k \in 1 .. Len(ns) - i |-> << i, i + k >>]])))

BestLoad(c, w) ==
    FoldLeft(LAMBDA s, x : IF s.full \/ s.left < x THEN [s EXCEPT !.full = TRUE]
                           ELSE [s EXCEPT !.left = @ - x, !.load = Append(@, x)],
             [left |-> c, full |-> FALSE, load |-> << >>], Sorted(w)).load

-----------------------------------------------------------------------------
(* Dynamic programming.                                                    *)

\* In the table each coin that fits takes the place of the one before it.
CoinTable(aim) ==
    LET f[i \in 0 .. aim] ==
            IF i = 0 THEN 0 ELSE f[i - Max({c \in {1, 2, 5} : c <= i})] + 1
    IN  f[aim]

LongestTable(seq) ==
    LET d[i \in DOMAIN seq] == Max({1} \cup {d[j] + 1 : j \in {j \in 1 .. i - 1 : seq[j] <= seq[i]}})
    IN  Max({0} \cup {d[i] : i \in DOMAIN seq})

MaxLinkSeqSum(seq) ==
    FoldLeft(LAMBDA s, x : LET cur == Larger(s.cur + x, x) IN [cur |-> cur, max |-> Larger(s.max, cur)],
             [cur |-> Head(seq), max |-> Head(seq)], Tail(seq)).max

\* Ranks count from 0; the table leaves out the first letters, and the walk through it
\* goes by the entries to come.
LCS(x, y) ==
    LET m == Len(x)  n == Len(y)
        dp[i \in 0 .. m, j \in 0 .. n] ==
            IF i \in {0, m} \/ j \in {0, n} THEN 0
            ELSE IF x[i + 1] = y[j + 1] THEN dp[i - 1, j - 1] + 1 ELSE Larger(dp[i - 1, j], dp[i, j - 1])
        walk[i \in 0 .. m, j \in 0 .. n] ==
            IF i = m \/ j = n THEN << >>
            ELSE IF x[i + 1] = y[j + 1] THEN << x[i + 1] >> \o walk[i + 1, j + 1]
            ELSE IF dp[i + 1, j] >= dp[i, j + 1] THEN walk[i + 1, j] ELSE walk[i, j + 1]
    IN  walk[0, 0]


\* Item i is worth w[i] and takes v[i] of the capacity c; from c down.
KnapSack01(w, v, c) ==
    FoldLeft(LAMBDA dp, i : FoldLeft(LAMBDA e, s : [e EXCEPT ![s] = Larger(@, w[i] + e[s - v[i]])],
                                     dp, Downto(c, v[i])),
             [s \in 0 .. c |-> 0], Upto(1, Len(w)))[c]

\* A tower has row i of i numbers; each gets the larger of the two sums next to it.
MaxPathSumDown(t) ==
    LET N == Len(t)
        dp[i \in 0 .. N, j \in 0 .. N] ==
            IF i = 0 \/ j = 0 \/ j > i THEN 0 ELSE t[i][j] + Larger(dp[i - 1, j - 1], dp[i - 1, j])
    IN  Max({dp[N, j] : j \in 0 .. N})
SumsUp(t) ==
    LET N == Len(t)
        dp[i \in 1 .. N, j \in 1 .. N] ==
            IF i = N THEN t[i][j] ELSE t[i][j] + Larger(dp[i + 1, j], dp[i + 1, j + 1])
    IN  [i \in 1 .. N |-> [j \in 1 .. i |-> dp[i, j]]]
\* The way down: right when what is left above is the sum there.
PrintPath(t, dp) ==
    FoldLeft(LAMBDA s, i :
                 LET j == IF dp[i - 1][s.j] - t[i - 1][s.j] = dp[i][s.j + 1] THEN s.j + 1 ELSE s.j
                 IN  [j |-> j, path |-> Append(s.path, t[i][j])],
             [j |-> 1, path |-> << t[1][1] >>], Upto(2, Len(t))).path

-----------------------------------------------------------------------------
(* Divide, decrease and conquer.                                           *)

\* The largest sum of a slice that ends before mi, or begins there.
RECURSIVE GsDC(_)
GsDC(a) ==
    LET mi == Len(a) \div 2
        total(i, j) == Sum(i .. j, LAMBDA k : a[k])
    IN  IF Len(a) < 2 THEN a[1]
        ELSE Max({Max({total(i, mi) : i \in 1 .. mi}) + Max({total(mi + 1, j) : j \in mi + 1 .. Len(a)}),
                  GsDC(SubSeq(a, 1, mi)), GsDC(SubSeq(a, mi + 1, Len(a)))})
\* From the end, dropping what sums up to nothing.
GsLS(a) ==
    FoldRight(LAMBDA x, s : [sum |-> Larger(s.sum + x, 0), gs |-> Larger(s.gs, s.sum + x)],
              a, [sum |-> 0, gs |-> a[1]]).gs

\* The elements no more than the last one are swapped to the front.
RECURSIVE FindKth(_, _, _, _)
FindKth(a, start, end, k) ==
    LET p == FoldLeft(LAMBDA s, i : IF s.arr[i] <= a[end]
                                    THEN [arr |-> Swap(s.arr, s.left, i), left |-> s.left + 1] ELSE s,
                      [arr |-> a, left |-> start], Upto(start, end - 1))
        b == Swap(p.arr, p.left, end)
    IN  IF p.left = k THEN b[k]
        ELSE IF p.left < k THEN FindKth(b, p.left + 1, end, k) ELSE FindKth(b, start, p.left - 1, k)
FindKthLargest(a, k) == FindKth(a, 1, Len(a), Len(a) + 1 - k)

\* What quickSelect leaves in A, which is a copy of its caller's vector: it gives back
\* nothing, and no caller sees what it selected.
RECURSIVE QuickSelectCopy(_, _, _, _)
QuickSelectCopy(A, lo, hi, k) ==
    IF lo >= hi THEN A
    ELSE LET q == Hole(A, lo, hi, A[lo])
         IN  QuickSelectCopy(q.arr, IF q.at <= k THEN q.at + 1 ELSE lo, IF k <= q.at THEN q.at - 1 ELSE hi, k)

MajCandidate(a) ==
    FoldLeft(LAMBDA s, x : IF s.c = 0 THEN [maj |-> x, c |-> 1]
                           ELSE [s EXCEPT !.c = IF s.maj = x THEN @ + 1 ELSE @ - 1],
             [maj |-> 0, c |-> 0], a).maj

\* While merging, an element of the right half passes those left in the left half.
RECURSIVE MergeCount(_, _)
MergeCount(x, y) ==
    IF x = << >> \/ y = << >> THEN [arr |-> x \o y, cnt |-> 0]
    ELSE IF Head(x) <= Head(y)
    THEN LET r == MergeCount(Tail(x), y) IN [r EXCEPT !.arr = << Head(x) >> \o @]
    ELSE LET r == MergeCount(x, Tail(y)) IN [arr |-> << Head(y) >> \o r.arr, cnt |-> r.cnt + Len(x)]
\* Of at least one element: with none mergeSort(0, -1) calls itself for ever.
RECURSIVE SortCount(_)
SortCount(a) ==
    IF Len(a) = 1 THEN [arr |-> a, cnt |-> 0]
    ELSE LET mid == (Len(a) + 1) \div 2
             l == SortCount(SubSeq(a, 1, mid))  r == SortCount(SubSeq(a, mid + 1, Len(a)))
             m == MergeCount(l.arr, r.arr)
         IN  [m EXCEPT !.cnt = @ + l.cnt + r.cnt]

-----------------------------------------------------------------------------
(* Arrays and strings.                                                     *)

RECURSIVE PairIn(_, _, _, _)
PairIn(a, val, i, j) ==
    IF i >= j THEN << >>
    ELSE IF a[i] + a[j] > val THEN PairIn(a, val, i, j - 1)
    ELSE IF a[i] + a[j] < val THEN PairIn(a, val, i + 1, j)
    ELSE << a[i], a[j] >>
\* Of at least one element: with none the unsigned j wraps and array[j] is not there.
Sum2V2(a, val) == PairIn(a, val, 1, Len(a))

\* The first element whose difference came before it.
FirstPair(a, val, allowed(_)) ==
    LET js == {j \in DOMAIN a : allowed(a[j]) /\ \E i \in 1 .. j - 1 : allowed(a[i]) /\ a[i] + a[j] = val}
    IN  IF js = {} THEN << >> ELSE << val - a[Min(js)], a[Min(js)] >>
Sum2(a, val) ==
    IF FirstPair(a, val, LAMBDA x : TRUE) = << >> THEN << -1, -1 >> ELSE FirstPair(a, val, LAMBDA x : TRUE)
\* Elements equal to the one that is left out are passed over.
Sum3(a, val) ==
    LET pair(i) == FirstPair(a, val - a[i], LAMBDA x : x # a[i])
        is == {i \in DOMAIN a : pair(i) # << >>}
    IN  IF is = {} THEN << >> ELSE Append(pair(Min(is)), a[Min(is)])

ReverseIn(s, i, j) == [k \in DOMAIN s |-> IF i <= k /\ k <= j THEN s[i + j - k] ELSE s[k]]
RotateString(s, k) ==
    LET mod == k % Len(s)
    IN  IF k <= 0 THEN s
        ELSE ReverseIn(ReverseIn(ReverseIn(s, 1, mod), mod + 1, Len(s)), 1, Len(s))

\* Digits up to the most an int holds; a negative number stops one before.
Str2Int(negative, digits, maxInt) ==
    LET most == IF negative THEN maxInt - 1 ELSE maxInt
        n == FoldLeft(LAMBDA s, ch :
                          IF s.stop THEN s
                          ELSE IF s.n > most \div 10 \/ (s.n = most \div 10 /\ ch > most % 10)
                          THEN [n |-> most, stop |-> TRUE] ELSE [s EXCEPT !.n = @ * 10 + ch],
                      [n |-> 0, stop |-> FALSE], digits).n
    IN  IF negative THEN -n ELSE n

-----------------------------------------------------------------------------
(* Properties.                                                             *)

\* The pegs after the moves; a larger disk is never put on a smaller one.
Played(moves, n, from) ==
    FoldLeft(LAMBDA s, m :
                 IF ~s.ok \/ s.peg[m[1]] = << >> THEN [s EXCEPT !.ok = FALSE]
                 ELSE [ok  |-> s.peg[m[2]] = << >> \/ Head(s.peg[m[2]]) > Head(s.peg[m[1]]),
                       peg |-> [s.peg EXCEPT ![m[2]] = << Head(s.peg[m[1]]) >> \o @, ![m[1]] = Tail(@)]],
             [ok |-> TRUE, peg |-> [p \in {"A", "B", "C"} |-> IF p = from THEN Upto(1, n) ELSE << >>]],
             moves)
Reached(moves, n, to) == LET p == Played(moves, n, "A") IN p.ok /\ p.peg[to] = Upto(1, n)

RECURSIVE Cancelled(_)
Cancelled(t) ==
    LET is == {i \in 1 .. Len(t) - 1 : t[i] \in {-1, 1} /\ t[i + 1] = t[i] + 1}
    IN  IF is = {} THEN t
        ELSE Cancelled(SubSeq(t, 1, Min(is) - 1) \o SubSeq(t, Min(is) + 2, Len(t)))

RECURSIVE Fewest(_, _)
Fewest(coins, n) == IF n = 0 THEN 0 ELSE 1 + Min({Fewest(coins, n - c) : c \in {c \in coins : c <= n}})

\* What depends on a size only: towers of disks, queens, coins, notes, digits of a
\* number, permutations by a stack (which never has a small one between two larger
\* ones that follow it), and chains.
SizesRight ==
    /\ \A n \in 1 .. 5 :
           /\ Reached(Hanoi(n, "A", "B", "C"), n, "B")
           /\ Reached(HanoiTower(n, "A", "B", "C"), n, "C")
           /\ QueenLoop(n, << >>, 1, << >>) = Place(n, << >>)
           /\ ToSet(Place(n, << >>)) =
                  {q \in [1 .. n -> 1 .. n] : \A r \in 2 .. n : CanPlace(r, q[r], q)}
           /\ \A to \in StackShuffling(Upto(1, n), << >>, << >>) :
                  ~\E i, j, k \in 1 .. n : i < j /\ j < k /\ to[j] > to[k] /\ to[k] > to[i]
           /\ LET r == ReverseNodes([i \in 1 .. n |-> (i + 1) % (n + 1)], 1)
              IN  r.head = n /\ \A i \in 1 .. n : r.next[i] = i - 1
    /\ \A n \in 0 .. 13 : MinCoin(n) = Fewest({1, 3, 5}, n) /\ CoinTable(n) = Fewest({1, 2, 5}, n)
    /\ \A k \in 1 .. 60 :
           LET ways == {c \in [1 .. 4 -> 0 .. 5] : (\A i \in 1 .. 4 : c[i] <= Counts[i]) /\
                            Sum(1 .. 4, LAMBDA i : c[i] * Moneys[i]) = k}
           IN  CurrencySelection(k) =
                   Min({Sum(1 .. 4, LAMBDA i : c[i]) : c \in ways} \cup (IF ways = {} THEN {0} ELSE {}))
    /\ \A n \in 1 .. 20, base \in 2 .. 3 :
           /\ RBaseConvert(n, base) = Reverse(BaseConvert(n, base))
           /\ FoldLeft(LAMBDA x, d : x * base + d, 0, RBaseConvert(n, base)) = n

\* Orders of a short sequence: the permutations are all there, the k-th element comes
\* whatever the pivots are, and no other order of numbers makes a larger one.
OrdersRight(a) ==
    LET perms == ToSet(Perm(a, 1))
        number == [v \in -1 .. 2 |-> CASE v = -1 -> << 1, 2 >> [] v = 0 -> << 1, 2, 1 >> [] OTHER -> << v >>]
    IN  /\ Cardinality(ToSet(Perm([i \in DOMAIN a |-> << i, a[i] >>], 1))) = Len(Perm(a, 1))
        /\ ToSet(PermUnique(a, 1)) = perms
        /\ \A k \in DOMAIN a : LinearSelect(a, 1, Len(a), k) = {Sorted(a)[k]}
        /\ \A p \in perms : ~Before(MaxInteger([i \in DOMAIN a |-> number[a[i]]]),
                                    FlattenSeq([i \in DOMAIN p |-> number[p[i]]]))

\* The best choices from a sequence, against all there are.
ChoicesRight(a) ==
    LET n      == Len(a)
        vol    == [i \in DOMAIN a |-> a[i] + 2]
        worth  == [i \in DOMAIN a |-> ((i * i) % 5) + 1]
        points == [i \in DOMAIN a |-> << a[i], (2 * i * i) % 5 >>]
        start  == [i \in DOMAIN a |-> Max({0, Lesser(a[i], i - 1)})]
        fit    == {S \in SUBSET DOMAIN a : Sum(S, LAMBDA i : vol[i]) <= 5}
        slices == {Sum(i .. j, LAMBDA k : a[k]) : << i, j >> \in {ij \in (1 .. n) \X (1 .. n) : ij[1] <= ij[2]}}
        heads  == {[S |-> S, line |-> FoldLeft(LAMBDA s, k :
                        IF k \in S THEN [s EXCEPT !.l = @ + 1, !.t = Append(@, a[s.l])]
                        ELSE [s EXCEPT !.r = @ - 1, !.t = Append(@, a[s.r])],
                        [l |-> 1, r |-> n, t |-> << >>], Upto(1, n)).t] : S \in SUBSET DOMAIN a}
        rises  == {S \in SUBSET DOMAIN a : \A i, j \in S : i < j => a[i] <= a[j]}
        apart  == {S \in SUBSET DOMAIN a : \A i, j \in S : i < j => start[j] >= i}
    IN  /\ Closest(points) = BruteForce(points)
        /\ KnapSack01(worth, vol, 5) = Max({Sum(S, LAMBDA i : worth[i]) : S \in fit})
        /\ Len(BestLoad(5, vol)) = Max({Cardinality(S) : S \in fit})
        /\ LongestTable(a) = Max({Cardinality(S) : S \in rises})
        /\ Len(ActivityPlanning(start)) = Max({Cardinality(S) : S \in apart})
        /\ \A h \in heads : ~Before(h.line, BestCowLine(a))
        /\ n > 0 => {MaxLinkSeqSum(a), GsDC(a), GsLS(a)} = {Max(slices)}
        /\ (n > 0 /\ Sum(1 .. n, LAMBDA i : vol[i]) % n = 0) =>
               DividePoker(vol) = Cardinality({i \in 1 .. n : Sum(1 .. i, LAMBDA k : vol[k] * n)
                                                               # i * Sum(1 .. n, LAMBDA k : vol[k])})
        /\ n = 6 => LET t == << << vol[1] >>, << vol[2], vol[3] >>, << vol[4], vol[5], vol[6] >> >>
                        ways == {vol[1] + t[2][j] + t[3][k] : << j, k >> \in {<< 1, 1 >>, << 1, 2 >>, << 2, 2 >>, << 2, 3 >>}}
                        path == PrintPath(t, SumsUp(t))
                    IN  {MaxPathSumDown(t), SumsUp(t)[1][1], path[1] + path[2] + path[3]} = {Max(ways)}

\* Selection, counting, pairs and strings, against their definitions.
ScansRight(a) ==
    LET n == Len(a)
        count(x)  == Cardinality({i \in DOMAIN a : a[i] = x})
        digits    == SelectSeq(a, LAMBDA x : x >= 0)
        value     == FoldLeft(LAMBDA x, d : 10 * x + d, 0, digits)
        pairs(s)  == {<< i, j >> \in (1 .. n) \X (1 .. n) : i < j /\ a[i] + a[j] = s}
        threes(s) == {S \in SUBSET DOMAIN a : Cardinality(S) = 3 /\ Sum(S, LAMBDA i : a[i]) = s}
    IN  /\ IsMatchBrackets(a) <=> Cancelled(a) = << >>
        /\ \A k \in DOMAIN a : /\ FindKthLargest(a, k) = Sorted(a)[n + 1 - k]
                               /\ QuickSelectCopy(a, 1, n, k)[k] = Sorted(a)[k]
        /\ \A x \in ToSet(a) : 2 * count(x) > n => MajCandidate(a) = x
        /\ n > 0 => SortCount(a) = [arr |-> Sorted(a),
                           cnt |-> Cardinality({<< i, j >> \in (1 .. n) \X (1 .. n) : i < j /\ a[i] > a[j]})]
        /\ \A s \in 1 .. 3 :
               /\ IF pairs(s) = {} THEN Sum2(a, s) = << -1, -1 >>
                  ELSE Sum2(a, s)[1] + Sum2(a, s)[2] = s
               /\ n > 0 => LET p == Sum2V2(Sorted(a), s)
                           IN  IF pairs(s) = {} THEN p = << >> ELSE p[1] + p[2] = s
               /\ LET t == Sum3(a, s) IN t # << >> => t[1] + t[2] + t[3] = s
               /\ (threes(s) # {} /\ Distinct(a)) => Sum3(a, s) # << >>
        /\ n > 0 => \A k \in 0 .. n + 1 :
               RotateString(a, k) = SubSeq(a, (k % n) + 1, n) \o SubSeq(a, 1, k % n)
        /\ Str2Int(FALSE, digits, 21) = Lesser(value, 21) /\ Str2Int(TRUE, digits, 21) = -Lesser(value, 20)
        /\ \A b \in {a, Reverse(a)} : LCS(a, Reverse(a)) \in {Picked(b, S) : S \in SUBSET DOMAIN b}

\* Where the repository's own words are not kept: the common subsequence of dp.go:107
\* is not the longest; permuteUnique gives the six orders of its test's 1, 1, 2, 2 as
\* eleven; and the MIN_INT of Str2Int, said to be the least int (here -22, the largest
\* being 21), is its negative plus two.
WordsNotKept ==
    /\ LCS(<< 1 >>, << 2, 1 >>) = << >>
    /\ LET orders == PermUnique(<< 1, 1, 2, 2 >>, 1) IN Len(orders) = 11 /\ Cardinality(ToSet(orders)) = 6
    /\ Str2Int(TRUE, << 2, 2 >>, 21) = -20

=============================================================================
