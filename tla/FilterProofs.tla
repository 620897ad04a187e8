---------------------------- MODULE FilterProofs ----------------------------
(***************************************************************************)
(* What Keep does with a sequence: its members, their order and how often  *)
(* they come. The induction is over a set of naturals that would have no   *)
(* least member.                                                           *)
(***************************************************************************)
EXTENDS Filter, Integers, Functions, SequenceTheorems, FiniteSetTheorems, TLAPS

\* A nonempty set of naturals has a least member: the intervals below its members
\* are finite sets, and these are well-founded under inclusion.
LEMMA Smallest ==
  ASSUME NEW T \in SUBSET Nat, T # {}
  PROVE  \E n \in T : \A m \in T : n <= m
<1> DEFINE Below == {1 .. n : n \in T}
           R == StrictSubsetOrdering(Nat)
           F == FiniteSubsetsOf(Nat)
<1>1. Below \subseteq F
  <2>1. \A n \in Nat : IsFiniteSet(1 .. n)
    BY FS_Interval
  <2> QED BY <2>1 DEF FiniteSubsetsOf
<1>2. Below # {}
  OBVIOUS
<1>3. IsWellFoundedOn(R, F)
  BY FS_StrictSubsetOrderingWellFounded
<1>4. PICK B \in Below : \A C \in Below : << C, B >> \notin R
  <2> HIDE DEF Below, R, F
  <2> QED BY <1>1, <1>2, <1>3, WFMin
<1>5. PICK n \in T : B = 1 .. n
  OBVIOUS
<1>6. ASSUME NEW m \in T, m < n
      PROVE  FALSE
  <2>1. 1 .. m \subseteq 1 .. n /\ 1 .. m # 1 .. n
    <3>1. n \in 1 .. n /\ n \notin 1 .. m
      BY <1>6
    <3> QED BY <1>6, <3>1
  <2>2. << 1 .. m, 1 .. n >> \in R
    BY <2>1 DEF StrictSubsetOrdering
  <2> QED BY <1>4, <1>5, <2>2
<1> QED BY <1>6

\* Induction up to n for a set of naturals, as a fact about sets.
LEMMA Induction ==
  ASSUME NEW T, NEW n \in Nat, 0 \in T,
         \A i \in 1 .. n : i - 1 \in T => i \in T
  PROVE  \A i \in 0 .. n : i \in T
<1> DEFINE Left == {i \in 0 .. n : i \notin T}
<1> SUFFICES ASSUME Left # {} PROVE FALSE
  OBVIOUS
<1>1. PICK i \in Left : \A j \in Left : i <= j
  <2>1. Left \in SUBSET Nat
    OBVIOUS
  <2> HIDE DEF Left
  <2> QED BY <2>1, Smallest
<1>2. i # 0 /\ i \in 1 .. n
  BY <1>1
<1>3. i - 1 \in T
  BY <1>1, <1>2
<1> QED BY <1>1, <1>2, <1>3

\* A loop over states in V: it starts with a and has n turns; and a run of it.
IsLoop(V, a, n, turn) == a \in V /\ n \in Nat /\ turn \in [1 .. n -> [V -> V]]
IsRun(f, V, a, n, turn) ==
    /\ f \in [0 .. n -> V] /\ f[0] = a
    /\ \A i \in 1 .. n : f[i] = turn[i][f[i - 1]]

\* Every loop has a run: the recursive functions that the modules define turn by turn
\* exist, and stay in V.
LEMMA Iteration ==
  ASSUME NEW V, NEW a, NEW n, NEW turn, IsLoop(V, a, n, turn)
  PROVE  \E f : IsRun(f, V, a, n, turn)
<1>0. a \in V /\ n \in Nat /\ turn \in [1 .. n -> [V -> V]]
  BY DEF IsLoop
<1> DEFINE Run(f, k) == /\ f \in [0 .. k -> V] /\ f[0] = a
                        /\ \A i \in 1 .. k : f[i] = turn[i][f[i - 1]]
           T == {k \in 0 .. n : \E f : Run(f, k)}
<1>1. 0 \in T
  <2>1. Run([i \in 0 .. 0 |-> a], 0)
    BY <1>0
  <2>2. 0 \in 0 .. n
    BY <1>0
  <2> QED BY <2>1, <2>2
<1>2. ASSUME NEW k \in 1 .. n, k - 1 \in T
      PROVE  k \in T
  <2>1. PICK f : Run(f, k - 1)
    BY <1>2
  <2> DEFINE h == [i \in 0 .. k |-> IF i = k THEN turn[k][f[k - 1]] ELSE f[i]]
  <2>2. f \in [0 .. k - 1 -> V] /\ f[k - 1] \in V
    BY <2>1
  <2>3. turn[k][f[k - 1]] \in V
    BY <1>0, <2>2
  <2>4. h \in [0 .. k -> V] /\ h[0] = a
    BY <1>0, <2>1, <2>3
  <2>5. ASSUME NEW i \in 1 .. k PROVE h[i] = turn[i][h[i - 1]]
    BY <2>1
  <2>6. Run(h, k)
    <3> HIDE DEF h
    <3> QED BY <2>4, <2>5
  <2>7. k \in 0 .. n
    BY <1>0
  <2> HIDE DEF Run
  <2> QED BY <2>6, <2>7
<1>3. \A i \in 0 .. n : i \in T
  <2> HIDE DEF T
  <2> QED BY <1>0, <1>1, <1>2, Induction
<1> QED BY <1>0, <1>3 DEF IsRun

-----------------------------------------------------------------------------

\* The recursion of Kept has a solution on every prefix, so Kept solves it.
LEMMA KeptIsRecursive ==
  ASSUME NEW s, NEW S, Len(s) \in Nat
  PROVE  Kept(s, S) = [i \in 0 .. Len(s) |->
                         IF i = 0 THEN << >>
                         ELSE IF s[i] \in S THEN Append(Kept(s, S)[i - 1], s[i])
                              ELSE Kept(s, S)[i - 1]]
<1> DEFINE Body(g, i) == IF i = 0 THEN << >>
                         ELSE IF s[i] \in S THEN Append(g[i - 1], s[i]) ELSE g[i - 1]
           Solves(g, n) == g = [i \in 0 .. n |-> Body(g, i)]
           T == {n \in Nat : \E g : Solves(g, n)}
<1>1. 0 \in T
  <2>1. Solves([i \in 0 .. 0 |-> << >>], 0)
    OBVIOUS
  <2> QED BY <2>1
<1>2. ASSUME NEW n \in 1 .. Len(s), n - 1 \in T
      PROVE  n \in T
  <2>1. PICK g : Solves(g, n - 1)
    BY <1>2
  <2> DEFINE h == [i \in 0 .. n |-> IF i = n THEN Body(g, n) ELSE g[i]]
  <2>2. ASSUME NEW i \in 0 .. n PROVE h[i] = Body(h, i)
    <3>1. CASE i = n
      <4>1. h[n - 1] = g[n - 1]
        OBVIOUS
      <4> QED BY <3>1, <4>1
    <3>2. CASE i # n
      <4>1. i \in 0 .. n - 1
        BY <3>2
      <4>2. g[i] = Body(g, i)
        BY <2>1, <4>1
      <4>3. h[i] = g[i] /\ (i # 0 => h[i - 1] = g[i - 1])
        BY <3>2, <4>1
      <4> QED BY <4>2, <4>3
    <3> QED BY <3>1, <3>2
  <2>3. Solves(h, n)
    <3>1. h = [i \in 0 .. n |-> h[i]]
      OBVIOUS
    <3> HIDE DEF h, Body
    <3> QED BY <2>2, <3>1
  <2> HIDE DEF Solves
  <2> QED BY <2>3
<1>3. Len(s) \in T
  <2>1. \A i \in 1 .. Len(s) : i - 1 \in T => i \in T
    BY <1>2
  <2>2. \A i \in 0 .. Len(s) : i \in T
    <3> HIDE DEF T
    <3> QED BY <1>1, <2>1, Induction
  <2> QED BY <2>2
<1>4. PICK g : Solves(g, Len(s))
  BY <1>3
<1>5. Kept(s, S) = CHOOSE k : Solves(k, Len(s))
  BY DEF Kept
<1>6. Solves(Kept(s, S), Len(s))
  <2> HIDE DEF Solves
  <2> QED BY <1>4, <1>5
<1> QED BY <1>6

\* Kept, step by step.
LEMMA KeptSteps ==
  ASSUME NEW s, NEW S, Len(s) \in Nat
  PROVE  /\ Kept(s, S)[0] = << >>
         /\ \A i \in 1 .. Len(s) :
              Kept(s, S)[i] = IF s[i] \in S THEN Append(Kept(s, S)[i - 1], s[i])
                                            ELSE Kept(s, S)[i - 1]
<1> DEFINE k == Kept(s, S)
<1>1. k = [i \in 0 .. Len(s) |->
             IF i = 0 THEN << >>
             ELSE IF s[i] \in S THEN Append(k[i - 1], s[i]) ELSE k[i - 1]]
  BY KeptIsRecursive
<1> HIDE DEF k
<1>2. k[0] = << >>
  <2>1. 0 \in 0 .. Len(s)
    OBVIOUS
  <2> QED BY <1>1, <2>1
<1>3. ASSUME NEW i \in 1 .. Len(s)
      PROVE  k[i] = IF s[i] \in S THEN Append(k[i - 1], s[i]) ELSE k[i - 1]
  <2>1. i \in 0 .. Len(s) /\ i # 0
    OBVIOUS
  <2> QED BY <1>1, <2>1
<1> QED BY <1>2, <1>3 DEF k

\* Every prefix keeps a sequence of members of the first i that are in S, and all of
\* them; if no member comes twice in s, none does in what is kept.
LEMMA KeptPrefix ==
  ASSUME NEW A, NEW s \in Seq(A), NEW S
  PROVE  \A i \in 0 .. Len(s) :
           /\ Kept(s, S)[i] \in Seq(A)
           /\ Range(Kept(s, S)[i]) = {s[j] : j \in 1 .. i} \cap S
           /\ IsInjective(s) => IsInjective(Kept(s, S)[i])
<1> DEFINE k == Kept(s, S)
           Right(i) == /\ k[i] \in Seq(A)
                       /\ Range(k[i]) = {s[j] : j \in 1 .. i} \cap S
                       /\ IsInjective(s) => IsInjective(k[i])
           T == {i \in Nat : Right(i)}
<1>1. /\ k[0] = << >>
      /\ \A i \in 1 .. Len(s) :
           k[i] = IF s[i] \in S THEN Append(k[i - 1], s[i]) ELSE k[i - 1]
  BY KeptSteps
<1> HIDE DEF k
<1>2. 0 \in T
  <2>1. k[0] = << >>
    BY <1>1
  <2>2. 1 .. 0 = {}
    OBVIOUS
  <2>3. {s[j] : j \in 1 .. 0} = {}
    BY <2>2
  <2>4. Range(<< >>) = {} /\ IsInjective(<< >>)
    BY DEF Range, IsInjective
  <2>5. << >> \in Seq(A)
    OBVIOUS
  <2> QED BY <2>1, <2>3, <2>4, <2>5
<1>3. ASSUME NEW i \in 1 .. Len(s), i - 1 \in T
      PROVE  i \in T
  <2>1. Right(i - 1)
    BY <1>3
  <2>2. {s[j] : j \in 1 .. i} = {s[j] : j \in 1 .. i - 1} \cup {s[i]}
    OBVIOUS
  <2>3. s[i] \in A
    OBVIOUS
  <2>4. CASE s[i] \notin S
    BY <1>1, <2>1, <2>2, <2>4
  <2>5. CASE s[i] \in S
    <3> DEFINE q == k[i - 1]
    <3>1. k[i] = Append(q, s[i]) /\ q \in Seq(A)
      BY <1>1, <2>1, <2>5
    <3> HIDE DEF q
    <3>2. /\ Append(q, s[i]) \in Seq(A)
          /\ DOMAIN Append(q, s[i]) = 1 .. Len(q) + 1
          /\ \A j \in 1 .. Len(q) : Append(q, s[i])[j] = q[j]
          /\ Append(q, s[i])[Len(q) + 1] = s[i]
      BY <2>3, <3>1
    <3>3. Range(Append(q, s[i])) = Range(q) \cup {s[i]}
      BY <3>1, <3>2 DEF Range
    <3>4. Range(q) = {s[j] : j \in 1 .. i - 1} \cap S
      BY <2>1 DEF q
    <3>5. ASSUME IsInjective(s) PROVE IsInjective(Append(q, s[i]))
      <4>1. IsInjective(q)
        BY <2>1, <3>5 DEF q
      <4>2. \A j \in 1 .. i - 1 : s[j] # s[i]
        BY <3>5 DEF IsInjective
      <4>3. \A j \in 1 .. Len(q) : q[j] # s[i]
        <5> SUFFICES ASSUME NEW j \in 1 .. Len(q) PROVE q[j] # s[i]
          OBVIOUS
        <5>1. q[j] \in Range(q)
          BY <3>1 DEF Range
        <5> QED BY <3>4, <4>2, <5>1
      <4> QED BY <3>1, <3>2, <4>1, <4>3 DEF IsInjective
    <3>6. Range(k[i]) = {s[j] : j \in 1 .. i} \cap S
      BY <2>2, <2>5, <3>1, <3>3, <3>4
    <3>7. Right(i)
      BY <3>1, <3>2, <3>5, <3>6
    <3> HIDE DEF Right
    <3> QED BY <3>7
  <2> QED BY <2>4, <2>5
<1>4. \A i \in 0 .. Len(s) : i \in T
  <2>1. \A i \in 1 .. Len(s) : i - 1 \in T => i \in T
    BY <1>3
  <2>2. Len(s) \in Nat
    OBVIOUS
  <2> HIDE DEF T
  <2> QED BY <1>2, <2>1, <2>2, Induction
<1>5. \A i \in 0 .. Len(s) : Right(i)
  BY <1>4
<1> QED BY <1>5 DEF k

\* What is kept is a sequence of the members of s that are in S, all of them, and none
\* twice that is once in s.
LEMMA KeepProperties ==
  ASSUME NEW A, NEW s \in Seq(A), NEW S
  PROVE  /\ Keep(s, S) \in Seq(A)
         /\ Range(Keep(s, S)) = Range(s) \cap S
         /\ IsInjective(s) => IsInjective(Keep(s, S))
<1>1. Len(s) \in 0 .. Len(s)
  OBVIOUS
<1>2. Range(s) = {s[j] : j \in 1 .. Len(s)}
  BY DEF Range
<1>3. /\ Kept(s, S)[Len(s)] \in Seq(A)
      /\ Range(Kept(s, S)[Len(s)]) = {s[j] : j \in 1 .. Len(s)} \cap S
      /\ IsInjective(s) => IsInjective(Kept(s, S)[Len(s)])
  BY <1>1, KeptPrefix
<1> QED BY <1>2, <1>3 DEF Keep

\* What is kept of the first members depends on nothing that comes after them.
LEMMA KeptAgrees ==
  ASSUME NEW s, NEW u, NEW S, Len(s) \in Nat, Len(u) \in Nat,
         NEW n \in Nat, n <= Len(s), n <= Len(u), \A i \in 1 .. n : s[i] = u[i]
  PROVE  \A i \in 0 .. n : Kept(s, S)[i] = Kept(u, S)[i]
<1> DEFINE k == Kept(s, S)
           h == Kept(u, S)
           T == {i \in Nat : k[i] = h[i]}
<1>1. /\ k[0] = << >>
      /\ \A i \in 1 .. Len(s) : k[i] = IF s[i] \in S THEN Append(k[i - 1], s[i]) ELSE k[i - 1]
  BY KeptSteps
<1>2. /\ h[0] = << >>
      /\ \A i \in 1 .. Len(u) : h[i] = IF u[i] \in S THEN Append(h[i - 1], u[i]) ELSE h[i - 1]
  BY KeptSteps
<1> HIDE DEF k, h
<1>3. 0 \in T
  BY <1>1, <1>2
<1>4. \A i \in 1 .. n : i - 1 \in T => i \in T
  <2> SUFFICES ASSUME NEW i \in 1 .. n, k[i - 1] = h[i - 1] PROVE k[i] = h[i]
    OBVIOUS
  <2>1. i \in 1 .. Len(s) /\ i \in 1 .. Len(u) /\ s[i] = u[i]
    OBVIOUS
  <2>. QED
    BY <1>1, <1>2, <2>1
<1>5. \A i \in 0 .. n : i \in T
  <2> HIDE DEF T
  <2>. QED
    BY <1>3, <1>4, Induction
<1>. QED
  BY <1>5 DEF k, h

\* What is kept of two lists is what is kept of the one and of the other.
LEMMA KeepConcat ==
  ASSUME NEW A, NEW s \in Seq(A), NEW u \in Seq(A), NEW S
  PROVE  Keep(s \o u, S) = Keep(s, S) \o Keep(u, S)
<1>1. PICK c : c = s \o u
  OBVIOUS
<1>2. PICK m \in Nat : m = Len(s)
  OBVIOUS
<1>3. PICK n \in Nat : n = Len(u)
  OBVIOUS
<1>4. /\ c \in Seq(A) /\ Len(c) = m + n /\ Len(c) \in Nat
      /\ \A i \in 1 .. m : c[i] = s[i]
      /\ \A i \in 1 .. n : c[m + i] = u[i] /\ u[i] \in A
  BY <1>1, <1>2, <1>3
<1>5. PICK k, h, a : k = Kept(c, S) /\ h = Kept(u, S) /\ a = Keep(s, S)
  OBVIOUS
<1>6. /\ h[0] = << >>
      /\ \A i \in 1 .. n : h[i] = IF u[i] \in S THEN Append(h[i - 1], u[i]) ELSE h[i - 1]
  BY <1>3, <1>5, KeptSteps
<1>7. \A i \in 1 .. m + n : k[i] = IF c[i] \in S THEN Append(k[i - 1], c[i]) ELSE k[i - 1]
  BY <1>4, <1>5, KeptSteps
<1>8. a \in Seq(A) /\ \A i \in 0 .. n : h[i] \in Seq(A)
  BY <1>3, <1>5, KeepProperties, KeptPrefix
<1>9. k[m] = a
  <2>1. m \in 0 .. m /\ m <= Len(s) /\ m <= Len(c)
    BY <1>2, <1>3, <1>4
  <2>2. \A i \in 0 .. m : Kept(s, S)[i] = Kept(c, S)[i]
    BY <1>2, <1>4, <2>1, KeptAgrees
  <2>. QED
    BY <1>2, <1>5, <2>1, <2>2 DEF Keep
<1>10. \A q \in Seq(A) : \A e \in A : Append(a \o q, e) = a \o Append(q, e)
  <2> TAKE q \in Seq(A)
  <2> TAKE e \in A
  <2>1. << e >> \in Seq(A) /\ a \in Seq(A)
    BY <1>8
  <2>2. Append(q, e) = q \o << e >>
    BY AppendIsConcat
  <2>3. a \o q \in Seq(A)
    BY <2>1
  <2>4. Append(a \o q, e) = (a \o q) \o << e >>
    BY <2>3, AppendIsConcat
  <2>5. (a \o q) \o << e >> = a \o (q \o << e >>)
    BY <2>1, ConcatAssociative
  <2>. QED
    BY <2>2, <2>4, <2>5
<1> DEFINE P(i) == k[m + i] = a \o h[i]
           T == {i \in Nat : P(i)}
<1>11. P(0)
  BY <1>2, <1>6, <1>8, <1>9
<1>12. ASSUME NEW i \in 1 .. n, P(i - 1)
       PROVE  P(i)
  <2>1. m + i \in 1 .. m + n /\ (m + i) - 1 = m + (i - 1) /\ i - 1 \in 0 .. n
    BY <1>2, <1>3
  <2>2. c[m + i] = u[i] /\ u[i] \in A
    BY <1>4
  <2>3. k[m + i] = IF u[i] \in S THEN Append(k[m + (i - 1)], u[i]) ELSE k[m + (i - 1)]
    BY <1>7, <2>1, <2>2
  <2>4. h[i - 1] \in Seq(A)
    BY <1>8, <2>1
  <2>5. Append(a \o h[i - 1], u[i]) = a \o Append(h[i - 1], u[i])
    BY <1>10, <2>2, <2>4
  <2>6. k[m + (i - 1)] = a \o h[i - 1]
    BY <1>12
  <2>. QED
    BY <1>6, <2>3, <2>5, <2>6
<1> HIDE DEF P
<1>13. 0 \in T /\ \A i \in 1 .. n : i - 1 \in T => i \in T
  BY <1>3, <1>11, <1>12
<1>14. \A i \in 0 .. n : i \in T
  <2> HIDE DEF T
  <2>. QED
    BY <1>3, <1>13, Induction
<1>15. P(n)
  BY <1>3, <1>14
<1>. QED
  BY <1>1, <1>3, <1>4, <1>5, <1>15 DEF Keep, P

\* What is kept of nothing, and of one member.
LEMMA KeepOne ==
  ASSUME NEW e, NEW S
  PROVE  /\ Keep(<< >>, S) = << >>
         /\ Keep(<< e >>, S) = IF e \in S THEN << e >> ELSE << >>
<1>1. Len(<< >>) = 0 /\ Len(<< e >>) = 1 /\ << e >>[1] = e /\ Append(<< >>, e) = << e >>
  OBVIOUS
<1>2. Kept(<< >>, S)[0] = << >>
  BY <1>1, KeptSteps
<1>3. PICK s : s = << e >>
  OBVIOUS
<1>4. /\ Kept(s, S)[0] = << >>
      /\ \A i \in 1 .. Len(s) :
           Kept(s, S)[i] = IF s[i] \in S THEN Append(Kept(s, S)[i - 1], s[i])
                                         ELSE Kept(s, S)[i - 1]
  BY <1>1, <1>3, KeptSteps
<1>5. Kept(s, S)[1] = IF e \in S THEN << e >> ELSE << >>
  <2>1. 1 \in 1 .. Len(s) /\ 1 - 1 = 0
    BY <1>1, <1>3
  <2>. QED
    BY <1>1, <1>3, <1>4, <2>1
<1>. QED
  BY <1>1, <1>2, <1>3, <1>5 DEF Keep

-----------------------------------------------------------------------------
(* The members of lists that are put together and taken apart.              *)

\* A sequence has no member just when it is empty, and its members are of its set.
LEMMA RangeProperties ==
  ASSUME NEW A, NEW s \in Seq(A)
  PROVE  /\ Range(s) \subseteq A
         /\ Range(s) = {} <=> s = << >>
<1>1. \A i \in 1 .. Len(s) : s[i] \in A
  OBVIOUS
<1>2. s # << >> => s[1] \in Range(s)
  BY DEF Range
<1>3. Range(<< >>) = {}
  BY DEF Range
<1> QED BY <1>1, <1>2, <1>3 DEF Range

LEMMA EmptyProperties == Range(<< >>) = {} /\ IsInjective(<< >>)
BY DEF Range, IsInjective

\* A member put at the end.
LEMMA AppendMembers ==
  ASSUME NEW A, NEW s \in Seq(A), NEW e \in A
  PROVE  /\ Append(s, e) \in Seq(A) /\ Append(s, e) # << >>
         /\ Range(Append(s, e)) = Range(s) \cup {e}
         /\ IsInjective(s) /\ e \notin Range(s) => IsInjective(Append(s, e))
<1>1. /\ Append(s, e) \in Seq(A)
      /\ DOMAIN Append(s, e) = 1 .. Len(s) + 1
      /\ \A j \in 1 .. Len(s) : Append(s, e)[j] = s[j]
      /\ Append(s, e)[Len(s) + 1] = e
  OBVIOUS
<1>2. Range(Append(s, e)) = Range(s) \cup {e}
  BY <1>1 DEF Range
<1>3. \A j \in 1 .. Len(s) : s[j] \in Range(s)
  BY DEF Range
<1>4. ASSUME IsInjective(s), e \notin Range(s) PROVE IsInjective(Append(s, e))
  BY <1>1, <1>3, <1>4 DEF IsInjective
<1>5. Append(s, e) # << >>
  BY <1>2, EmptyProperties
<1> QED BY <1>1, <1>2, <1>4, <1>5

\* Two lists behind each other.
LEMMA ConcatMembers ==
  ASSUME NEW A, NEW s \in Seq(A), NEW u \in Seq(A)
  PROVE  /\ s \o u \in Seq(A)
         /\ Range(s \o u) = Range(s) \cup Range(u)
         /\ IsInjective(s) /\ IsInjective(u) /\ Range(s) \cap Range(u) = {}
              <=> IsInjective(s \o u)
<1> DEFINE c == s \o u
<1>1. /\ c \in Seq(A)
      /\ DOMAIN c = 1 .. Len(s) + Len(u)
      /\ \A j \in 1 .. Len(s) : c[j] = s[j]
      /\ \A j \in 1 .. Len(u) : c[Len(s) + j] = u[j]
  OBVIOUS
<1> HIDE DEF c
<1>2. \A j \in DOMAIN c : j \in 1 .. Len(s) \/ (j - Len(s) \in 1 .. Len(u) /\ c[j] = u[j - Len(s)])
  BY <1>1
<1>3. Range(c) = Range(s) \cup Range(u)
  <2>1. Range(c) \subseteq Range(s) \cup Range(u)
    BY <1>1, <1>2 DEF Range
  <2>2. Range(s) \subseteq Range(c)
    <3> SUFFICES ASSUME NEW j \in 1 .. Len(s) PROVE s[j] \in Range(c)
      BY DEF Range
    <3>1. PICK m \in Nat, n \in Nat : m = Len(s) /\ n = Len(u)
      OBVIOUS
    <3>2. j \in 1 .. m + n
      BY <3>1
    <3>3. j \in DOMAIN c
      BY <1>1, <3>1, <3>2
    <3>4. c[j] = s[j]
      BY <1>1
    <3> QED BY <3>3, <3>4 DEF Range
  <2>3. Range(u) \subseteq Range(c)
    <3> SUFFICES ASSUME NEW j \in 1 .. Len(u) PROVE u[j] \in Range(c)
      BY DEF Range
    <3>1. Len(s) + j \in DOMAIN c /\ c[Len(s) + j] = u[j]
      BY <1>1
    <3> QED BY <3>1 DEF Range
  <2> QED BY <2>1, <2>2, <2>3
<1>4. ASSUME IsInjective(s), IsInjective(u), Range(s) \cap Range(u) = {}
      PROVE  IsInjective(c)
  <2> SUFFICES ASSUME NEW a \in DOMAIN c, NEW b \in DOMAIN c, c[a] = c[b] PROVE a = b
    BY DEF IsInjective
  <2>1. \A j \in 1 .. Len(s) : s[j] \in Range(s)
    BY DEF Range
  <2>2. \A j \in 1 .. Len(u) : u[j] \in Range(u)
    BY DEF Range
  <2>3. CASE a \in 1 .. Len(s) /\ b \in 1 .. Len(s)
    BY <1>1, <1>4, <2>3 DEF IsInjective
  <2>4. CASE a \notin 1 .. Len(s) /\ b \notin 1 .. Len(s)
    <3>1. u[a - Len(s)] = u[b - Len(s)]
      BY <1>2, <2>4
    <3>2. a - Len(s) = b - Len(s)
      BY <1>2, <1>4, <2>4, <3>1 DEF IsInjective
    <3> QED BY <1>1, <3>2
  <2>5. CASE a \in 1 .. Len(s) /\ b \notin 1 .. Len(s)
    BY <1>1, <1>2, <1>4, <2>1, <2>2, <2>5
  <2>6. CASE a \notin 1 .. Len(s) /\ b \in 1 .. Len(s)
    BY <1>1, <1>2, <1>4, <2>1, <2>2, <2>6
  <2> QED BY <2>3, <2>4, <2>5, <2>6
<1>5. ASSUME IsInjective(c)
      PROVE  IsInjective(s) /\ IsInjective(u) /\ Range(s) \cap Range(u) = {}
  <2>1. IsInjective(s)
    <3> SUFFICES ASSUME NEW a \in 1 .. Len(s), NEW b \in 1 .. Len(s), s[a] = s[b] PROVE a = b
      BY DEF IsInjective
    <3>1. 1 .. Len(s) \subseteq DOMAIN c
      <4>1. PICK m \in Nat, n \in Nat : m = Len(s) /\ n = Len(u)
        OBVIOUS
      <4>2. 1 .. m \subseteq 1 .. m + n
        BY <4>1
      <4> QED BY <1>1, <4>1, <4>2
    <3>2. a \in DOMAIN c /\ b \in DOMAIN c
      BY <3>1
    <3>3. c[a] = s[a] /\ c[b] = s[b]
      BY <1>1
    <3> QED BY <1>5, <3>2, <3>3 DEF IsInjective
  <2>2. IsInjective(u)
    <3> SUFFICES ASSUME NEW a \in 1 .. Len(u), NEW b \in 1 .. Len(u), u[a] = u[b] PROVE a = b
      BY DEF IsInjective
    <3>1. c[Len(s) + a] = c[Len(s) + b] /\ Len(s) + a \in DOMAIN c /\ Len(s) + b \in DOMAIN c
      BY <1>1
    <3>2. Len(s) + a = Len(s) + b
      BY <1>5, <3>1 DEF IsInjective
    <3> QED BY <3>2
  <2>3. ASSUME NEW a \in 1 .. Len(s), NEW b \in 1 .. Len(u), s[a] = u[b] PROVE FALSE
    <3>1. c[a] = c[Len(s) + b] /\ a \in DOMAIN c /\ Len(s) + b \in DOMAIN c
      BY <1>1, <2>3
    <3>2. a = Len(s) + b
      BY <1>5, <3>1 DEF IsInjective
    <3> QED BY <3>2
  <2>4. Range(s) \cap Range(u) = {}
    BY <2>3 DEF Range
  <2> QED BY <2>1, <2>2, <2>4
<1> QED BY <1>1, <1>3, <1>4, <1>5 DEF c

\* A member put in front.
LEMMA PushMembers ==
  ASSUME NEW A, NEW s \in Seq(A), NEW e \in A
  PROVE  /\ << e >> \o s \in Seq(A) /\ << e >> \o s # << >>
         /\ Range(<< e >> \o s) = Range(s) \cup {e}
         /\ IsInjective(s) /\ e \notin Range(s) => IsInjective(<< e >> \o s)
<1> DEFINE h == << e >>
<1>1. h \in Seq(A)
  OBVIOUS
<1>2. Range(h) = {e} /\ IsInjective(h)
  BY DEF Range, IsInjective
<1> HIDE DEF h
<1>3. /\ h \o s \in Seq(A)
      /\ Range(h \o s) = Range(h) \cup Range(s)
      /\ IsInjective(h) /\ IsInjective(s) /\ Range(h) \cap Range(s) = {}
           => IsInjective(h \o s)
  BY <1>1, ConcatMembers
<1>4. h \o s # << >>
  BY <1>2, <1>3, EmptyProperties
<1>5. IsInjective(s) /\ e \notin Range(s) => IsInjective(h \o s)
  BY <1>2, <1>3
<1>6. Range(h \o s) = Range(s) \cup {e}
  BY <1>2, <1>3
<1> QED BY <1>3, <1>4, <1>5, <1>6 DEF h

\* The first member taken off.
LEMMA TailMembers ==
  ASSUME NEW A, NEW s \in Seq(A), s # << >>
  PROVE  /\ Head(s) \in A /\ Tail(s) \in Seq(A)
         /\ Range(s) = {Head(s)} \cup Range(Tail(s))
         /\ IsInjective(s) => IsInjective(Tail(s)) /\ Head(s) \notin Range(Tail(s))
<1> DEFINE h == << Head(s) >>
           r == Tail(s)
<1>1. Head(s) \in A /\ h \in Seq(A) /\ r \in Seq(A) /\ s = h \o r
  OBVIOUS
<1>2. Range(h) = {Head(s)}
  BY DEF Range
<1> HIDE DEF h, r
<1>3. /\ Range(h \o r) = Range(h) \cup Range(r)
      /\ IsInjective(h \o r) => IsInjective(r) /\ Range(h) \cap Range(r) = {}
  BY <1>1, ConcatMembers
<1>4. Range(s) = {Head(s)} \cup Range(r)
  BY <1>1, <1>2, <1>3
<1>5. IsInjective(s) => IsInjective(r) /\ Head(s) \notin Range(r)
  BY <1>1, <1>2, <1>3
<1> QED BY <1>1, <1>4, <1>5 DEF r

=============================================================================
