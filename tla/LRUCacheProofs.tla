--------------------------- MODULE LRUCacheProofs ---------------------------
(***************************************************************************)
(* For any keys, values and capacity the LRU cache is the most recent part *)
(* of its history. The three properties are inductive together, once it is *)
(* said that each node in the list was filled and that the history knows   *)
(* every key in the map.                                                   *)
(***************************************************************************)
EXTENDS LRUCache, FilterProofs

Node == [key : Keys, value : Values]

Filled == \A n \in Range(logiclists) : heap[n] \in Node

Known == DOMAIN values \subseteq DOMAIN last

\* used_ counts at least what is in the list.
Drift == used >= Len(logiclists)

CInv == TypeOK /\ MapIsList /\ HitIsLatest /\ MostRecent /\ Filled /\ Known /\ Drift

\* The keys of the nodes of s are what r begins with.
Leads(h, s, r) ==
    Len(s) <= Len(r) /\ \A i \in 1 .. Len(s) : h[s[i]].key = r[i]

-----------------------------------------------------------------------------
(* Lists, and the keys of their nodes.                                      *)

LEMMA LeadsIsPrefix ==
    ASSUME NEW h, NEW s \in Seq(Nodes), NEW r \in Seq(Keys)
    PROVE  IsPrefix([i \in DOMAIN s |-> h[s[i]].key], r) <=> Leads(h, s, r)
  <1>1. PICK n \in Nat : n = Len(s)
    OBVIOUS
  <1>2. DOMAIN s = 1 .. n /\ Len(r) \in Nat
    BY <1>1
  <1>3. PICK t : t = [i \in DOMAIN s |-> h[s[i]].key]
    OBVIOUS
  <1>4. Len(t) = n /\ \A i \in 1 .. n : t[i] = h[s[i]].key
    BY <1>2, <1>3
  <1>5. PICK x, y : x = SubSeq(t, 1, n) /\ y = SubSeq(r, 1, n)
    OBVIOUS
  <1>6. x = [i \in 1 .. n |-> t[i]] /\ y = [i \in 1 .. n |-> r[i]]
    BY <1>1, <1>5
  <1>7. x = y <=> \A i \in 1 .. n : t[i] = r[i]
    <2>1. \A i \in 1 .. n : x[i] = t[i] /\ y[i] = r[i]
      BY <1>6
    <2>2. (\A i \in 1 .. n : t[i] = r[i]) => x = y
      BY <1>6
    <2>. QED
      BY <2>1, <2>2
  <1>8. IsPrefix(t, r) <=> n <= Len(r) /\ \A i \in 1 .. n : t[i] = r[i]
    BY <1>4, <1>5, <1>7 DEF IsPrefix
  <1>. QED
    BY <1>1, <1>3, <1>4, <1>8 DEF Leads

LEMMA MemberOfRange ==
    ASSUME NEW A, NEW s \in Seq(A), NEW i \in 1 .. Len(s)
    PROVE  s[i] \in Range(s)
  BY DEF Range

\* What is kept of a list whose first m members are in S and no others.
LEMMA KeepFront ==
    ASSUME NEW A, NEW s \in Seq(A), NEW S, NEW m \in 0 .. Len(s),
           \A i \in 1 .. Len(s) : s[i] \in S <=> i <= m
    PROVE  /\ Keep(s, S) \in Seq(A) /\ Len(Keep(s, S)) = m
           /\ \A i \in 1 .. m : Keep(s, S)[i] = s[i]
  <1>1. PICK n \in Nat : n = Len(s)
    OBVIOUS
  <1>2. PICK k : k = Kept(s, S)
    OBVIOUS
  <1>3. /\ k[0] = << >>
        /\ \A i \in 1 .. n : k[i] = IF s[i] \in S THEN Append(k[i - 1], s[i]) ELSE k[i - 1]
    BY <1>1, <1>2, KeptSteps
  <1>4. PICK T : T = {i \in Nat : /\ k[i] \in Seq(A)
                                  /\ Len(k[i]) = IF i <= m THEN i ELSE m
                                  /\ \A j \in 1 .. Len(k[i]) : k[i][j] = s[j]}
    OBVIOUS
  <1>5. 0 \in T
    <2>1. << >> \in Seq(A) /\ Len(<< >>) = 0 /\ 0 <= m
      OBVIOUS
    <2>2. k[0] \in Seq(A) /\ Len(k[0]) = IF 0 <= m THEN 0 ELSE m
      BY <1>3, <2>1
    <2>3. 1 .. Len(k[0]) = {}
      BY <1>3, <2>1
    <2>. QED
      BY <1>4, <2>2, <2>3
  <1>6. ASSUME NEW i \in 1 .. n, i - 1 \in T PROVE i \in T
    <2>1. /\ k[i - 1] \in Seq(A)
          /\ Len(k[i - 1]) = IF i - 1 <= m THEN i - 1 ELSE m
          /\ \A j \in 1 .. Len(k[i - 1]) : k[i - 1][j] = s[j]
      BY <1>4, <1>6
    <2>2. s[i] \in A /\ i \in 1 .. Len(s)
      BY <1>1
    <2>3. CASE i <= m
      <3>1. k[i] = Append(k[i - 1], s[i])
        BY <1>3, <2>2, <2>3
      <3>2. Len(k[i - 1]) = i - 1
        BY <2>1, <2>3
      <3>3. k[i] \in Seq(A) /\ Len(k[i]) = i
        BY <2>1, <2>2, <3>1, <3>2
      <3>4. \A j \in 1 .. i : k[i][j] = s[j]
        BY <2>1, <2>2, <3>1, <3>2
      <3>. QED
        BY <1>4, <2>3, <3>3, <3>4
    <2>4. CASE ~(i <= m)
      <3>1. k[i] = k[i - 1]
        BY <1>3, <2>2, <2>4
      <3>2. Len(k[i]) = m
        BY <2>1, <2>4, <3>1
      <3>. QED
        BY <1>4, <2>1, <2>4, <3>1, <3>2
    <2>. QED
      BY <2>3, <2>4
  <1>7. \A i \in 0 .. n : i \in T
    BY <1>5, <1>6, Induction
  <1>8. n \in T /\ m <= n
    BY <1>1, <1>7
  <1>. QED
    BY <1>1, <1>2, <1>4, <1>8 DEF Keep

\* Taking the nodes of some keys from a list, and these keys from what the list is
\* the front of, leaves a front.
LEMMA KeepFronts ==
    ASSUME NEW h, NEW s \in Seq(Nodes), NEW r \in Seq(Keys), Leads(h, s, r),
           NEW S, NEW K, \A i \in 1 .. Len(s) : s[i] \in S <=> h[s[i]].key \in K
    PROVE  Leads(h, Keep(s, S), Keep(r, K))
  <1>1. PICK n \in Nat, m \in Nat : n = Len(s) /\ m = Len(r)
    OBVIOUS
  <1>2. PICK a, b : a = Kept(s, S) /\ b = Kept(r, K)
    OBVIOUS
  <1>3. /\ a[0] = << >>
        /\ \A i \in 1 .. n : a[i] = IF s[i] \in S THEN Append(a[i - 1], s[i]) ELSE a[i - 1]
    BY <1>1, <1>2, KeptSteps
  <1>4. /\ b[0] = << >>
        /\ \A i \in 1 .. m : b[i] = IF r[i] \in K THEN Append(b[i - 1], r[i]) ELSE b[i - 1]
    BY <1>1, <1>2, KeptSteps
  <1>5. n <= m /\ \A i \in 1 .. n : h[s[i]].key = r[i]
    BY <1>1 DEF Leads
  <1>6. PICK T : T = {i \in Nat : /\ a[i] \in Seq(Nodes) /\ b[i] \in Seq(Keys)
                                  /\ Len(a[i]) = Len(b[i])
                                  /\ \A j \in 1 .. Len(a[i]) : h[a[i][j]].key = b[i][j]}
    OBVIOUS
  <1>7. 0 \in T
    <2>1. << >> \in Seq(Nodes) /\ << >> \in Seq(Keys) /\ Len(<< >>) = 0
      OBVIOUS
    <2>2. a[0] \in Seq(Nodes) /\ b[0] \in Seq(Keys) /\ Len(a[0]) = Len(b[0])
      BY <1>3, <1>4, <2>1
    <2>3. 1 .. Len(a[0]) = {}
      BY <1>3, <2>1
    <2>. QED
      BY <1>6, <2>2, <2>3
  <1>8. ASSUME NEW i \in 1 .. n, i - 1 \in T PROVE i \in T
    <2>1. PICK x, y : x = a[i - 1] /\ y = b[i - 1]
      OBVIOUS
    <2>2. /\ x \in Seq(Nodes) /\ y \in Seq(Keys) /\ Len(x) = Len(y)
          /\ \A j \in 1 .. Len(x) : h[x[j]].key = y[j]
      BY <1>6, <1>8, <2>1
    <2>3. i \in 1 .. m /\ s[i] \in Nodes /\ r[i] \in Keys /\ h[s[i]].key = r[i]
      BY <1>1, <1>5
    <2>4. s[i] \in S <=> r[i] \in K
      BY <1>1, <2>3
    <2>5. CASE s[i] \in S
      <3>1. a[i] = Append(x, s[i]) /\ b[i] = Append(y, r[i])
        BY <1>3, <1>4, <2>1, <2>3, <2>4, <2>5
      <3>2. /\ a[i] \in Seq(Nodes) /\ b[i] \in Seq(Keys)
            /\ Len(a[i]) = Len(x) + 1 /\ Len(b[i]) = Len(x) + 1
        BY <2>2, <2>3, <3>1
      <3>3. \A j \in 1 .. Len(x) + 1 : h[a[i][j]].key = b[i][j]
        BY <2>2, <2>3, <3>1
      <3>. QED
        BY <1>6, <3>2, <3>3
    <2>6. CASE s[i] \notin S
      BY <1>3, <1>4, <1>6, <2>1, <2>2, <2>3, <2>4, <2>6
    <2>. QED
      BY <2>5, <2>6
  <1>9. n \in T
    <2>1. \A i \in 0 .. n : i \in T
      BY <1>7, <1>8, Induction
    <2>. QED
      BY <2>1
  <1>10. Leads(h, a[n], b[n]) /\ a[n] \in Seq(Nodes) /\ b[n] \in Seq(Keys)
    BY <1>6, <1>9 DEF Leads
  <1>11. PICK y : y = b[n]
    OBVIOUS
  <1>12. PICK U : U = {d \in Nat : n + d <= m =>
                          /\ b[n + d] \in Seq(Keys) /\ Len(y) <= Len(b[n + d])
                          /\ \A j \in 1 .. Len(y) : b[n + d][j] = y[j]}
    OBVIOUS
  <1>13. 0 \in U
    BY <1>10, <1>11, <1>12
  <1>14. ASSUME NEW d \in 1 .. m - n, d - 1 \in U PROVE d \in U
    <2>1. n + d \in 1 .. m /\ n + (d - 1) <= m /\ n + d - 1 = n + (d - 1)
      BY <1>5
    <2>2. PICK z : z = b[n + (d - 1)]
      OBVIOUS
    <2>3. z \in Seq(Keys) /\ Len(y) <= Len(z) /\ \A j \in 1 .. Len(y) : z[j] = y[j]
      BY <1>12, <1>14, <2>1, <2>2
    <2>4. r[n + d] \in Keys /\ Len(y) \in Nat
      BY <1>1, <1>10, <1>11, <2>1
    <2>5. b[n + d] = Append(z, r[n + d]) \/ b[n + d] = z
      <3>1. PICK i \in 1 .. m : i = n + d /\ i - 1 = n + (d - 1)
        BY <2>1
      <3>2. b[i] = Append(b[i - 1], r[i]) \/ b[i] = b[i - 1]
        BY <1>4
      <3>. QED
        BY <2>2, <3>1, <3>2
    <2>6. /\ b[n + d] \in Seq(Keys) /\ Len(y) <= Len(b[n + d])
          /\ \A j \in 1 .. Len(y) : b[n + d][j] = y[j]
      <3>1. PICK e, c : e = r[n + d] /\ c = b[n + d]
        OBVIOUS
      <3>2. PICK l \in Nat : l = Len(z)
        BY <2>3
      <3>3. \A j \in 1 .. Len(y) : j \in 1 .. l
        BY <2>3, <2>4, <3>2
      <3>4. CASE c = z
        BY <2>3, <3>1, <3>4
      <3>5. CASE c = Append(z, e)
        <4>1. c \in Seq(Keys) /\ Len(c) = l + 1 /\ \A j \in 1 .. l : c[j] = z[j]
          BY <2>3, <2>4, <3>1, <3>2, <3>5
        <4>2. Len(y) <= Len(c)
          BY <2>3, <2>4, <3>2, <4>1
        <4>. QED
          BY <2>3, <3>1, <3>3, <4>1, <4>2
      <3>. QED
        BY <2>5, <3>1, <3>4, <3>5
    <2>. QED
      BY <1>12, <2>6
  <1>15. m - n \in U
    <2>1. m - n \in Nat
      BY <1>5
    <2>2. \A d \in 0 .. m - n : d \in U
      BY <1>13, <1>14, <2>1, Induction
    <2>. QED
      BY <2>1, <2>2
  <1>16. Len(y) <= Len(b[m]) /\ \A j \in 1 .. Len(y) : b[m][j] = y[j]
    <2>1. n + (m - n) = m
      OBVIOUS
    <2>. QED
      BY <1>12, <1>15, <2>1
  <1>17. Leads(h, a[n], b[m])
    <2>1. Len(b[m]) \in Nat
      <3>1. b[m] \in Seq(Keys)
        BY <1>12, <1>15
      <3>. QED
        BY <3>1
    <2>2. PICK x, z : x = a[n] /\ z = b[m]
      OBVIOUS
    <2>3. Len(x) <= Len(y) /\ \A i \in 1 .. Len(x) : h[x[i]].key = y[i]
      BY <1>10, <1>11, <2>2 DEF Leads
    <2>4. Len(x) \in Nat /\ Len(y) \in Nat
      BY <1>10, <1>11, <2>2
    <2>5. Len(x) <= Len(z) /\ \A i \in 1 .. Len(x) : z[i] = y[i]
      BY <1>16, <2>1, <2>2, <2>3, <2>4
    <2>. QED
      BY <2>2, <2>3, <2>5 DEF Leads
  <1>. QED
    BY <1>1, <1>2, <1>17 DEF Keep

\* What is kept without the first member.
LEMMA KeepTail ==
    ASSUME NEW A, NEW s \in Seq(A), s # << >>, IsInjective(s)
    PROVE  Keep(s, A \ {s[1]}) = Tail(s)
  <1>1. PICK h, t, S : h = << s[1] >> /\ t = Tail(s) /\ S = A \ {s[1]}
    OBVIOUS
  <1>2. h \in Seq(A) /\ t \in Seq(A) /\ s = h \o t
    BY <1>1
  <1>3. s[1] \notin Range(t) /\ Range(t) \subseteq A
    <2>1. Head(s) = s[1]
      OBVIOUS
    <2>2. Head(s) \notin Range(Tail(s))
      BY TailMembers
    <2>. QED
      BY <1>1, <1>2, <2>1, <2>2, RangeProperties
  <1>4. Keep(h, S) = << >>
    BY <1>1, KeepOne
  <1>5. Keep(t, S) = t
    <2>1. PICK m \in Nat : m = Len(t)
      BY <1>2
    <2>2. \A i \in 1 .. m : t[i] \in Range(t)
      BY <1>2, <2>1, MemberOfRange
    <2>3. \A i \in 1 .. Len(t) : t[i] \in S <=> i <= m
      BY <1>1, <1>3, <2>1, <2>2
    <2>4. m \in 0 .. Len(t)
      BY <2>1
    <2>5. PICK u : u = Keep(t, S)
      OBVIOUS
    <2>6. u \in Seq(A) /\ Len(u) = m /\ \A i \in 1 .. m : u[i] = t[i]
      BY <1>2, <2>3, <2>4, <2>5, KeepFront
    <2>. QED
      BY <1>2, <2>1, <2>5, <2>6, SeqEqual
  <1>6. Keep(s, S) = Keep(h, S) \o Keep(t, S)
    BY <1>2, KeepConcat
  <1>7. << >> \o t = t
    BY <1>2, ConcatEmptySeq
  <1>. QED
    BY <1>1, <1>4, <1>5, <1>6, <1>7

\* A list in which none comes twice is as long as it has members.
LEMMA LenIsCardinality ==
    ASSUME NEW A, NEW s \in Seq(A), IsInjective(s)
    PROVE  IsFiniteSet(Range(s)) /\ Cardinality(Range(s)) = Len(s)
  <1>1. PICK n \in Nat : n = Len(s)
    OBVIOUS
  <1>2. s \in [1 .. n -> Range(s)] /\ DOMAIN s = 1 .. n
    BY <1>1 DEF Range
  <1>3. s \in Bijection(1 .. n, Range(s))
    BY <1>2 DEF Bijection, Injection, Surjection, Range
  <1>4. ExistsBijection(1 .. n, Range(s))
    BY <1>3 DEF ExistsBijection
  <1>. QED
    BY <1>1, <1>4, FS_CountingElements, FS_NatBijection

-----------------------------------------------------------------------------
(* The map and the list.                                                    *)

\* Each node in the list is the one of its key.
LEMMA KeyOfNode ==
    ASSUME MapIsList
    PROVE  /\ \A n \in Range(logiclists) : /\ heap[n].key \in DOMAIN values
                                           /\ values[heap[n].key] = n
           /\ \A k \in DOMAIN values : values[k] \in Range(logiclists)
           /\ \A j, k \in DOMAIN values : values[j] = values[k] => j = k
  <1>1. \A k \in DOMAIN values : values[k] \in Range(logiclists)
    BY DEF MapIsList, Range
  <1>2. \A n \in Range(logiclists) : \E k \in DOMAIN values : values[k] = n
    BY DEF MapIsList, Range
  <1>. QED
    BY <1>1, <1>2 DEF MapIsList

\* values_.size() is the length of the list.
LEMMA SizeIsLength ==
    ASSUME TypeOK, MapIsList
    PROVE  Cardinality(DOMAIN values) = Len(logiclists)
  <1>1. PICK n \in Nat : n = Len(logiclists)
    BY DEF TypeOK
  <1>2. PICK f : f = [i \in 1 .. n |-> heap[logiclists[i]].key]
    OBVIOUS
  <1>3. DOMAIN logiclists = 1 .. n /\ \A i \in 1 .. n : logiclists[i] \in Range(logiclists)
    BY <1>1 DEF TypeOK, Range
  <1>4. \A i \in 1 .. n : f[i] \in DOMAIN values /\ values[f[i]] = logiclists[i]
    BY <1>2, <1>3, KeyOfNode
  <1>5. \A i, j \in 1 .. n : f[i] = f[j] => i = j
    BY <1>3, <1>4 DEF MapIsList, IsInjective
  <1>6. ASSUME NEW k \in DOMAIN values PROVE \E i \in 1 .. n : f[i] = k
    <2>1. PICK i \in 1 .. n : logiclists[i] = values[k]
      BY <1>3, KeyOfNode DEF Range
    <2>. QED
      BY <1>2, <2>1 DEF MapIsList
  <1>7. DOMAIN f = 1 .. n /\ f \in [1 .. n -> DOMAIN values]
    BY <1>2, <1>4
  <1>8. f \in Bijection(1 .. n, DOMAIN values)
    BY <1>5, <1>6, <1>7 DEF Bijection, Injection, Surjection, IsInjective
  <1>9. ExistsBijection(1 .. n, DOMAIN values)
    BY <1>8 DEF ExistsBijection
  <1>. QED
    BY <1>1, <1>9, FS_CountingElements

\* There are more nodes than the list holds, so that one is free.
LEMMA FreeNode ==
    ASSUME CacheAssumption, TypeOK, MapIsList
    PROVE  /\ NewNode \in Nodes
           /\ NewNode \notin Range(values) /\ NewNode \notin Range(logiclists)
  <1>1. PICK T : T = Nodes \ (Range(values) \cup Range(logiclists))
    OBVIOUS
  <1>2. Capacity + 2 \in Nat /\ Len(logiclists) \in Nat
    BY DEF CacheAssumption, TypeOK
  <1>3. T # {}
    <2>1. IsFiniteSet(Range(logiclists)) /\ Cardinality(Range(logiclists)) = Len(logiclists)
      BY LenIsCardinality DEF TypeOK, MapIsList
    <2>2. Cardinality(Nodes) = Capacity + 2
      BY <1>2, FS_Interval DEF Nodes
    <2>3. Cardinality(Nodes) # Cardinality(Range(logiclists))
      BY <1>2, <2>1, <2>2 DEF MapIsList, CacheAssumption
    <2>4. Range(logiclists) \subseteq Nodes
      BY RangeProperties DEF TypeOK
    <2>5. Nodes # Range(logiclists)
      BY <2>3
    <2>. QED
      BY <1>1, <2>4, <2>5 DEF MapIsList
  <1>4. \E x \in T : \A y \in T : x <= y
    <2>1. T \in SUBSET Nat
      BY <1>1, <1>2 DEF Nodes
    <2>. QED
      BY <1>3, <2>1, Smallest
  <1>5. NewNode \in T
    BY <1>1, <1>4 DEF NewNode, Min
  <1>. QED
    BY <1>1, <1>5

\* What is left of the list without the node of k, and of the history without k.
LEMMA ListWithout ==
    ASSUME CInv, NEW k \in DOMAIN values
    PROVE  /\ Without(logiclists, values[k]) \in Seq(Nodes)
           /\ IsInjective(Without(logiclists, values[k]))
           /\ Range(Without(logiclists, values[k])) = Range(logiclists) \ {values[k]}
           /\ Len(Without(logiclists, values[k])) = Len(logiclists) - 1
           /\ Leads(heap, Without(logiclists, values[k]), Keep(recent, Keys \ {k}))
  <1>1. PICK x : x = values[k]
    OBVIOUS
  <1>2. PICK w : w = Keep(logiclists, Nodes \ {x})
    OBVIOUS
  <1>3. logiclists \in Seq(Nodes) /\ recent \in Seq(Keys) /\ IsInjective(logiclists)
    BY DEF CInv, TypeOK, MapIsList
  <1>4. x \in Range(logiclists) /\ Range(logiclists) \subseteq Nodes
    BY <1>1, <1>3, KeyOfNode, RangeProperties DEF CInv
  <1>5. w \in Seq(Nodes) /\ IsInjective(w) /\ Range(w) = Range(logiclists) \ {x}
    <2>1. /\ w \in Seq(Nodes) /\ IsInjective(w)
          /\ Range(w) = Range(logiclists) \cap (Nodes \ {x})
      BY <1>2, <1>3, KeepProperties
    <2>. QED
      BY <1>4, <2>1
  <1>6. Len(w) = Len(logiclists) - 1
    <2>1. IsFiniteSet(Range(logiclists)) /\ Cardinality(Range(logiclists)) = Len(logiclists)
      BY <1>3, LenIsCardinality
    <2>2. Cardinality(Range(logiclists) \ {x}) = Len(logiclists) - 1
      BY <1>4, <2>1, FS_RemoveElement
    <2>3. Cardinality(Range(w)) = Len(w)
      BY <1>5, LenIsCardinality
    <2>. QED
      BY <1>5, <2>2, <2>3
  <1>7. Leads(heap, w, Keep(recent, Keys \ {k}))
    <2>1. Leads(heap, logiclists, recent)
      BY LeadsIsPrefix DEF CInv, TypeOK, MostRecent
    <2>2. ASSUME NEW i \in 1 .. Len(logiclists)
          PROVE  logiclists[i] \in Nodes \ {x} <=> heap[logiclists[i]].key \in Keys \ {k}
      <3>1. logiclists[i] \in Range(logiclists) /\ logiclists[i] \in Nodes
        BY <1>3 DEF Range
      <3>2. heap[logiclists[i]].key \in DOMAIN values /\ values[heap[logiclists[i]].key] = logiclists[i]
        BY <3>1, KeyOfNode DEF CInv
      <3>3. heap[x].key = k /\ DOMAIN values \subseteq Keys
        BY <1>1 DEF CInv, MapIsList, TypeOK
      <3>. QED
        BY <1>1, <3>1, <3>2, <3>3
    <2>. QED
      BY <1>2, <1>3, <2>1, <2>2, KeepFronts
  <1>. QED
    BY <1>1, <1>2, <1>5, <1>6, <1>7 DEF Without

\* A list without k is the front of what is left of the history.
LEMMA ListWhole ==
    ASSUME CInv, NEW k, k \notin DOMAIN values
    PROVE  Leads(heap, logiclists, Keep(recent, Keys \ {k}))
  <1>1. logiclists \in Seq(Nodes) /\ recent \in Seq(Keys)
    BY DEF CInv, TypeOK
  <1>2. \A i \in 1 .. Len(logiclists) : logiclists[i] \in Nodes /\ logiclists[i] \in Range(logiclists)
    BY <1>1 DEF Range
  <1>3. Leads(heap, Keep(logiclists, Nodes), Keep(recent, Keys \ {k}))
    <2>1. Leads(heap, logiclists, recent)
      BY LeadsIsPrefix DEF CInv, TypeOK, MostRecent
    <2>2. \A i \in 1 .. Len(logiclists) : heap[logiclists[i]].key \in Keys \ {k}
      BY <1>2, KeyOfNode DEF CInv, TypeOK
    <2>. QED
      BY <1>1, <1>2, <2>1, <2>2, KeepFronts
  <1>4. Keep(logiclists, Nodes) = logiclists
    <2>1. Len(logiclists) \in 0 .. Len(logiclists)
      BY <1>1
    <2>2. PICK a : a = Keep(logiclists, Nodes)
      OBVIOUS
    <2>3. a \in Seq(Nodes) /\ Len(a) = Len(logiclists) /\ \A i \in 1 .. Len(logiclists) : a[i] = logiclists[i]
      <3>1. PICK m \in 0 .. Len(logiclists) : m = Len(logiclists)
        BY <2>1
      <3>2. \A i \in 1 .. Len(logiclists) : logiclists[i] \in Nodes <=> i <= m
        BY <1>2, <3>1
      <3>3. a \in Seq(Nodes) /\ Len(a) = m /\ \A i \in 1 .. m : a[i] = logiclists[i]
        BY <1>1, <2>2, <3>2, KeepFront
      <3>. QED
        BY <3>1, <3>3
    <2>. QED
      BY <1>1, <2>2, <2>3, SeqEqual
  <1>. QED
    BY <1>3, <1>4

-----------------------------------------------------------------------------
(* The calls.                                                               *)

\* A call that makes a new node for k and puts it in front of rest, which is what
\* stays of the list.
Puts(k, v, new, rest) ==
    /\ k \in Keys /\ v \in Values
    /\ new \in Nodes /\ new \notin Range(logiclists)
    /\ rest \in Seq(Nodes) /\ Range(rest) \subseteq Range(logiclists) /\ IsInjective(rest)
    /\ Leads(heap, rest, Keep(recent, Keys \ {k}))
    /\ heap' = [heap EXCEPT ![new] = [key |-> k, value |-> v]]
    /\ logiclists' = << new >> \o rest
    /\ Use(k)

\* What it leaves: the key is in front of what is left of the history, too.
InFront(k, v, new, rest) ==
    /\ heap' \in [Nodes -> Node \cup {<< >>}]
    /\ heap'[new] = [key |-> k, value |-> v]
    /\ \A n \in Range(logiclists) : heap'[n] = heap[n]
    /\ logiclists' \in Seq(Nodes) /\ IsInjective(logiclists')
    /\ Len(logiclists') = Len(rest) + 1
    /\ Range(logiclists') = Range(rest) \cup {new}
    /\ recent' \in Seq(Keys)
    /\ Leads(heap', logiclists', recent')
    /\ Filled'

LEMMA PutInFront ==
    ASSUME CInv, NEW k, NEW v, NEW new, NEW rest, Puts(k, v, new, rest)
    PROVE  InFront(k, v, new, rest)
  <1>0. /\ k \in Keys /\ v \in Values /\ new \in Nodes /\ new \notin Range(logiclists)
        /\ rest \in Seq(Nodes) /\ Range(rest) \subseteq Range(logiclists) /\ IsInjective(rest)
        /\ Leads(heap, rest, Keep(recent, Keys \ {k}))
        /\ heap' = [heap EXCEPT ![new] = [key |-> k, value |-> v]]
        /\ logiclists' = << new >> \o rest
        /\ Use(k)
    BY DEF Puts
  <1>1. PICK r : r = Keep(recent, Keys \ {k})
    OBVIOUS
  <1>2. r \in Seq(Keys)
    BY <1>1, KeepProperties DEF CInv, TypeOK
  <1>3. [key |-> k, value |-> v] \in Node
    BY <1>0 DEF Node
  <1>4. heap \in [Nodes -> Node \cup {<< >>}]
    BY DEF CInv, TypeOK, Node
  <1>5. /\ heap' \in [Nodes -> Node \cup {<< >>}]
        /\ heap'[new] = [key |-> k, value |-> v]
        /\ \A n \in Nodes \ {new} : heap'[n] = heap[n]
    BY <1>0, <1>3, <1>4
  <1>6. Range(logiclists) \subseteq Nodes
    BY RangeProperties DEF CInv, TypeOK
  <1>7. \A n \in Range(logiclists) : heap'[n] = heap[n]
    BY <1>0, <1>5, <1>6
  <1>8. /\ logiclists' \in Seq(Nodes) /\ IsInjective(logiclists')
        /\ Range(logiclists') = Range(rest) \cup {new}
    <2>1. new \notin Range(rest)
      BY <1>0
    <2>. QED
      BY <1>0, <2>1, PushMembers
  <1>9. PICK n \in Nat : n = Len(rest)
    BY <1>0
  <1>10. PICK l : l = logiclists'
    OBVIOUS
  <1>11. Len(l) = n + 1 /\ l[1] = new /\ \A i \in 2 .. n + 1 : l[i] = rest[i - 1]
    BY <1>0, <1>9, <1>10
  <1>12. PICK s : s = recent'
    OBVIOUS
  <1>13. /\ s \in Seq(Keys) /\ Len(s) = Len(r) + 1 /\ s[1] = k
         /\ \A i \in 2 .. Len(r) + 1 : s[i] = r[i - 1]
    <2>1. s = << k >> \o r
      BY <1>0, <1>1, <1>12 DEF Use
    <2>. QED
      BY <1>0, <1>2, <2>1
  <1>14. Leads(heap', l, s)
    <2>1. n <= Len(r) /\ \A i \in 1 .. n : heap[rest[i]].key = r[i]
      BY <1>0, <1>1, <1>9 DEF Leads
    <2>2. Len(l) <= Len(s)
      BY <1>2, <1>11, <1>13, <2>1
    <2>3. ASSUME NEW i \in 1 .. n + 1 PROVE heap'[l[i]].key = s[i]
      <3>1. CASE i = 1
        BY <1>5, <1>11, <1>13, <3>1
      <3>2. CASE i # 1
        <4>1. PICK j \in 1 .. n : j = i - 1
          BY <3>2
        <4>2. l[i] = rest[j] /\ s[i] = r[j]
          BY <1>2, <1>11, <1>13, <2>1, <3>2, <4>1
        <4>3. rest[j] \in Range(logiclists)
          <5>1. rest[j] \in Range(rest)
            BY <1>0, <1>9, MemberOfRange
          <5>. QED
            BY <1>0, <5>1
        <4>. QED
          BY <1>7, <2>1, <4>2, <4>3
      <3>. QED
        BY <3>1, <3>2
    <2>. QED
      BY <1>11, <2>2, <2>3 DEF Leads
  <1>15. Filled'
    <2>1. \A i \in Range(logiclists) : heap[i] \in Node
      BY DEF CInv, Filled
    <2>. QED
      BY <1>0, <1>3, <1>5, <1>7, <1>8, <2>1 DEF Filled
  <1>. QED
    BY <1>5, <1>7, <1>8, <1>9, <1>10, <1>11, <1>12, <1>13, <1>14, <1>15 DEF InFront

LEMMA InitCInv == CacheAssumption /\ Init => CInv
  <1> SUFFICES ASSUME CacheAssumption, Init PROVE CInv
    OBVIOUS
  <1>1. DOMAIN values = {} /\ DOMAIN last = {} /\ Range(values) = {} /\ Range(last) = {}
    BY DEF Init, Range
  <1>2. logiclists = << >> /\ recent = << >> /\ used = 0
    BY DEF Init
  <1>3. Range(logiclists) = {} /\ IsInjective(logiclists)
    BY <1>2, EmptyProperties
  <1>4. TypeOK
    BY <1>1, <1>2 DEF Init, TypeOK, CacheAssumption
  <1>5. MapIsList
    BY <1>1, <1>2, <1>3 DEF MapIsList, CacheAssumption
  <1>6. MostRecent
    <2>1. Leads(heap, logiclists, recent)
      BY <1>2 DEF Leads
    <2>. QED
      BY <1>4, <2>1, LeadsIsPrefix DEF MostRecent, TypeOK
  <1>. QED
    BY <1>1, <1>2, <1>3, <1>4, <1>5, <1>6 DEF CInv, HitIsLatest, Filled, Known, Drift

LEMMA GetStep ==
    ASSUME CacheAssumption, CInv, NEW k \in Keys, Get(k)
    PROVE  CInv'
  <1>1. PICK new, x, w : new = NewNode /\ x = values[k] /\ w = Without(logiclists, x)
    OBVIOUS
  <1>2. k \in DOMAIN values
    BY DEF Get
  <1>3. PICK v : v = heap[x].value
    OBVIOUS
  <1>4. /\ heap' = [heap EXCEPT ![new] = [key |-> k, value |-> v]]
        /\ logiclists' = << new >> \o w
        /\ values' = [values EXCEPT ![k] = new]
        /\ Use(k) /\ used' = used /\ last' = last
    BY <1>1, <1>3 DEF Get, HitInFront
  <1>5. new \in Nodes /\ new \notin Range(values) /\ new \notin Range(logiclists)
    BY <1>1, FreeNode DEF CInv
  <1>6. /\ w \in Seq(Nodes) /\ IsInjective(w) /\ Range(w) = Range(logiclists) \ {x}
        /\ Len(w) = Len(logiclists) - 1
        /\ Leads(heap, w, Keep(recent, Keys \ {k}))
    BY <1>1, <1>2, ListWithout
  <1>7. x \in Range(logiclists) /\ \A j \in DOMAIN values : values[j] \in Range(logiclists)
    BY <1>1, <1>2, KeyOfNode DEF CInv
  <1>8. v \in Values /\ v = last[k]
    BY <1>1, <1>2, <1>3, <1>7 DEF CInv, Filled, Node, HitIsLatest
  <1>9. InFront(k, v, new, w)
    <2>1. Puts(k, v, new, w)
      <3>1. Range(w) \subseteq Range(logiclists)
        BY <1>6
      <3>. QED
        BY <1>4, <1>5, <1>6, <1>8, <3>1 DEF Puts
    <2>. QED
      BY <2>1, PutInFront
  <1>10. /\ DOMAIN values' = DOMAIN values /\ values'[k] = new
         /\ \A j \in DOMAIN values \ {k} : values'[j] = values[j]
    BY <1>2, <1>4
  <1>11. Range(values') = Range(logiclists')
    <2>1. \A j \in DOMAIN values \ {k} : values[j] # x
      BY <1>1, <1>2, KeyOfNode DEF CInv
    <2>2. Range(values') = (Range(values) \ {x}) \cup {new}
      BY <1>1, <1>2, <1>10, <2>1 DEF Range
    <2>3. Range(values) = Range(logiclists)
      BY DEF CInv, MapIsList
    <2>. QED
      BY <1>6, <1>9, <2>2, <2>3 DEF InFront
  <1>12. \A j \in DOMAIN values' : heap'[values'[j]].key = j /\ heap'[values'[j]].value = last'[j]
    <2>1. \A j \in DOMAIN values : heap[values[j]].key = j /\ heap[values[j]].value = last[j]
      BY DEF CInv, MapIsList, HitIsLatest
    <2>. QED
      BY <1>4, <1>7, <1>8, <1>9, <1>10, <2>1 DEF InFront
  <1>13. Len(logiclists') = Len(logiclists)
    BY <1>6, <1>9 DEF InFront, CInv, TypeOK
  <1>14. TypeOK'
    <2>1. Range(logiclists') \subseteq Nodes
      BY <1>9, RangeProperties DEF InFront
    <2>. QED
      BY <1>4, <1>9, <1>10, <1>11, <2>1 DEF InFront, CInv, TypeOK, Node
  <1>15. MapIsList'
    BY <1>9, <1>11, <1>12, <1>13 DEF InFront, CInv, MapIsList
  <1>16. HitIsLatest'
    BY <1>12 DEF HitIsLatest
  <1>17. MostRecent'
    <2>1. PICK h, l, r : h = heap' /\ l = logiclists' /\ r = recent'
      OBVIOUS
    <2>2. IsPrefix([i \in DOMAIN l |-> h[l[i]].key], r)
      BY <1>9, <2>1, LeadsIsPrefix DEF InFront
    <2>. QED
      BY <2>1, <2>2 DEF MostRecent
  <1>18. Known' /\ Drift'
    BY <1>4, <1>10, <1>13 DEF CInv, Known, Drift
  <1>. QED
    BY <1>9, <1>14, <1>15, <1>16, <1>17, <1>18 DEF InFront, CInv

LEMMA SetFrontStep ==
    ASSUME CacheAssumption, CInv, NEW k \in Keys, NEW v \in Values, SetFront(k, v)
    PROVE  CInv'
  <1>1. PICK x, w : x = values[k] /\ w = Without(logiclists, x)
    OBVIOUS
  <1>2. /\ k \in DOMAIN values /\ logiclists[1] = x
        /\ heap' = [heap EXCEPT ![x].value = v] /\ last' = [last EXCEPT ![k] = v]
        /\ Use(k)
        /\ values' = values /\ logiclists' = logiclists /\ used' = used
    BY <1>1 DEF SetFront, Overwritten
  <1>3. x \in Range(logiclists) /\ heap[x] \in Node /\ heap[x].key = k
    BY <1>1, <1>2, KeyOfNode DEF CInv, Filled, MapIsList
  <1>4. /\ logiclists \in Seq(Nodes) /\ Range(logiclists) \subseteq Nodes
        /\ heap \in [Nodes -> Node \cup {<< >>}]
    BY RangeProperties DEF CInv, TypeOK, Node
  <1>5. /\ heap' \in [Nodes -> Node \cup {<< >>}]
        /\ heap'[x] = [key |-> k, value |-> v]
        /\ \A n \in Nodes \ {x} : heap'[n] = heap[n]
    <2>1. [heap[x] EXCEPT !.value = v] = [key |-> k, value |-> v]
      BY <1>3 DEF Node
    <2>2. heap' = [heap EXCEPT ![x] = [key |-> k, value |-> v]]
      BY <1>2, <2>1
    <2>3. [key |-> k, value |-> v] \in Node
      BY DEF Node
    <2>. QED
      BY <1>3, <1>4, <2>2, <2>3
  <1>6. \A n \in Range(logiclists) : heap'[n] \in Node /\ heap'[n].key = heap[n].key
    <2>1. [key |-> k, value |-> v] \in Node
      BY DEF Node
    <2>. QED
      BY <1>3, <1>4, <1>5, <2>1 DEF CInv, Filled
  <1>7. recent' \in Seq(Keys) /\ Leads(heap', logiclists, recent')
    <2>1. PICK r, t : r = Keep(recent, Keys \ {k}) /\ t = Tail(logiclists)
      OBVIOUS
    <2>2. r \in Seq(Keys) /\ recent' = << k >> \o r
      BY <1>2, <2>1, KeepProperties DEF CInv, TypeOK, Use
    <2>3. logiclists # << >> /\ IsInjective(logiclists)
      BY <1>3, EmptyProperties DEF CInv, MapIsList
    <2>4. t = w
      BY <1>1, <1>2, <1>4, <2>1, <2>3, KeepTail DEF Without
    <2>5. Leads(heap, t, r)
      BY <1>1, <1>2, <2>1, <2>4, ListWithout
    <2>6. PICK n \in Nat : n = Len(t)
      BY <1>4, <2>1, <2>3, HeadTailProperties
    <2>7. Len(logiclists) = n + 1 /\ \A i \in 1 .. n : t[i] = logiclists[i + 1]
      BY <1>4, <2>1, <2>3, <2>6, HeadTailProperties
    <2>8. PICK s : s = recent'
      OBVIOUS
    <2>9. /\ s \in Seq(Keys) /\ Len(s) = Len(r) + 1 /\ s[1] = k
          /\ \A i \in 1 .. Len(r) : s[i + 1] = r[i]
      BY <2>2, <2>8
    <2>10. n <= Len(r) /\ \A i \in 1 .. n : heap[t[i]].key = r[i]
      BY <2>5, <2>6 DEF Leads
    <2>11. ASSUME NEW i \in 1 .. n + 1 PROVE heap'[logiclists[i]].key = s[i]
      <3>1. logiclists[i] \in Range(logiclists)
        BY <1>4, <2>7, MemberOfRange
      <3>2. heap'[logiclists[i]].key = heap[logiclists[i]].key
        BY <1>6, <3>1
      <3>3. CASE i = 1
        BY <1>2, <1>3, <2>9, <3>2, <3>3
      <3>4. CASE i # 1
        <4>1. PICK j \in 1 .. n : i = j + 1
          BY <3>4
        <4>2. logiclists[i] = t[j] /\ s[i] = r[j]
          BY <2>2, <2>7, <2>9, <2>10, <4>1
        <4>. QED
          BY <2>10, <3>2, <4>2
      <3>. QED
        BY <3>3, <3>4
    <2>12. n + 1 <= Len(s)
      BY <2>2, <2>9, <2>10
    <2>. QED
      BY <2>7, <2>8, <2>9, <2>11, <2>12 DEF Leads
  <1>8. /\ DOMAIN last' = DOMAIN last /\ last'[k] = v
        /\ \A j \in DOMAIN last \ {k} : last'[j] = last[j]
    BY <1>2 DEF CInv, Known
  <1>9. \A j \in DOMAIN values : heap'[values[j]].key = j /\ heap'[values[j]].value = last'[j]
    <2>1. \A j \in DOMAIN values : /\ heap[values[j]].key = j /\ heap[values[j]].value = last[j]
                                   /\ j \in DOMAIN last
      BY DEF CInv, MapIsList, HitIsLatest, Known
    <2>2. \A j \in DOMAIN values \ {k} : values[j] # x /\ values[j] \in Nodes
      BY <1>1, <1>2, <1>4, KeyOfNode DEF CInv
    <2>. QED
      BY <1>1, <1>5, <1>8, <2>1, <2>2
  <1>10. TypeOK'
    <2>1. Range(last') \subseteq Values
      <3>1. \A j \in DOMAIN last : last[j] \in Values
        BY DEF CInv, TypeOK, Range
      <3>. QED
        BY <1>8, <3>1 DEF Range
    <2>. QED
      BY <1>2, <1>5, <1>7, <1>8, <2>1 DEF CInv, TypeOK, Node
  <1>11. MapIsList'
    BY <1>2, <1>9 DEF CInv, MapIsList
  <1>12. HitIsLatest'
    BY <1>2, <1>9 DEF HitIsLatest
  <1>13. MostRecent'
    <2>1. logiclists' \in Seq(Nodes)
      BY <1>2, <1>4
    <2>2. PICK h, l, r : h = heap' /\ l = logiclists' /\ r = recent'
      OBVIOUS
    <2>3. IsPrefix([i \in DOMAIN l |-> h[l[i]].key], r)
      <3>1. Leads(h, l, r) /\ l \in Seq(Nodes) /\ r \in Seq(Keys)
        BY <1>2, <1>7, <2>1, <2>2
      <3>. QED
        BY <3>1, LeadsIsPrefix
    <2>. QED
      BY <2>2, <2>3 DEF MostRecent
  <1>14. Filled' /\ Known' /\ Drift'
    BY <1>2, <1>6, <1>8 DEF CInv, Filled, Known, Drift
  <1>. QED
    BY <1>10, <1>11, <1>12, <1>13, <1>14 DEF CInv

\* What a Set that makes a new node keeps of the list, if it drops as many from the
\* end as Evicted does: the nodes up to m.
LEMMA EvictedIsEnd ==
    ASSUME CacheAssumption, NEW list \in Seq(Nodes), IsInjective(list), NEW size \in 0 .. Capacity,
           size = Capacity => list # << >>
    PROVE  LET out == Evicted(list, size) IN
           /\ Len(out) = IF size = Capacity THEN 1 ELSE 0
           /\ Range(out) \subseteq Range(list)
           /\ \A i \in 1 .. Len(list) : list[i] \in Nodes \ Range(out) <=> i <= Len(list) - Len(out)
  <1>1. PICK n \in Nat : n = Len(list)
    OBVIOUS
  <1>2. \A i \in 1 .. n : list[i] \in Nodes /\ list[i] \in Range(list)
    BY <1>1, MemberOfRange
  <1>3. PICK out : out = Evicted(list, size)
    OBVIOUS
  <1>4. CASE size = Capacity
    <2>1. n \in 1 .. n
      BY <1>1, <1>4
    <2>2. size >= Capacity /\ n - (size - Capacity) = n
      BY <1>4 DEF CacheAssumption
    <2>3. out = SubSeq(list, n, n)
      BY <1>1, <1>3, <2>2 DEF Evicted
    <2>4. Len(out) = 1 /\ out[1] = list[n] /\ out \in Seq(Nodes)
      BY <1>2, <2>1, <2>3
    <2>5. Range(out) = {list[n]}
      BY <2>4 DEF Range
    <2>6. \A i \in 1 .. n : list[i] = list[n] => i = n
      BY <1>1, <2>1 DEF IsInjective
    <2>7. \A i \in 1 .. n : list[i] \in Nodes \ Range(out) <=> i <= n - 1
      BY <1>2, <2>1, <2>5, <2>6
    <2>. QED
      BY <1>1, <1>2, <1>3, <1>4, <2>1, <2>4, <2>5, <2>7
  <1>5. CASE size # Capacity
    <2>1. out = << >>
      BY <1>3, <1>5 DEF Evicted, CacheAssumption
    <2>2. Len(out) = 0 /\ Range(out) = {}
      BY <2>1, EmptyProperties
    <2>3. \A i \in 1 .. n : i <= n - 0
      OBVIOUS
    <2>. QED
      BY <1>1, <1>2, <1>3, <1>5, <2>2, <2>3
  <1>. QED
    BY <1>4, <1>5

LEMMA SetStep ==
    ASSUME CacheAssumption, CInv, NEW k \in Keys, NEW v \in Values, Set(k, v)
    PROVE  CInv'
  <1>1. PICK list : list = IF k \in DOMAIN values THEN Without(logiclists, values[k])
                                                  ELSE logiclists
    OBVIOUS
  <1>2. PICK size, out, rest, new :
            /\ size = Cardinality(DOMAIN values) /\ out = Evicted(list, size)
            /\ rest = Keep(list, Nodes \ Range(out)) /\ new = NewNode
    OBVIOUS
  <1>3. PICK gone : gone = {heap[n].key : n \in Range(out)}
    OBVIOUS
  <1>4. PICK kept : kept = Restrict(values, DOMAIN values \ gone)
    OBVIOUS
  <1>5. /\ ~(k \in DOMAIN values /\ Head(logiclists) = values[k])
        /\ UsedAfter(Len(out)) <= MaxUsed
        /\ heap' = [heap EXCEPT ![new] = [key |-> k, value |-> v]]
        /\ logiclists' = << new >> \o rest
        /\ values' = With(kept, k, new)
        /\ used' = UsedAfter(Len(out))
        /\ last' = With(last, k, v)
        /\ Use(k)
    BY <1>1, <1>2, <1>3, <1>4 DEF Set
  <1>6. new \in Nodes /\ new \notin Range(values) /\ new \notin Range(logiclists)
    BY <1>2, FreeNode DEF CInv
  <1>7. /\ logiclists \in Seq(Nodes) /\ IsInjective(logiclists)
        /\ Range(logiclists) \subseteq Nodes /\ Range(values) = Range(logiclists)
        /\ size = Len(logiclists) /\ size \in 0 .. Capacity
    <2>1. size = Len(logiclists)
      BY <1>2, SizeIsLength DEF CInv
    <2>. QED
      BY <2>1, RangeProperties DEF CInv, TypeOK, MapIsList, CacheAssumption
  <1>8. /\ list \in Seq(Nodes) /\ IsInjective(list)
        /\ Range(list) = {n \in Range(logiclists) : heap[n].key # k}
        /\ Len(list) = IF k \in DOMAIN values THEN size - 1 ELSE size
        /\ Leads(heap, list, Keep(recent, Keys \ {k}))
    <2>1. \A n \in Range(logiclists) :
              heap[n].key = k <=> k \in DOMAIN values /\ n = values[k]
      BY KeyOfNode DEF CInv, MapIsList
    <2>2. CASE k \in DOMAIN values
      <3>1. {n \in Range(logiclists) : heap[n].key # k} = Range(logiclists) \ {values[k]}
        BY <2>1, <2>2
      <3>. QED
        BY <1>1, <1>7, <2>2, <3>1, ListWithout
    <2>3. CASE k \notin DOMAIN values
      <3>1. {n \in Range(logiclists) : heap[n].key # k} = Range(logiclists)
        BY <2>1, <2>3
      <3>. QED
        BY <1>1, <1>7, <2>3, <3>1, ListWhole
    <2>. QED
      BY <2>2, <2>3
  <1>9. size = Capacity => list # << >>
    <2>1. ASSUME size = Capacity, k \in DOMAIN values, size = 1 PROVE FALSE
      <3>1. values[k] \in Range(logiclists)
        BY <2>1, KeyOfNode DEF CInv
      <3>2. logiclists # << >> /\ Head(logiclists) = logiclists[1] /\ DOMAIN logiclists = 1 .. 1
        <4>1. Len(logiclists) = 1
          BY <1>7, <2>1
        <4>2. PICK l : l = logiclists
          OBVIOUS
        <4>3. l \in Seq(Nodes) /\ Len(l) = 1
          BY <1>7, <4>1, <4>2
        <4>4. l # << >>
          <5>1. Len(<< >>) = 0
            OBVIOUS
          <5>2. Len(l) # Len(<< >>)
            BY <4>3, <5>1
          <5>. QED
            BY <5>2
        <4>5. Head(l) = l[1] /\ DOMAIN l = 1 .. 1
          BY <4>3, <4>4
        <4>. QED
          BY <4>2, <4>4, <4>5
      <3>3. values[k] = logiclists[1]
        BY <3>1, <3>2 DEF Range
      <3>. QED
        BY <1>5, <2>1, <3>2, <3>3
    <2>2. size = Capacity => Len(list) # 0
      BY <1>7, <1>8, <2>1 DEF CacheAssumption
    <2>. QED
      BY <2>2
  <1>10. /\ Len(out) = IF size = Capacity THEN 1 ELSE 0
         /\ Range(out) \subseteq Range(list)
         /\ \A i \in 1 .. Len(list) : list[i] \in Nodes \ Range(out) <=> i <= Len(list) - Len(out)
    BY <1>2, <1>7, <1>8, <1>9, EvictedIsEnd
  <1>11. PICK m \in Nat : m = Len(list) - Len(out)
    <2>1. PICK n \in Nat : n = Len(list)
      BY <1>8
    <2>2. n # 0 \/ size # Capacity
      BY <1>8, <1>9, <2>1
    <2>3. n - Len(out) \in Nat
      BY <1>10, <2>1, <2>2
    <2>. QED
      BY <2>1, <2>3
  <1>12. /\ rest \in Seq(Nodes) /\ Len(rest) = m /\ \A i \in 1 .. m : rest[i] = list[i]
         /\ Range(rest) = Range(list) \ Range(out) /\ IsInjective(rest)
    <2>1. m \in 0 .. Len(list)
      BY <1>8, <1>10, <1>11
    <2>2. Len(rest) = m /\ \A i \in 1 .. m : rest[i] = list[i]
      <3>1. PICK S : S = Nodes \ Range(out)
        OBVIOUS
      <3>2. \A i \in 1 .. Len(list) : list[i] \in S <=> i <= m
        BY <1>10, <1>11, <3>1
      <3>3. PICK u : u = Keep(list, S)
        OBVIOUS
      <3>4. Len(u) = m /\ \A i \in 1 .. m : u[i] = list[i]
        BY <1>8, <2>1, <3>2, <3>3, KeepFront
      <3>. QED
        BY <1>2, <3>1, <3>3, <3>4
    <2>3. /\ rest \in Seq(Nodes) /\ IsInjective(rest)
          /\ Range(rest) = Range(list) \cap (Nodes \ Range(out))
      BY <1>2, <1>8, KeepProperties
    <2>. QED
      BY <1>7, <1>8, <2>2, <2>3
  <1>13. Leads(heap, rest, Keep(recent, Keys \ {k}))
    <2>1. PICK r : r = Keep(recent, Keys \ {k})
      OBVIOUS
    <2>2. r \in Seq(Keys)
      BY <2>1, KeepProperties DEF CInv, TypeOK
    <2>3. PICK n \in Nat : n = Len(list)
      BY <1>8
    <2>4. n <= Len(r) /\ \A i \in 1 .. n : heap[list[i]].key = r[i]
      BY <1>8, <2>1, <2>3 DEF Leads
    <2>5. m <= n
      BY <1>10, <1>11, <2>3
    <2>6. m <= Len(r) /\ \A i \in 1 .. m : heap[rest[i]].key = r[i]
      BY <1>12, <2>2, <2>4, <2>5
    <2>. QED
      BY <1>12, <2>1, <2>6 DEF Leads
  <1>14. InFront(k, v, new, rest)
    <2>1. Puts(k, v, new, rest)
      <3>1. Range(rest) \subseteq Range(logiclists)
        BY <1>8, <1>12
      <3>. QED
        BY <1>5, <1>6, <1>12, <1>13, <3>1 DEF Puts
    <2>. QED
      BY <2>1, PutInFront
  <1>15. /\ DOMAIN values' = (DOMAIN values \ gone) \cup {k} /\ values'[k] = new
         /\ \A j \in (DOMAIN values \ gone) \ {k} : values'[j] = values[j]
    <2>1. DOMAIN kept = DOMAIN values \ gone /\ \A j \in DOMAIN kept : kept[j] = values[j]
      BY <1>4 DEF Restrict
    <2>. QED
      BY <1>5, <2>1 DEF With
  <1>16. /\ DOMAIN last' = DOMAIN last \cup {k} /\ last'[k] = v
         /\ \A j \in DOMAIN last \ {k} : last'[j] = last[j]
    BY <1>5 DEF With
  <1>17. \A n \in Range(logiclists) : /\ heap[n].key \in DOMAIN values
                                      /\ values[heap[n].key] = n
    BY KeyOfNode DEF CInv
  <1>18. \A j \in DOMAIN values : /\ values[j] \in Range(logiclists) /\ heap[values[j]].key = j
                                  /\ heap[values[j]].value = last[j] /\ j \in DOMAIN last
    BY KeyOfNode DEF CInv, MapIsList, HitIsLatest, Known
  <1>19. ASSUME NEW j \in DOMAIN values, j # k
         PROVE  values[j] \in Range(rest) <=> j \notin gone
    <2>1. values[j] \in Range(list)
      BY <1>8, <1>18, <1>19
    <2>2. values[j] \in Range(out) <=> j \in gone
      <3>1. \A n \in Range(out) : n \in Range(logiclists)
        BY <1>8, <1>10
      <3>. QED
        BY <1>3, <1>17, <1>18, <3>1
    <2>. QED
      BY <1>12, <2>1, <2>2
  <1>20. Range(values') = Range(logiclists')
    <2>1. ASSUME NEW j \in DOMAIN values' PROVE values'[j] \in Range(rest) \cup {new}
      BY <1>15, <1>19
    <2>2. ASSUME NEW n \in Range(rest) PROVE \E j \in DOMAIN values' : values'[j] = n
      <3>1. n \in Range(list) /\ n \in Range(logiclists) /\ heap[n].key # k
        BY <1>8, <1>12
      <3>2. PICK j \in DOMAIN values : j = heap[n].key /\ values[j] = n /\ j # k
        BY <1>17, <3>1
      <3>. QED
        BY <1>15, <1>19, <3>2
    <2>3. Range(values') = Range(rest) \cup {new}
      <3>1. Range(values') \subseteq Range(rest) \cup {new}
        BY <2>1 DEF Range
      <3>2. Range(rest) \subseteq Range(values')
        BY <2>2 DEF Range
      <3>3. new \in Range(values')
        BY <1>15 DEF Range
      <3>. QED
        BY <3>1, <3>2, <3>3
    <2>. QED
      BY <1>14, <2>3 DEF InFront
  <1>21. \A j \in DOMAIN values' : heap'[values'[j]].key = j /\ heap'[values'[j]].value = last'[j]
    <2>1. heap'[new].key = k /\ heap'[new].value = v
      BY <1>14 DEF InFront
    <2>2. \A n \in Range(logiclists) : heap'[n] = heap[n]
      BY <1>14 DEF InFront
    <2>. QED
      BY <1>15, <1>16, <1>18, <2>1, <2>2
  <1>22. /\ Len(logiclists') = m + 1 /\ m + 1 <= Capacity
         /\ used' \in 0 .. MaxUsed /\ used' >= m + 1
    <2>1. Len(logiclists') = m + 1
      BY <1>12, <1>14 DEF InFront
    <2>2. PICK n \in Nat, e \in Nat : n = Len(list) /\ e = Len(out)
      BY <1>8, <1>10
    <2>3. used \in Nat /\ used >= size /\ Capacity \in Nat /\ MaxUsed \in Nat
      BY <1>7 DEF CInv, TypeOK, Drift, CacheAssumption
    <2>4. n <= size /\ m = n - e /\ (size = Capacity => e = 1)
      BY <1>7, <1>8, <1>10, <1>11, <2>2
    <2>5. used' = used - e + 1 /\ used' <= MaxUsed
      BY <1>5, <2>2 DEF UsedAfter
    <2>. QED
      BY <1>7, <2>1, <2>3, <2>4, <2>5
  <1>23. TypeOK'
    <2>1. Range(logiclists') \subseteq Nodes
      BY <1>14, RangeProperties DEF InFront
    <2>2. Range(last') \subseteq Values
      <3>1. \A j \in DOMAIN last : last[j] \in Values
        BY DEF CInv, TypeOK, Range
      <3>. QED
        BY <1>16, <3>1 DEF Range
    <2>3. DOMAIN values' \subseteq Keys /\ DOMAIN last' \subseteq Keys
      BY <1>15, <1>16 DEF CInv, TypeOK
    <2>. QED
      BY <1>14, <1>20, <1>22, <2>1, <2>2, <2>3 DEF InFront, TypeOK, Node
  <1>24. MapIsList'
    BY <1>14, <1>20, <1>21, <1>22 DEF InFront, MapIsList
  <1>25. HitIsLatest'
    BY <1>21 DEF HitIsLatest
  <1>26. MostRecent'
    <2>1. PICK h, l, r : h = heap' /\ l = logiclists' /\ r = recent'
      OBVIOUS
    <2>2. IsPrefix([i \in DOMAIN l |-> h[l[i]].key], r)
      BY <1>14, <2>1, LeadsIsPrefix DEF InFront
    <2>. QED
      BY <2>1, <2>2 DEF MostRecent
  <1>27. Known' /\ Drift'
    BY <1>15, <1>16, <1>18, <1>22 DEF Known, Drift
  <1>. QED
    BY <1>14, <1>23, <1>24, <1>25, <1>26, <1>27 DEF InFront, CInv

LEMMA CInvStep == CacheAssumption /\ CInv /\ [Next]_vars => CInv'
  <1> SUFFICES ASSUME CacheAssumption, CInv, [Next]_vars PROVE CInv'
    OBVIOUS
  <1>1. CASE Next
    <2>1. PICK k \in Keys : Get(k) \/ \E v \in Values : SetFront(k, v) \/ Set(k, v)
      BY <1>1 DEF Next
    <2>. QED
      BY <2>1, GetStep, SetFrontStep, SetStep
  <1>2. CASE UNCHANGED vars
    BY <1>2 DEF vars, CInv, TypeOK, MapIsList, HitIsLatest, MostRecent, Filled, Known, Drift
  <1>. QED
    BY <1>1, <1>2

LEMMA CInvAlways == CacheAssumption => (Spec => []CInv)
  <1> SUFFICES ASSUME CacheAssumption PROVE Spec => []CInv
    OBVIOUS
  <1>1. Init => CInv
    BY InitCInv
  <1>2. CInv /\ [Next]_vars => CInv'
    BY CInvStep
  <1>. QED
    BY <1>1, <1>2, PTL DEF Spec

\* For any keys, values and capacity, and whatever calls are made, the map and the list
\* of the cache agree, a hit returns what was last set, and what is cached is what was
\* used most recently: the wrong entry never leaves.
THEOREM CacheRemembers == CacheAssumption => (Spec => []CacheIsHistory)
  <1>1. CInv => CacheIsHistory
    BY DEF CInv, CacheIsHistory
  <1>. QED
    BY <1>1, CInvAlways, PTL

\* The type of the cache's state: a node is free whenever one is made, and used_ never
\* falls below zero.
THEOREM CacheTypes == CacheAssumption => (Spec => []TypeOK)
  <1>1. CInv => TypeOK
    BY DEF CInv
  <1>. QED
    BY <1>1, CInvAlways, PTL
=============================================================================
