----------------------------- MODULE PartsProofs -----------------------------
(***************************************************************************)
(* What holds of the parts of Parts for every value of their constants:    *)
(* the maps of LFUCache, the links between eventpolls, the list of         *)
(* TimerManager, the bytes that go through a Tunnel, and the tables and    *)
(* the lines of the echo server.                                           *)
(***************************************************************************)
EXTENDS Parts, FilterProofs

-----------------------------------------------------------------------------
(* LFUCache.  v1 key, v2 values, v3 counts, v4 frequencies, v5 used,       *)
(* v6 threw, v7 overwrote.                                                 *)

LEMMA LFUHelpers ==
  /\ \A f : LFU!Range(f) = Range(f) /\ (LFU!IsInjective(f) <=> IsInjective(f))
  /\ \A s, S : LFU!Keep(s, S) = Keep(s, S)
  /\ \A S : LFU!Cardinality(S) = Cardinality(S)
<1>1. \A f : LFU!Range(f) = Range(f) /\ (LFU!IsInjective(f) <=> IsInjective(f))
  BY DEF LFU!Range, Range, LFU!IsInjective, IsInjective
<1>2. \A s, S : LFU!Keep(s, S) = Keep(s, S)
  BY DEF LFU!Keep, Keep, LFU!Kept, Kept
<1>3. \A S : LFU!Cardinality(S) = Cardinality(S)
  BY DEF LFU!Cardinality, Cardinality
<1> QED BY <1>1, <1>2, <1>3

\* The maps of the cache agree: nodes and lists, keys and nodes, keys and counts.
NodesListed(ky, vs, cs, fs) ==
    \A f \in DOMAIN fs :
        /\ fs[f] \in Seq(LFU!Nodes) /\ fs[f] # << >> /\ IsInjective(fs[f])
        /\ \A n \in Range(fs[f]) : /\ ky[n] \in DOMAIN vs
                                   /\ vs[ky[n]] = n /\ cs[ky[n]] = f
KeysListed(ky, vs, cs, fs) ==
    \A k \in DOMAIN vs :
        /\ vs[k] \in LFU!Nodes /\ ky[vs[k]] = k /\ cs[k] \in Nat \ {0}
        /\ cs[k] \in DOMAIN fs /\ vs[k] \in Range(fs[cs[k]])
Agree(ky, vs, cs, fs) ==
    /\ ky = [n \in LFU!Nodes |-> ky[n]]
    /\ vs = [k \in DOMAIN vs |-> vs[k]]
    /\ cs = [k \in DOMAIN vs |-> cs[k]]
    /\ fs = [f \in DOMAIN fs |-> fs[f]]
    /\ DOMAIN fs \subseteq Nat \ {0}
    /\ NodesListed(ky, vs, cs, fs) /\ KeysListed(ky, vs, cs, fs)

\* remove() of a node and of its key keeps them so.
LEMMA NodeRemoved ==
  ASSUME NEW ky, NEW vs, NEW cs, NEW fs, Agree(ky, vs, cs, fs), NEW k \in DOMAIN vs
  PROVE  /\ Agree(ky, LFU!Restrict(vs, DOMAIN vs \ {k}), LFU!Restrict(cs, DOMAIN cs \ {k}),
                  LFU!Removed(fs, cs[k], vs[k]))
         /\ vs[k] \notin LFU!Listed(LFU!Removed(fs, cs[k], vs[k]))
         /\ vs[k] \notin Range(LFU!Restrict(vs, DOMAIN vs \ {k}))
<1> DEFINE n == vs[k]
           f == cs[k]
           vs1 == LFU!Restrict(vs, DOMAIN vs \ {k})
           cs1 == LFU!Restrict(cs, DOMAIN cs \ {k})
           fs1 == LFU!Removed(fs, f, n)
           list == Keep(fs[f], LFU!Nodes \ {n})
<1>0. /\ ky = [m \in LFU!Nodes |-> ky[m]] /\ cs = [j \in DOMAIN vs |-> cs[j]]
      /\ fs = [g \in DOMAIN fs |-> fs[g]] /\ DOMAIN fs \subseteq Nat \ {0}
      /\ NodesListed(ky, vs, cs, fs) /\ KeysListed(ky, vs, cs, fs)
      /\ DOMAIN cs = DOMAIN vs
  BY DEF Agree
<1>1. /\ vs1 = [j \in DOMAIN vs \ {k} |-> vs[j]] /\ DOMAIN vs1 = DOMAIN vs \ {k}
      /\ cs1 = [j \in DOMAIN vs \ {k} |-> cs[j]]
      /\ \A j \in DOMAIN vs \ {k} : vs1[j] = vs[j] /\ cs1[j] = cs[j]
  BY <1>0 DEF LFU!Restrict
<1>2. /\ f \in DOMAIN fs /\ n \in LFU!Nodes /\ ky[n] = k /\ n \in Range(fs[f])
      /\ fs[f] \in Seq(LFU!Nodes) /\ IsInjective(fs[f])
      /\ Range(fs[f]) \subseteq LFU!Nodes
  BY <1>0, RangeProperties DEF KeysListed, NodesListed
<1>3. /\ list \in Seq(LFU!Nodes) /\ Range(list) = Range(fs[f]) \ {n} /\ IsInjective(list)
      /\ Range(list) = {} <=> list = << >>
  BY <1>2, KeepProperties, RangeProperties
<1>4. fs1 = IF list = << >> THEN LFU!Restrict(fs, DOMAIN fs \ {f}) ELSE [fs EXCEPT ![f] = list]
  BY LFUHelpers DEF LFU!Removed
<1>5. /\ fs1 = [g \in DOMAIN fs1 |-> fs1[g]]
      /\ DOMAIN fs1 = IF list = << >> THEN DOMAIN fs \ {f} ELSE DOMAIN fs
      /\ \A g \in DOMAIN fs1 : fs1[g] = IF g = f THEN list ELSE fs[g]
  <2> HIDE DEF list, fs1
  <2> QED BY <1>0, <1>2, <1>4 DEF LFU!Restrict
<1> HIDE DEF list, fs1, vs1, cs1, n, f
<1>6. \A g \in DOMAIN fs1 : \A m \in Range(fs1[g]) :
         m \in Range(fs[g]) /\ m # n /\ ky[m] \in DOMAIN vs /\ vs[ky[m]] = m /\ cs[ky[m]] = g
  <2>1. ASSUME NEW g \in DOMAIN fs1, NEW m \in Range(fs1[g])
        PROVE  m \in Range(fs[g]) /\ g \in DOMAIN fs /\ (g = f => m # n)
    BY <1>3, <1>5
  <2>2. ASSUME NEW g \in DOMAIN fs, g # f PROVE n \notin Range(fs[g])
    BY <1>0, <1>2, <2>2 DEF NodesListed, f
  <2>3. ASSUME NEW g \in DOMAIN fs1, NEW m \in Range(fs1[g])
        PROVE  /\ m \in Range(fs[g]) /\ m # n
               /\ ky[m] \in DOMAIN vs /\ vs[ky[m]] = m /\ cs[ky[m]] = g
    <3>1. m \in Range(fs[g]) /\ g \in DOMAIN fs /\ (g = f => m # n)
      BY <2>1
    <3>2. m \in Range(fs[g]) /\ ky[m] \in DOMAIN vs /\ vs[ky[m]] = m /\ cs[ky[m]] = g
      BY <1>0, <3>1 DEF NodesListed
    <3>3. m # n
      <4>1. CASE g = f
        BY <3>1, <4>1
      <4>2. CASE g # f
        BY <2>2, <3>1, <4>2
      <4> QED BY <4>1, <4>2
    <3> QED BY <3>2, <3>3
  <2> QED BY <2>3
<1>7. NodesListed(ky, vs1, cs1, fs1)
  <2>1. ASSUME NEW g \in DOMAIN fs1
        PROVE  fs1[g] \in Seq(LFU!Nodes) /\ fs1[g] # << >> /\ IsInjective(fs1[g])
    BY <1>0, <1>3, <1>5 DEF NodesListed
  <2>2. ASSUME NEW g \in DOMAIN fs1, NEW m \in Range(fs1[g])
        PROVE  ky[m] \in DOMAIN vs1 /\ vs1[ky[m]] = m /\ cs1[ky[m]] = g
    BY <1>1, <1>6, <2>2 DEF n
  <2> QED BY <2>1, <2>2 DEF NodesListed
<1>8. KeysListed(ky, vs1, cs1, fs1)
  <2>1. ASSUME NEW j \in DOMAIN vs1
        PROVE  /\ vs1[j] \in LFU!Nodes /\ ky[vs1[j]] = j /\ cs1[j] \in Nat \ {0}
               /\ cs1[j] \in DOMAIN fs1 /\ vs1[j] \in Range(fs1[cs1[j]])
    <3>1. /\ j \in DOMAIN vs \ {k} /\ vs1[j] = vs[j] /\ cs1[j] = cs[j]
          /\ vs[j] \in LFU!Nodes /\ ky[vs[j]] = j /\ cs[j] \in Nat \ {0}
          /\ cs[j] \in DOMAIN fs /\ vs[j] \in Range(fs[cs[j]])
      BY <1>0, <1>1, <2>1 DEF KeysListed
    <3>2. vs[j] # n
      BY <1>2, <3>1
    <3>3. cs[j] = f => vs[j] \in Range(list) /\ list # << >>
      BY <1>3, <3>1, <3>2
    <3> QED BY <1>5, <3>1, <3>3
  <2> QED BY <2>1 DEF KeysListed
<1>9. n \notin LFU!Listed(fs1)
  BY <1>6, LFUHelpers DEF LFU!Listed
<1>10. n \notin Range(vs1)
  <2>1. \A j \in DOMAIN vs1 : vs1[j] # n
    <3>1. \A j \in DOMAIN vs \ {k} : vs[j] # n
      BY <1>0, <1>2 DEF KeysListed
    <3> QED BY <1>1, <3>1
  <2> QED BY <2>1 DEF Range
<1>11. Agree(ky, vs1, cs1, fs1)
  <2>1. vs1 = [j \in DOMAIN vs1 |-> vs1[j]] /\ cs1 = [j \in DOMAIN vs1 |-> cs1[j]]
    BY <1>1
  <2>2. DOMAIN fs1 \subseteq Nat \ {0}
    BY <1>0, <1>5
  <2> QED BY <1>0, <1>5, <1>7, <1>8, <2>1, <2>2 DEF Agree
<1> QED BY <1>9, <1>10, <1>11 DEF n, f, vs1, cs1, fs1

\* push_back() of a node that no table has, for a key that none has, keeps them so.
LEMMA NodeAdded ==
  ASSUME NEW ky, NEW vs, NEW cs, NEW fs, Agree(ky, vs, cs, fs), NEW k, k \notin DOMAIN vs,
         NEW n \in LFU!Nodes, n \notin Range(vs), n \notin LFU!Listed(fs), NEW f \in Nat \ {0}
  PROVE  Agree([ky EXCEPT ![n] = k], LFU!With(vs, k, n), LFU!With(cs, k, f), LFU!Pushed(fs, f, n))
<1> DEFINE ky1 == [ky EXCEPT ![n] = k]
           vs1 == LFU!With(vs, k, n)
           cs1 == LFU!With(cs, k, f)
           fs1 == LFU!Pushed(fs, f, n)
           old == IF f \in DOMAIN fs THEN fs[f] ELSE << >>
<1>0. /\ ky = [m \in LFU!Nodes |-> ky[m]] /\ DOMAIN cs = DOMAIN vs /\ DOMAIN fs \subseteq Nat \ {0}
      /\ NodesListed(ky, vs, cs, fs) /\ KeysListed(ky, vs, cs, fs)
  BY DEF Agree
<1>1. /\ vs1 = [j \in DOMAIN vs1 |-> vs1[j]] /\ cs1 = [j \in DOMAIN vs1 |-> cs1[j]]
      /\ DOMAIN vs1 = DOMAIN vs \cup {k} /\ vs1[k] = n /\ cs1[k] = f
      /\ \A j \in DOMAIN vs : j # k /\ vs1[j] = vs[j] /\ cs1[j] = cs[j]
  BY <1>0 DEF LFU!With
<1>2. /\ ky1 = [m \in LFU!Nodes |-> ky1[m]] /\ ky1[n] = k
      /\ \A m \in LFU!Nodes : m # n => ky1[m] = ky[m]
  BY <1>0
<1>3. \A g \in DOMAIN fs : n \notin Range(fs[g]) /\ Range(fs[g]) \subseteq LFU!Nodes
  BY <1>0, LFUHelpers, RangeProperties DEF LFU!Listed, NodesListed
<1>4. /\ old \in Seq(LFU!Nodes) /\ IsInjective(old) /\ n \notin Range(old)
      /\ Range(old) = IF f \in DOMAIN fs THEN Range(fs[f]) ELSE {}
  <2>1. CASE f \in DOMAIN fs
    BY <1>0, <1>3, <2>1 DEF NodesListed
  <2>2. CASE f \notin DOMAIN fs
    BY <2>2, EmptyProperties
  <2> QED BY <2>1, <2>2
<1>5. /\ Append(old, n) \in Seq(LFU!Nodes) /\ Append(old, n) # << >>
      /\ Range(Append(old, n)) = Range(old) \cup {n} /\ IsInjective(Append(old, n))
  <2> HIDE DEF old
  <2> QED BY <1>4, AppendMembers
<1>6. /\ fs1 = [g \in DOMAIN fs1 |-> fs1[g]] /\ DOMAIN fs1 = DOMAIN fs \cup {f}
      /\ fs1[f] = Append(old, n) /\ \A g \in DOMAIN fs : g # f => fs1[g] = fs[g]
  BY DEF LFU!Pushed, LFU!With
<1> HIDE DEF ky1, vs1, cs1, fs1, old
<1>7. NodesListed(ky1, vs1, cs1, fs1)
  <2>1. ASSUME NEW g \in DOMAIN fs1
        PROVE  fs1[g] \in Seq(LFU!Nodes) /\ fs1[g] # << >> /\ IsInjective(fs1[g])
    BY <1>0, <1>5, <1>6 DEF NodesListed
  <2>2. ASSUME NEW g \in DOMAIN fs1, NEW m \in Range(fs1[g])
        PROVE  ky1[m] \in DOMAIN vs1 /\ vs1[ky1[m]] = m /\ cs1[ky1[m]] = g
    <3>1. CASE m = n
      <4>1. g = f
        BY <1>3, <1>6, <2>2, <3>1
      <4> QED BY <1>1, <1>2, <3>1, <4>1
    <3>2. CASE m # n
      <4>1. g \in DOMAIN fs /\ m \in Range(fs[g])
        BY <1>4, <1>5, <1>6, <2>2, <3>2
      <4>2. ky[m] \in DOMAIN vs /\ vs[ky[m]] = m /\ cs[ky[m]] = g /\ m \in LFU!Nodes
        BY <1>0, <1>3, <4>1 DEF NodesListed
      <4> QED BY <1>1, <1>2, <3>2, <4>2
    <3> QED BY <3>1, <3>2
  <2> QED BY <2>1, <2>2 DEF NodesListed
<1>8. KeysListed(ky1, vs1, cs1, fs1)
  <2>1. ASSUME NEW j \in DOMAIN vs1
        PROVE  /\ vs1[j] \in LFU!Nodes /\ ky1[vs1[j]] = j /\ cs1[j] \in Nat \ {0}
               /\ cs1[j] \in DOMAIN fs1 /\ vs1[j] \in Range(fs1[cs1[j]])
    <3>1. CASE j = k
      BY <1>1, <1>2, <1>5, <1>6, <3>1
    <3>2. CASE j # k
      <4>1. /\ j \in DOMAIN vs /\ vs1[j] = vs[j] /\ cs1[j] = cs[j]
            /\ vs[j] \in LFU!Nodes /\ ky[vs[j]] = j /\ cs[j] \in Nat \ {0}
            /\ cs[j] \in DOMAIN fs /\ vs[j] \in Range(fs[cs[j]])
        BY <1>0, <1>1, <2>1, <3>2 DEF KeysListed
      <4>2. vs[j] # n
        BY <4>1 DEF Range
      <4>3. vs[j] \in Range(fs1[cs[j]])
        BY <1>4, <1>5, <1>6, <4>1
      <4> QED BY <1>2, <1>6, <4>1, <4>2, <4>3
    <3> QED BY <3>1, <3>2
  <2> QED BY <2>1 DEF KeysListed
<1>9. DOMAIN fs1 \subseteq Nat \ {0}
  BY <1>0, <1>6
<1>10. Agree(ky1, vs1, cs1, fs1)
  BY <1>1, <1>2, <1>6, <1>7, <1>8, <1>9 DEF Agree
<1> QED BY <1>10 DEF ky1, vs1, cs1, fs1

\* Until a cached key is set again, which leaves its node in the list of its old frequency.
LFUInv ==
    ~v7 => /\ Agree(v1, v2, v3, v4)
           /\ IsFiniteSet(DOMAIN v2) /\ v5 = Cardinality(DOMAIN v2) /\ v5 <= Capacity

LEMMA LFUStart == LFU!Init => LFUInv
<1> SUFFICES ASSUME LFU!Init PROVE LFUInv
  OBVIOUS
<1>1. v2 = << >> /\ v3 = << >> /\ v4 = << >> /\ v5 = 0 /\ v1 = [n \in LFU!Nodes |-> v1[n]]
  BY DEF LFU!Init
<1>2. << >> = [x \in {} |-> << >>[x]] /\ DOMAIN << >> = {}
  OBVIOUS
<1>3. Agree(v1, v2, v3, v4)
  BY <1>1, <1>2 DEF Agree, NodesListed, KeysListed
<1>4. IsFiniteSet(DOMAIN v2) /\ Cardinality(DOMAIN v2) = 0
  BY <1>1, <1>2, FS_EmptySet
<1>5. Capacity \in Nat
  BY PartsAssumption DEF LFU!CacheAssumption
<1> QED BY <1>1, <1>3, <1>4, <1>5 DEF LFUInv

\* Get of a cached key moves its node to the list of the next frequency.
LEMMA LFUGet ==
  ASSUME LFUInv, NEW k \in Keys, LFU!Get(k), ~v7
  PROVE  LFUInv' /\ DOMAIN v2' = DOMAIN v2
<1> DEFINE n == v2[k]
           f == v3[k]
           vs1 == LFU!Restrict(v2, DOMAIN v2 \ {k})
           cs1 == LFU!Restrict(v3, DOMAIN v3 \ {k})
           fs1 == LFU!Removed(v4, f, n)
<1>0. /\ Agree(v1, v2, v3, v4) /\ k \in DOMAIN v2 /\ DOMAIN v3 = DOMAIN v2
      /\ IsFiniteSet(DOMAIN v2) /\ v5 = Cardinality(DOMAIN v2) /\ v5 <= Capacity
      /\ v2 = [j \in DOMAIN v2 |-> v2[j]] /\ v3 = [j \in DOMAIN v2 |-> v3[j]]
      /\ v1 = [m \in LFU!Nodes |-> v1[m]]
      /\ n \in LFU!Nodes /\ v1[n] = k /\ f \in Nat \ {0} /\ f \in DOMAIN v4
  BY DEF LFUInv, LFU!Get, Agree, KeysListed
<1>1. /\ v4' = LFU!Pushed(fs1, f + 1, n) /\ v3' = [v3 EXCEPT ![k] = f + 1]
      /\ UNCHANGED << v1, v2, v5, v7 >>
  BY <1>0 DEF LFU!Get, LFU!NextCount
<1>2. Agree(v1, vs1, cs1, fs1) /\ n \notin LFU!Listed(fs1) /\ n \notin Range(vs1)
  BY <1>0, NodeRemoved
<1>3. DOMAIN vs1 = DOMAIN v2 \ {k}
  BY DEF LFU!Restrict
<1>4. Agree([v1 EXCEPT ![n] = k], LFU!With(vs1, k, n), LFU!With(cs1, k, f + 1),
            LFU!Pushed(fs1, f + 1, n))
  <2>1. k \notin DOMAIN vs1 /\ f + 1 \in Nat \ {0}
    BY <1>0, <1>3
  <2> HIDE DEF n, f, vs1, cs1, fs1
  <2> QED BY <1>0, <1>2, <2>1, NodeAdded
<1>5. [v1 EXCEPT ![n] = k] = v1
  BY <1>0
<1>6. LFU!With(vs1, k, n) = v2
  BY <1>0 DEF LFU!With, LFU!Restrict
<1>7. LFU!With(cs1, k, f + 1) = [v3 EXCEPT ![k] = f + 1]
  BY <1>0 DEF LFU!With, LFU!Restrict
<1>8. Agree(v1, v2, v3, v4)'
  BY <1>1, <1>4, <1>5, <1>6, <1>7
<1> QED BY <1>0, <1>1, <1>8 DEF LFUInv

\* A turn of Evict takes the oldest key of the lowest frequency out of every table.
Tables == [fs |-> v4, vs |-> v2, cs |-> v3, used |-> v5]

LEMMA LFUEvict ==
  ASSUME LFUInv, ~v7, DOMAIN v2 # {}
  PROVE  \E k \in DOMAIN v2 :
           LET r == LFU!Evict(Tables, 0)
           IN  /\ \A j \in DOMAIN v2 : v3[k] <= v3[j]
               /\ Agree(v1, r.vs, r.cs, r.fs) /\ r.used = v5 - 1
               /\ r.vs = LFU!Restrict(v2, DOMAIN v2 \ {k}) /\ DOMAIN r.vs = DOMAIN v2 \ {k}
               /\ r.fs = LFU!Removed(v4, v3[k], v2[k])
<1> DEFINE f == LFU!LowestCount(v4)
           n == Head(v4[f])
           k == v1[n]
           e == LFU!EvictOne(Tables)
<1>0. /\ Agree(v1, v2, v3, v4) /\ DOMAIN v3 = DOMAIN v2 /\ DOMAIN v4 \subseteq Nat
      /\ NodesListed(v1, v2, v3, v4) /\ KeysListed(v1, v2, v3, v4)
  BY DEF LFUInv, Agree
<1>1. f \in DOMAIN v4 /\ \A g \in DOMAIN v4 : f <= g
  <2>1. DOMAIN v4 # {}
    BY <1>0 DEF KeysListed
  <2>2. \E x \in DOMAIN v4 : \A y \in DOMAIN v4 : x <= y
    BY <1>0, <2>1, Smallest
  <2> QED BY <2>2 DEF LFU!LowestCount, LFU!Min
<1>2. v4[f] \in Seq(LFU!Nodes) /\ v4[f] # << >>
  BY <1>0, <1>1 DEF NodesListed
<1>3. n \in Range(v4[f])
  BY <1>2, TailMembers
<1>4. k \in DOMAIN v2 /\ v2[k] = n /\ v3[k] = f
  BY <1>0, <1>1, <1>3 DEF NodesListed
<1>5. LFU!Evict(Tables, 0) = e
  <2> DEFINE Right(a) == a = [i \in 0 .. 0 |-> LFU!EvictOne(IF i = 0 THEN Tables ELSE a[i - 1])]
             after == CHOOSE a : Right(a)
  <2>1. LFU!Evict(Tables, 0) = after[0]
    BY DEF LFU!Evict
  <2>2. Right([i \in 0 .. 0 |-> e])
    OBVIOUS
  <2>3. Right(after)
    <3> HIDE DEF Right
    <3> QED BY <2>2
  <2>4. 0 \in 0 .. 0
    OBVIOUS
  <2> HIDE DEF after
  <2> QED BY <2>1, <2>3, <2>4
<1>6. /\ e.fs = LFU!Removed(v4, f, n) /\ e.used = v5 - 1
      /\ e.vs = LFU!Restrict(v2, DOMAIN v2 \ {k}) /\ e.cs = LFU!Restrict(v3, DOMAIN v3 \ {k})
  BY DEF LFU!EvictOne, Tables
<1> HIDE DEF f, n, k, e
<1>7. Agree(v1, e.vs, e.cs, e.fs)
  <2>1. Agree(v1, LFU!Restrict(v2, DOMAIN v2 \ {k}), LFU!Restrict(v3, DOMAIN v3 \ {k}),
              LFU!Removed(v4, v3[k], v2[k]))
    BY <1>0, <1>4, NodeRemoved
  <2> QED BY <1>4, <1>6, <2>1
<1>8. \A j \in DOMAIN v2 : v3[k] <= v3[j]
  BY <1>0, <1>1, <1>4 DEF KeysListed
<1>9. DOMAIN e.vs = DOMAIN v2 \ {k}
  BY <1>6 DEF LFU!Restrict
<1> QED BY <1>4, <1>5, <1>6, <1>7, <1>8, <1>9

\* Set of a new key: one key leaves if the cache is full, and the new one is added.
LEMMA LFUSetNew ==
  ASSUME LFUInv, NEW k \in Keys, LFU!SetNew(k), ~v7
  PROVE  LFUInv' /\ (\A i \in DOMAIN v2 \ DOMAIN v2', j \in DOMAIN v2 : v3[i] <= v3[j])
<1> DEFINE r == IF LFU!Cardinality(DOMAIN v2) >= Capacity
                THEN LFU!Evict(Tables, LFU!Cardinality(DOMAIN v2) - Capacity) ELSE Tables
           n == LFU!Min(LFU!Unused)
<1>0. /\ Agree(v1, v2, v3, v4) /\ k \notin DOMAIN v2 /\ IsFiniteSet(DOMAIN v2)
      /\ v5 = Cardinality(DOMAIN v2) /\ v5 <= Capacity /\ v5 \in Nat /\ Capacity \in Nat \ {0}
      /\ v1 = [m \in LFU!Nodes |-> v1[m]]
  BY PartsAssumption, FS_CardinalityType DEF LFUInv, LFU!SetNew, Agree, LFU!CacheAssumption
<1>1. /\ v1' = [v1 EXCEPT ![n] = k] /\ v2' = LFU!With(r.vs, k, n) /\ v3' = LFU!With(r.cs, k, 1)
      /\ v4' = LFU!Pushed(r.fs, 1, n) /\ v5' = r.used + 1 /\ v7' = v7
  BY DEF LFU!SetNew, Tables
<1>2. n \in LFU!Nodes /\ n \notin Range(v2) /\ n \notin LFU!Listed(v4)
  <2>1. LFU!Unused # {} /\ LFU!Unused \in SUBSET Nat
    <3>1. LFU!Nodes \subseteq Nat
      BY DEF LFU!Nodes
    <3> QED BY <3>1 DEF LFU!SetNew, LFU!Unused
  <2>2. \E x \in LFU!Unused : \A y \in LFU!Unused : x <= y
    <3> HIDE DEF n
    <3> QED BY <2>1, Smallest
  <2>3. n \in LFU!Unused
    BY <2>2 DEF LFU!Min
  <2> HIDE DEF n
  <2> QED BY <2>3, LFUHelpers DEF LFU!Unused
<1> HIDE DEF n
<1>3. /\ Agree(v1, r.vs, r.cs, r.fs) /\ DOMAIN r.vs \subseteq DOMAIN v2
      /\ IsFiniteSet(DOMAIN r.vs) /\ r.used = Cardinality(DOMAIN r.vs) /\ r.used < Capacity
      /\ Range(r.vs) \subseteq Range(v2) /\ LFU!Listed(r.fs) \subseteq LFU!Listed(v4)
      /\ \A i \in DOMAIN v2 \ DOMAIN r.vs, j \in DOMAIN v2 : v3[i] <= v3[j]
  <2>1. CASE v5 >= Capacity
    <3>1. r = LFU!Evict(Tables, 0)
      BY <1>0, <2>1, LFUHelpers
    <3>2. DOMAIN v2 # {}
      BY <1>0, <2>1, FS_EmptySet
    <3>3. PICK i \in DOMAIN v2 :
            /\ \A j \in DOMAIN v2 : v3[i] <= v3[j]
            /\ Agree(v1, r.vs, r.cs, r.fs) /\ r.used = v5 - 1
            /\ r.vs = LFU!Restrict(v2, DOMAIN v2 \ {i}) /\ DOMAIN r.vs = DOMAIN v2 \ {i}
            /\ r.fs = LFU!Removed(v4, v3[i], v2[i])
      <4> HIDE DEF r
      <4> QED BY <3>1, <3>2, LFUEvict
    <3> HIDE DEF r
    <3>4. IsFiniteSet(DOMAIN r.vs) /\ Cardinality(DOMAIN r.vs) = v5 - 1
      BY <1>0, <3>3, FS_RemoveElement
    <3>5. Range(r.vs) \subseteq Range(v2)
      BY <3>3 DEF Range, LFU!Restrict
    <3>6. LFU!Listed(r.fs) \subseteq LFU!Listed(v4)
      <4>1. v3[i] \in DOMAIN v4 /\ v4[v3[i]] \in Seq(LFU!Nodes)
        BY <1>0 DEF Agree, KeysListed, NodesListed
      <4>2. Range(Keep(v4[v3[i]], LFU!Nodes \ {v2[i]})) \subseteq Range(v4[v3[i]])
        BY <4>1, KeepProperties
      <4>3. \A g \in DOMAIN r.fs : g \in DOMAIN v4 /\ Range(r.fs[g]) \subseteq Range(v4[g])
        BY <3>3, <4>1, <4>2, LFUHelpers DEF LFU!Removed, LFU!Restrict
      <4> QED BY <4>3, LFUHelpers DEF LFU!Listed
    <3>7. r.used = Cardinality(DOMAIN r.vs) /\ r.used < Capacity
      BY <1>0, <3>3, <3>4
    <3>8. ASSUME NEW h \in DOMAIN v2 \ DOMAIN r.vs, NEW j \in DOMAIN v2 PROVE v3[h] <= v3[j]
      BY <3>3, <3>8
    <3>9. Agree(v1, r.vs, r.cs, r.fs) /\ DOMAIN r.vs \subseteq DOMAIN v2
      BY <3>3
    <3> QED BY <3>4, <3>5, <3>6, <3>7, <3>8, <3>9
  <2>2. CASE ~(v5 >= Capacity)
    <3>1. r = Tables
      BY <1>0, <2>2, LFUHelpers
    <3>2. r.vs = v2 /\ r.cs = v3 /\ r.fs = v4 /\ r.used = v5
      BY <3>1 DEF Tables
    <3>3. v5 < Capacity
      BY <1>0, <2>2
    <3> HIDE DEF r
    <3> QED BY <1>0, <3>2, <3>3
  <2> QED BY <2>1, <2>2
<1> HIDE DEF r
<1>4. Agree(v1, v2, v3, v4)'
  <2>1. k \notin DOMAIN r.vs /\ n \notin Range(r.vs) /\ n \notin LFU!Listed(r.fs) /\ 1 \in Nat \ {0}
    BY <1>0, <1>2, <1>3
  <2>2. Agree([v1 EXCEPT ![n] = k], LFU!With(r.vs, k, n), LFU!With(r.cs, k, 1),
              LFU!Pushed(r.fs, 1, n))
    BY <1>2, <1>3, <2>1, NodeAdded
  <2> QED BY <1>1, <2>2
<1>5. DOMAIN v2' = DOMAIN r.vs \cup {k}
  BY <1>1 DEF LFU!With
<1>6. IsFiniteSet(DOMAIN v2') /\ Cardinality(DOMAIN v2') = r.used + 1
  BY <1>0, <1>3, <1>5, FS_AddElement
<1>7. r.used \in Nat
  BY <1>3, FS_CardinalityType
<1>8. LFUInv'
  BY <1>0, <1>1, <1>3, <1>4, <1>6, <1>7 DEF LFUInv
<1> QED BY <1>3, <1>5, <1>8

LEMMA LFUStep == LFUInv /\ [LFU!Next]_(LFU!vars) => LFUInv' /\ (LFU!Next => LFU!LeastLeaves)
<1> SUFFICES ASSUME LFUInv, [LFU!Next]_(LFU!vars)
             PROVE  LFUInv' /\ (LFU!Next => LFU!LeastLeaves)
  OBVIOUS
<1>1. CASE UNCHANGED LFU!vars
  BY <1>1 DEF LFU!vars, LFUInv, Agree, NodesListed, KeysListed, LFU!LeastLeaves
<1>2. CASE v7 /\ LFU!Next
  BY <1>2 DEF LFU!Next, LFU!Get, LFU!SetCached, LFU!SetNew, LFUInv, LFU!LeastLeaves
<1>3. ASSUME ~v7, NEW k \in Keys, LFU!Get(k)
      PROVE  LFUInv' /\ LFU!LeastLeaves
  BY <1>3, LFUGet DEF LFU!LeastLeaves
<1>4. ASSUME ~v7, NEW k \in Keys, LFU!SetCached(k)
      PROVE  LFUInv' /\ LFU!LeastLeaves
  BY <1>4 DEF LFU!SetCached, LFUInv, LFU!LeastLeaves
<1>5. ASSUME ~v7, NEW k \in Keys, LFU!SetNew(k)
      PROVE  LFUInv' /\ LFU!LeastLeaves
  BY <1>5, LFUSetNew DEF LFU!LeastLeaves
<1> QED BY <1>1, <1>2, <1>3, <1>4, <1>5 DEF LFU!Next

LEMMA LFUSafe == LFUInv => LFU!TablesAgree
<1> SUFFICES ASSUME LFUInv, ~v7 PROVE LFU!TablesAgree
  BY DEF LFU!TablesAgree
<1>0. /\ NodesListed(v1, v2, v3, v4) /\ KeysListed(v1, v2, v3, v4)
      /\ v5 = Cardinality(DOMAIN v2) /\ v5 <= Capacity
  BY DEF LFUInv, Agree
<1>1. ASSUME NEW f \in DOMAIN v4, NEW i \in DOMAIN v4[f]
      PROVE  /\ v1[v4[f][i]] \in DOMAIN v2
             /\ v2[v1[v4[f][i]]] = v4[f][i] /\ v3[v1[v4[f][i]]] = f
  <2>1. v4[f][i] \in Range(v4[f])
    BY DEF Range
  <2> QED BY <1>0, <2>1 DEF NodesListed
<1>2. \A f \in DOMAIN v4 : IsInjective(v4[f])
  BY <1>0 DEF NodesListed
<1> QED BY <1>0, <1>1, <1>2, LFUHelpers DEF LFU!TablesAgree, KeysListed

\* As long as no cached key is set again the three maps of LFUCache agree, for any keys
\* and any capacity: every cached key is in the list of its frequency, once, and in no
\* other, and used_ counts them (Get, Set and Evict). And the key that a Set makes room
\* by is among the least used ones (Evict).
THEOREM LFUSound == LFU!Spec => []LFU!TablesAgree /\ LFU!LeastUsedLeaves
<1>1. LFUInv /\ [LFU!Next]_(LFU!vars) => [LFU!LeastLeaves]_(LFU!vars)
  BY LFUStep
<1> QED BY <1>1, LFUStart, LFUStep, LFUSafe, PTL DEF LFU!Spec, LFU!LeastUsedLeaves

-----------------------------------------------------------------------------
(* EpollNest.  v1 links, v2 epmutex, v3 call, v4 walk, v5 ops.             *)
(*                                                                         *)
(* A link is safe to add when what is below its file is in a set that the  *)
(* links lead into only and that is without its eventpoll. The walk makes  *)
(* such a set of what it visits: step by step, since other calls delete    *)
(* links between its steps. Nothing else adds a link to an eventpoll as    *)
(* long as it has epmutex, so what it made stays one until the insertion.  *)

\* The eventpolls that g watches.
Kids(g) == Nest!Watched(g) \cap Nest!Eps

\* A set that the links lead into only: with an eventpoll, all that is in it.
Closed(D) == D \subseteq Nest!Eps /\ \A g \in D : Kids(g) \subseteq D

\* Below each eventpoll there is a closed set without it.
NoLoops == \A e \in Nest!Eps : \E D : Closed(D) /\ Kids(e) \subseteq D /\ e \notin D

\* What is below a visited eventpoll is visited, but for what a loop in progress has
\* still before it; and the walk never comes to the eventpoll it started for.
Walked ==
    \A g \in v4.visited : \A i \in Kids(g) :
        \/ i \in v4.visited
        \/ \E k \in DOMAIN v4.frames : v4.frames[k].ep = g /\ i > v4.frames[k].at
WalkIsSafe ==
    v2 # NoAdder =>
        /\ v3[v2] # Nest!NoCall /\ v3[v2][1] \notin v4.visited
        /\ v3[v2][2] \in Nest!Eps => v3[v2][2] \in v4.visited
        /\ Walked

EndsDiffer == \A t \in Adders : v3[t] # Nest!NoCall => v3[t][1] # v3[t][2]

NestInv == Nest!TypeOK /\ NoLoops /\ EndsDiffer /\ WalkIsSafe

\* Links that go only lose ways.
LEMMA FewerLinks ==
  ASSUME NoLoops, \A e \in Nest!Eps : Kids(e)' \subseteq Kids(e)
  PROVE  NoLoops'
<1>1. \A D : Closed(D) => Closed(D)'
  BY DEF Closed, Kids, Nest!Eps
<1> QED BY <1>1 DEF NoLoops, Nest!Eps

\* A link from ep to file keeps it so, when what is below file is without ep.
LEMMA OneMoreLink ==
  ASSUME NoLoops, NEW ep \in Nest!Eps, NEW file \in Nest!Eps, NEW B,
         Closed(B), file \in B, ep \notin B,
         \A e \in Nest!Eps : Kids(e)' = IF e = ep THEN Kids(e) \cup {file} ELSE Kids(e)
  PROVE  NoLoops'
<1>1. ASSUME NEW D, Closed(D), ep \in D => file \in D
      PROVE  Closed(D)'
  BY <1>1 DEF Closed, Nest!Eps
<1>2. ASSUME NEW e \in Nest!Eps
      PROVE  \E D : Closed(D)' /\ Kids(e)' \subseteq D /\ e \notin D
  <2>1. PICK D : Closed(D) /\ Kids(e) \subseteq D /\ e \notin D
    BY DEF NoLoops
  <2>2. Closed(D \cup B) /\ Closed(D \cap B)
    BY <2>1 DEF Closed
  <2>3. CASE e \in B
    <3>1. Kids(e) \subseteq D \cap B
      BY <2>1, <2>3 DEF Closed
    <3>2. Closed(D \cap B)' /\ e # ep
      BY <1>1, <2>2, <2>3
    <3> QED BY <2>1, <3>1, <3>2
  <2>4. CASE e \notin B
    <3>1. Closed(D \cup B)'
      BY <1>1, <2>2
    <3> QED BY <2>1, <2>4, <3>1
  <2> QED BY <2>3, <2>4
<1> QED BY <1>2 DEF NoLoops, Nest!Eps

LEMMA NestStart == Nest!Init => NestInv
<1> SUFFICES ASSUME Nest!Init PROVE NestInv
  OBVIOUS
<1>1. \A e : Kids(e) = {}
  BY DEF Nest!Init, Kids, Nest!Watched
<1>2. Closed({})
  BY DEF Closed
<1>3. NoLoops
  BY <1>1, <1>2 DEF NoLoops
<1>4. MaxOps \in Nat
  BY PartsAssumption DEF Nest!NestAssumption
<1>5. Nest!TypeOK
  <2>1. << >> \in Seq([ep : Nest!Eps, at : 0 .. EpCount])
    OBVIOUS
  <2> QED BY <1>4, <2>1 DEF Nest!Init, Nest!TypeOK, Nest!NoWalk
<1> QED BY <1>3, <1>5 DEF NestInv, EndsDiffer, WalkIsSafe, Nest!Init

\* The end of an ADD.
LEMMA NestLeft ==
  ASSUME NestInv, NEW t \in Adders, Nest!Leave(t), v5' = v5,
         v1' \subseteq v1
  PROVE  NestInv'
<1>1. NoLoops'
  <2>1. \A e \in Nest!Eps : Kids(e)' \subseteq Kids(e)
    BY DEF Kids, Nest!Watched, Nest!Eps
  <2> QED BY <2>1, FewerLinks DEF NestInv
<1>2. Nest!TypeOK'
  <2>1. << >> \in Seq([ep : Nest!Eps, at : 0 .. EpCount])
    OBVIOUS
  <2> QED BY <2>1 DEF NestInv, Nest!TypeOK, Nest!Leave, Nest!NoWalk, Nest!Eps
<1>3. EndsDiffer' /\ WalkIsSafe'
  BY DEF NestInv, Nest!TypeOK, EndsDiffer, WalkIsSafe, Nest!Leave
<1> QED BY <1>1, <1>2, <1>3 DEF NestInv

\* Links that go, and links to plain files, while the walk waits.
LEMMA NestAside ==
  ASSUME NestInv, v1' \subseteq Nest!Eps \X (Nest!Eps \cup Plain),
         \A l \in v1' : l \in v1 \/ l[2] \in Plain, v5' \in 0 .. MaxOps,
         v4' = v4, v2' = v2, v3' = v3
  PROVE  NestInv'
<1>0. Plain \cap Nest!Eps = {}
  BY PartsAssumption DEF Nest!NestAssumption
<1>1. \A e \in Nest!Eps : Kids(e)' \subseteq Kids(e)
  BY <1>0 DEF Kids, Nest!Watched, Nest!Eps
<1>2. NoLoops'
  BY <1>1, FewerLinks DEF NestInv
<1>3. WalkIsSafe'
  BY <1>1 DEF NestInv, Nest!TypeOK, WalkIsSafe, Walked, Nest!Eps
<1>4. Nest!TypeOK'
  BY DEF NestInv, Nest!TypeOK, Nest!Eps
<1> QED BY <1>2, <1>3, <1>4 DEF NestInv, EndsDiffer

\* A call that goes ahead with its walk keeps the links.
LEMMA NestWalks ==
  ASSUME NestInv, v1' = v1, v5' \in 0 .. MaxOps, Nest!TypeOK', EndsDiffer',
         v2' # NoAdder => WalkIsSafe'
  PROVE  NestInv'
<1>1. \A e \in Nest!Eps : Kids(e)' = Kids(e)
  BY DEF Kids, Nest!Watched, Nest!Eps
<1>2. NoLoops'
  BY <1>1, FewerLinks DEF NestInv
<1> QED BY <1>2 DEF NestInv, WalkIsSafe

\* One step per action; only AddInsert makes a link between eventpolls.
LEMMA NestStep == NestInv /\ [Nest!Next]_(Nest!vars) => NestInv'
<1> SUFFICES ASSUME NestInv, [Nest!Next]_(Nest!vars) PROVE NestInv'
  OBVIOUS
<1> DEFINE Frame == [ep : Nest!Eps, at : 0 .. EpCount]
<1>0. /\ EpCount \in Nat /\ MaxNests \in Nat /\ MaxOps \in Nat
      /\ NoAdder \notin Adders /\ Plain \cap Nest!Eps = {} /\ 0 \notin Plain
      /\ Nest!TypeOK /\ NoLoops /\ EndsDiffer /\ WalkIsSafe
  BY PartsAssumption DEF Nest!NestAssumption, NestInv
<1>1. ASSUME NEW e \in Nest!Eps, NEW f \in Plain, Nest!AddPlain(e, f)
      PROVE  NestInv'
  BY <1>0, <1>1, NestAside DEF Nest!AddPlain, Nest!Call, Nest!TypeOK
<1>2. ASSUME NEW t \in Adders, NEW e \in Nest!Eps, NEW f \in Nest!Eps \cup Plain,
             Nest!AddNested(t, e, f)
      PROVE  NestInv'
  <2>0. /\ v1' = v1 /\ v2' = v2 /\ v4' = v4 /\ v5' \in 0 .. MaxOps
        /\ e # f /\ v3[t] = Nest!NoCall
        /\ v3' = [v3 EXCEPT ![t] = << e, f >>]
    BY <1>0, <1>2 DEF Nest!AddNested, Nest!Call, Nest!TypeOK
  <2>1. EndsDiffer' /\ Nest!TypeOK'
    <3>1. \A x \in Adders : v3'[x] = IF x = t THEN << e, f >> ELSE v3[x]
      BY <1>0, <2>0 DEF Nest!TypeOK
    <3>2. EndsDiffer'
      BY <1>0, <2>0, <3>1 DEF EndsDiffer
    <3> QED BY <1>0, <2>0, <3>2 DEF Nest!TypeOK, Nest!Eps
  <2>2. v2 # NoAdder => v2 # t /\ v3'[v2] = v3[v2]
    BY <1>0, <2>0 DEF WalkIsSafe, Nest!TypeOK
  <2>3. \A g \in Nest!Eps : Kids(g)' = Kids(g)
    BY <2>0 DEF Kids, Nest!Watched, Nest!Eps
  <2>4. v2' # NoAdder => WalkIsSafe'
    BY <1>0, <2>0, <2>2, <2>3 DEF WalkIsSafe, Walked, Nest!Eps, Nest!TypeOK, Nest!NoCall
  <2> QED BY <2>0, <2>1, <2>4, NestWalks
<1>3. ASSUME NEW t \in Adders, Nest!AddCheck(t)
      PROVE  NestInv'
  <2> DEFINE e == v3[t][1]
             f == v3[t][2]
  <2>0. /\ v1' = v1 /\ v2' = t /\ v3' = v3 /\ v5' = v5 /\ v3[t] # Nest!NoCall
        /\ e \in Nest!Eps /\ f \in Nest!Eps \cup Plain /\ e # f
        /\ v4' = IF f \in Plain THEN [Nest!NoWalk EXCEPT !.tfiles = {f}]
                 ELSE [frames |-> << [ep |-> f, at |-> 0] >>, visited |-> {f},
                       tfiles |-> Nest!Watched(f) \cap Plain, linked |-> FALSE]
    BY <1>0, <1>3 DEF Nest!AddCheck, EndsDiffer, Nest!TypeOK
  <2> HIDE DEF e, f
  <2>1. /\ v4'.frames = IF f \in Plain THEN << >> ELSE << [ep |-> f, at |-> 0] >>
        /\ v4'.visited = IF f \in Plain THEN {} ELSE {f}
        /\ v4'.tfiles = IF f \in Plain THEN {f} ELSE Nest!Watched(f) \cap Plain
        /\ v4'.linked = FALSE
        /\ v4' = [frames |-> v4'.frames, visited |-> v4'.visited, tfiles |-> v4'.tfiles,
                  linked |-> v4'.linked]
    BY <2>0 DEF Nest!NoWalk
  <2>2. v4'.frames \in Seq(Frame)
    <3>1. f \notin Plain => [ep |-> f, at |-> 0] \in Frame
      BY <1>0, <2>0
    <3> HIDE DEF Frame
    <3>2. CASE f \in Plain
      <4>1. v4'.frames = << >>
        BY <2>1, <3>2
      <4> QED BY <4>1
    <3>3. CASE f \notin Plain
      <4>1. v4'.frames = << [ep |-> f, at |-> 0] >>
        BY <2>1, <3>3
      <4> QED BY <3>1, <3>3, <4>1
    <3> QED BY <3>2, <3>3
  <2>3. Nest!TypeOK'
    BY <1>0, <2>0, <2>1, <2>2 DEF Nest!TypeOK, Nest!Eps
  <2>4. \A i \in Kids(f) : i > 0
    BY DEF Kids, Nest!Eps
  <2>5. \A g \in Nest!Eps : Kids(g)' = Kids(g)
    BY <2>0 DEF Kids, Nest!Watched, Nest!Eps
  <2>6. Walked'
    <3>1. CASE f \in Plain
      BY <2>1, <3>1 DEF Walked
    <3>2. CASE f \notin Plain
      <4>1. /\ v4'.visited = {f} /\ 1 \in DOMAIN v4'.frames
            /\ v4'.frames[1].ep = f /\ v4'.frames[1].at = 0
        BY <2>1, <3>2
      <4> QED BY <2>0, <2>4, <2>5, <3>2, <4>1 DEF Walked
    <3> QED BY <3>1, <3>2
  <2>7. WalkIsSafe' /\ EndsDiffer'
    <3>1. EndsDiffer'
      BY <1>0, <2>0 DEF EndsDiffer
    <3>2. v3'[v2'] = v3[t]
      BY <2>0
    <3>3. /\ v3'[v2'][1] \notin v4'.visited
          /\ v3'[v2'][2] \in Nest!Eps => v3'[v2'][2] \in v4'.visited
      BY <1>0, <2>0, <2>1, <3>2 DEF e, f
    <3> QED BY <2>0, <2>6, <3>1, <3>2, <3>3 DEF WalkIsSafe, Nest!Eps, Nest!NoCall
  <2> QED BY <1>0, <2>0, <2>3, <2>7, NestWalks DEF Nest!TypeOK
<1>4. ASSUME NEW t \in Adders, Nest!WalkInto(t)
      PROVE  NestInv'
  <2> DEFINE i == Nest!Min(Nest!Ahead)
             n == Len(v4.frames)
             top == v4.frames[n]
  <2>0. v2 = t /\ v4.frames # << >> /\ Nest!Ahead # {} /\ v1' = v1 /\ v5' = v5
    BY <1>4 DEF Nest!WalkInto
  <2>1. /\ v4.frames \in Seq(Frame) /\ n \in Nat \ {0} /\ n \in DOMAIN v4.frames
        /\ top \in Frame
    <3>1. v4.frames \in Seq(Frame)
      BY <1>0 DEF Nest!TypeOK
    <3> HIDE DEF Frame
    <3> QED BY <2>0, <3>1
  <2>2. Nest!Ahead = {x \in Kids(top.ep) : x > top.at /\ x \notin v4.visited}
    BY DEF Nest!Ahead, Nest!Last, Kids
  <2>3. i \in Nest!Ahead /\ \A x \in Nest!Ahead : i <= x
    <3>1. Nest!Ahead \subseteq Nat
      BY <2>2 DEF Kids, Nest!Eps
    <3>2. \E x \in Nest!Ahead : \A y \in Nest!Ahead : x <= y
      BY <2>0, <3>1, Smallest
    <3> QED BY <3>2 DEF Nest!Min
  <2> HIDE DEF i
  <2>4. CASE Nest!Refused(i)
    <3>1. Nest!Leave(t)
      BY <1>4, <2>4 DEF Nest!WalkInto, i
    <3> QED BY <2>0, <3>1, NestLeft
  <2>5. CASE ~Nest!Refused(i)
    <3>1. /\ v2' = v2 /\ v3' = v3
          /\ v4' = [v4 EXCEPT
                       !.frames = Append([@ EXCEPT ![Len(@)].at = i], [ep |-> i, at |-> 0]),
                       !.visited = @ \cup {i},
                       !.tfiles = @ \cup (Nest!Watched(i) \cap Plain)]
      BY <1>4, <2>5 DEF Nest!WalkInto, i
    <3> DEFINE old == [v4.frames EXCEPT ![n].at = i]
    <3>2. /\ v4'.frames = Append(old, [ep |-> i, at |-> 0])
          /\ v4'.visited = v4.visited \cup {i}
          /\ v4'.tfiles = v4.tfiles \cup (Nest!Watched(i) \cap Plain)
          /\ v4'.linked = v4.linked
          /\ v4' = [frames |-> v4'.frames, visited |-> v4'.visited, tfiles |-> v4'.tfiles,
                    linked |-> v4'.linked]
      BY <1>0, <3>1 DEF Nest!TypeOK
    <3>3. i \in Nest!Eps /\ i \in 0 .. EpCount /\ i \in Nat
      BY <1>0, <2>2, <2>3 DEF Kids, Nest!Eps
    <3>4. /\ old \in Seq(Frame) /\ Len(old) = n
          /\ old[n].ep = top.ep /\ old[n].at = i
          /\ \A k \in 1 .. n : k # n => old[k] = v4.frames[k]
      BY <2>1, <3>3
    <3> HIDE DEF old
    <3>5. /\ v4'.frames \in Seq(Frame) /\ Len(v4'.frames) = n + 1
          /\ \A k \in 1 .. n : v4'.frames[k] = old[k]
          /\ v4'.frames[n + 1] = [ep |-> i, at |-> 0]
      <4>1. [ep |-> i, at |-> 0] \in Frame
        BY <1>0, <3>3
      <4> HIDE DEF Frame
      <4> QED BY <2>1, <3>2, <3>4, <4>1
    <3>6. Nest!TypeOK'
      BY <1>0, <2>0, <3>1, <3>2, <3>3, <3>5 DEF Nest!TypeOK, Nest!Eps
    <3>7. \A g \in Nest!Eps : Kids(g)' = Kids(g)
      BY <2>0 DEF Kids, Nest!Watched, Nest!Eps
    <3>8. Walked'
      <4> SUFFICES ASSUME NEW g \in v4'.visited, NEW x \in Kids(g)', x \notin v4'.visited
                   PROVE  \E k \in DOMAIN v4'.frames :
                             v4'.frames[k].ep = g /\ x > v4'.frames[k].at
        BY DEF Walked
      <4>0. g \in Nest!Eps /\ x \in Kids(g) /\ x \in Nest!Eps /\ x \in Nat
        BY <1>0, <3>2, <3>3, <3>7 DEF Kids, Nest!TypeOK, Nest!Eps
      <4>1. CASE g = i
        <5>1. x > 0 /\ n + 1 \in DOMAIN v4'.frames
          BY <2>1, <3>5, <4>0 DEF Nest!Eps
        <5> QED BY <3>5, <4>1, <5>1
      <4>2. CASE g \in v4.visited
        <5>1. PICK k \in DOMAIN v4.frames : v4.frames[k].ep = g /\ x > v4.frames[k].at
          BY <1>0, <2>0, <3>2, <4>0, <4>2 DEF WalkIsSafe, Walked
        <5>2. k \in 1 .. n /\ k \in DOMAIN v4'.frames
          BY <2>1, <3>5, <5>1
        <5>3. CASE k = n
          <6>1. x \in Nest!Ahead
            BY <2>2, <3>2, <4>0, <5>1, <5>3
          <6>2. x > i
            BY <2>3, <3>2, <3>3, <4>0, <6>1
          <6> QED BY <3>4, <3>5, <5>1, <5>2, <5>3, <6>2
        <5>4. CASE k # n
          BY <3>4, <3>5, <5>1, <5>2, <5>4
        <5> QED BY <5>3, <5>4
      <4> QED BY <3>2, <4>1, <4>2
    <3>9. i # v3[v2][1]
      BY <2>5 DEF Nest!Refused
    <3>10. WalkIsSafe' /\ EndsDiffer'
      BY <1>0, <2>0, <3>1, <3>2, <3>8, <3>9 DEF WalkIsSafe, EndsDiffer, Nest!Eps, Nest!NoCall
    <3> QED BY <1>0, <2>0, <3>6, <3>10, NestWalks DEF Nest!TypeOK
  <2> QED BY <2>4, <2>5
<1>5. ASSUME NEW t \in Adders, Nest!WalkBack(t)
      PROVE  NestInv'
  <2> DEFINE n == Len(v4.frames)
             top == v4.frames[n]
  <2>0. /\ v2 = t /\ v4.frames # << >> /\ Nest!Ahead = {}
        /\ v1' = v1 /\ v2' = v2 /\ v3' = v3 /\ v5' = v5
        /\ v4' = [v4 EXCEPT !.frames = SubSeq(@, 1, Len(@) - 1)]
    BY <1>5 DEF Nest!WalkBack, Nest!Front
  <2>1. v4.frames \in Seq(Frame) /\ n \in Nat \ {0} /\ n \in DOMAIN v4.frames
    BY <1>0, <2>0 DEF Nest!TypeOK
  <2>2. /\ v4'.frames = SubSeq(v4.frames, 1, n - 1)
        /\ v4'.visited = v4.visited /\ v4'.tfiles = v4.tfiles /\ v4'.linked = v4.linked
        /\ v4' = [frames |-> v4'.frames, visited |-> v4'.visited, tfiles |-> v4'.tfiles,
                  linked |-> v4'.linked]
    BY <1>0, <2>0 DEF Nest!TypeOK
  <2>3. /\ v4'.frames \in Seq(Frame) /\ Len(v4'.frames) = n - 1
        /\ \A k \in 1 .. n - 1 : v4'.frames[k] = v4.frames[k]
    <3> HIDE DEF Frame
    <3> QED BY <2>1, <2>2
  <2>4. Nest!TypeOK'
    BY <1>0, <2>0, <2>2, <2>3 DEF Nest!TypeOK, Nest!Eps
  <2>5. \A g \in Nest!Eps : Kids(g)' = Kids(g)
    BY <2>0 DEF Kids, Nest!Watched, Nest!Eps
  <2>6. Nest!Ahead = {x \in Kids(top.ep) : x > top.at /\ x \notin v4.visited}
    BY DEF Nest!Ahead, Nest!Last, Kids
  <2>7. Walked'
    <3> SUFFICES ASSUME NEW g \in v4'.visited, NEW x \in Kids(g)', x \notin v4'.visited
                 PROVE  \E k \in DOMAIN v4'.frames :
                           v4'.frames[k].ep = g /\ x > v4'.frames[k].at
      BY DEF Walked
    <3>1. g \in v4.visited /\ g \in Nest!Eps /\ x \in Kids(g)
      BY <1>0, <2>2, <2>5 DEF Nest!TypeOK
    <3>2. PICK k \in DOMAIN v4.frames : v4.frames[k].ep = g /\ x > v4.frames[k].at
      BY <1>0, <2>0, <2>2, <3>1 DEF WalkIsSafe, Walked
    <3>3. k # n
      BY <2>0, <2>2, <2>6, <3>1, <3>2
    <3>4. k \in 1 .. n - 1 /\ k \in DOMAIN v4'.frames
      BY <2>1, <2>3, <3>2, <3>3
    <3> QED BY <2>3, <3>2, <3>4
  <2>8. WalkIsSafe' /\ EndsDiffer'
    BY <1>0, <2>0, <2>2, <2>7 DEF WalkIsSafe, EndsDiffer, Nest!Eps, Nest!NoCall
  <2> QED BY <1>0, <2>0, <2>4, <2>8, NestWalks DEF Nest!TypeOK
<1>6. ASSUME NEW t \in Adders, Nest!AddInsert(t)
      PROVE  NestInv'
  <2> DEFINE e == v3[t][1]
             f == v3[t][2]
  <2>0. v2 = t /\ v4.frames = << >> /\ v5' = v5
    BY <1>6 DEF Nest!AddInsert
  <2>1. CASE v3[t] \in v1
    BY <1>0, <1>6, <2>0, <2>1, NestLeft DEF Nest!AddInsert, NestInv
  <2>2. CASE v3[t] \notin v1
    <3>1. /\ v2' = v2 /\ v3' = v3 /\ v1' = v1 \cup {v3[t]}
          /\ v4' = [v4 EXCEPT !.linked = TRUE]
      BY <1>6, <2>2 DEF Nest!AddInsert
    <3>2. v3[t] = << e, f >> /\ e \in Nest!Eps /\ f \in Nest!Eps \cup Plain
      BY <1>0, <2>0 DEF WalkIsSafe, Nest!TypeOK
    <3>3. /\ e \notin v4.visited /\ (f \in Nest!Eps => f \in v4.visited)
          /\ \A g \in v4.visited : Kids(g) \subseteq v4.visited
      BY <1>0, <2>0 DEF WalkIsSafe, Walked
    <3> HIDE DEF e, f
    <3>4. v4'.frames = v4.frames /\ v4'.visited = v4.visited
      BY <1>0, <3>1 DEF Nest!TypeOK
    <3>5. Nest!TypeOK'
      <4>1. v3[t] \in Nest!Eps \X (Nest!Eps \cup Plain)
        BY <3>2
      <4>2. v1' \subseteq Nest!Eps \X (Nest!Eps \cup Plain)
        BY <1>0, <3>1, <4>1 DEF Nest!TypeOK
      <4> QED BY <1>0, <2>0, <3>1, <4>2 DEF Nest!TypeOK, Nest!Eps
    <3>6. \A g \in Nest!Eps :
            Kids(g)' = IF g = e /\ f \in Nest!Eps THEN Kids(g) \cup {f} ELSE Kids(g)
      BY <3>1, <3>2 DEF Kids, Nest!Watched, Nest!Eps
    <3>7. NoLoops'
      <4>1. CASE f \notin Nest!Eps
        BY <1>0, <3>6, <4>1, FewerLinks
      <4>2. CASE f \in Nest!Eps
        <5>1. PICK B : B = v4.visited
          OBVIOUS
        <5>2. Closed(B) /\ f \in B /\ e \notin B
          BY <1>0, <3>3, <4>2, <5>1 DEF Closed, Nest!TypeOK
        <5> QED BY <1>0, <3>2, <3>6, <4>2, <5>2, OneMoreLink
      <4> QED BY <4>1, <4>2
    <3>8. Walked'
      <4>1. \A g \in v4.visited : Kids(g)' = Kids(g)
        BY <1>0, <3>3, <3>6 DEF Nest!TypeOK
      <4> QED BY <3>3, <3>4, <4>1 DEF Walked
    <3>9. WalkIsSafe' /\ EndsDiffer'
      BY <1>0, <2>0, <3>1, <3>4, <3>8 DEF WalkIsSafe, EndsDiffer, Nest!Eps, Nest!NoCall
    <3> QED BY <3>5, <3>7, <3>9 DEF NestInv
  <2> QED BY <2>1, <2>2
<1>7. ASSUME NEW t \in Adders, Nest!AddPaths(t)
      PROVE  NestInv'
  <2>1. PICK x \in v4.tfiles :
          IF Nest!TooManyPaths(x) THEN Nest!Leave(t) /\ v1' = v1 \ {v3[t]}
          ELSE v4' = [v4 EXCEPT !.tfiles = @ \ {x}] /\ v1' = v1 /\ v2' = v2 /\ v3' = v3
    BY <1>7 DEF Nest!AddPaths
  <2>2. v5' = v5 /\ v2 = t
    BY <1>7 DEF Nest!AddPaths
  <2>3. CASE Nest!TooManyPaths(x)
    BY <2>1, <2>2, <2>3, NestLeft
  <2>4. CASE ~Nest!TooManyPaths(x)
    <3>1. v4'.frames = v4.frames /\ v4'.visited = v4.visited
      BY <1>0, <2>1, <2>4 DEF Nest!TypeOK
    <3>2. Nest!TypeOK'
      BY <1>0, <2>1, <2>2, <2>4 DEF Nest!TypeOK, Nest!Eps
    <3>3. \A g \in Nest!Eps : Kids(g)' = Kids(g)
      BY <2>1, <2>4 DEF Kids, Nest!Watched, Nest!Eps
    <3>4. v4.visited \subseteq Nest!Eps
      BY <1>0 DEF Nest!TypeOK
    <3>5. v2' = v2 /\ v3' = v3 /\ v1' = v1
      BY <2>1, <2>4
    <3>6. WalkIsSafe' /\ EndsDiffer'
      BY <1>0, <3>1, <3>3, <3>4, <3>5 DEF WalkIsSafe, Walked, EndsDiffer, Nest!Eps, Nest!NoCall
    <3> QED BY <1>0, <2>2, <3>2, <3>5, <3>6, NestWalks DEF Nest!TypeOK
  <2> QED BY <2>3, <2>4
<1>8. ASSUME NEW t \in Adders, Nest!AddDone(t)
      PROVE  NestInv'
  BY <1>8, NestLeft DEF Nest!AddDone
<1>9. ASSUME NEW e \in Nest!Eps, NEW f \in Nest!Eps \cup Plain, Nest!Del(e, f)
      PROVE  NestInv'
  BY <1>0, <1>9, NestAside DEF Nest!Del, Nest!Call, Nest!TypeOK
<1>10. ASSUME NEW e \in Nest!Eps, Nest!Close(e)
      PROVE  NestInv'
  BY <1>0, <1>10, NestAside DEF Nest!Close, Nest!Call, Nest!TypeOK
<1>11. CASE UNCHANGED Nest!vars
  BY <1>0, <1>11, NestAside DEF Nest!vars, Nest!TypeOK
<1> QED BY <1>1, <1>2, <1>3, <1>4, <1>5, <1>6, <1>7, <1>8, <1>9, <1>10, <1>11 DEF Nest!Next

\* Up the links from e, one turn further each time.
Up(graph, S) == {e \in Nest!Eps : \E f \in S : << e, f >> \in graph}

IsUp(up, graph, S, n) ==
    /\ up \in [0 .. n -> SUBSET Nest!Eps] /\ up[0] = S
    /\ \A k \in 1 .. n : up[k] = Up(graph, up[k - 1])

\* Above is computed by that many turns of Up.
LEMMA AboveSteps ==
  ASSUME NEW graph, NEW S \in SUBSET Nest!Eps, NEW n \in Nat
  PROVE  \E up : IsUp(up, graph, S, n) /\ Nest!Above(graph, S, n) = up[n]
<1> DEFINE Right(up) == up = [k \in 0 .. n |-> IF k = 0 THEN S ELSE Up(graph, up[k - 1])]
           turn == [k \in 1 .. n |-> [X \in SUBSET Nest!Eps |-> Up(graph, X)]]
           up == CHOOSE up : Right(up)
<1>1. Nest!Above(graph, S, n) = up[n]
  BY DEF Nest!Above, Up
<1>2. \A X : Up(graph, X) \in SUBSET Nest!Eps
  BY DEF Up
<1>3. PICK f : IsRun(f, SUBSET Nest!Eps, S, n, turn)
  <2>1. IsLoop(SUBSET Nest!Eps, S, n, turn)
    BY <1>2 DEF IsLoop
  <2> HIDE DEF turn
  <2> QED BY <2>1, Iteration
<1>4. /\ f \in [0 .. n -> SUBSET Nest!Eps] /\ f[0] = S
      /\ \A k \in 1 .. n : f[k] = Up(graph, f[k - 1])
  <2>1. f \in [0 .. n -> SUBSET Nest!Eps] /\ f[0] = S
    BY <1>3 DEF IsRun
  <2>2. ASSUME NEW k \in 1 .. n PROVE f[k] = Up(graph, f[k - 1])
    <3>1. f[k] = turn[k][f[k - 1]]
      BY <1>3 DEF IsRun
    <3>2. k - 1 \in 0 .. n
      OBVIOUS
    <3> QED BY <2>1, <3>1, <3>2
  <2> QED BY <2>1, <2>2
<1>5. Right(f)
  <2>1. \A k \in 0 .. n : f[k] = IF k = 0 THEN S ELSE Up(graph, f[k - 1])
    BY <1>4
  <2> QED BY <1>4, <2>1
<1>6. Right(up)
  <2> HIDE DEF Right
  <2> QED BY <1>5
<1>7. up[0] = S /\ \A k \in 1 .. n : up[k] = Up(graph, up[k - 1])
  <2> HIDE DEF up
  <2>1. 0 \in 0 .. n /\ \A k \in 1 .. n : k \in 0 .. n /\ k # 0
    OBVIOUS
  <2> QED BY <1>6, <2>1
<1>8. up \in [0 .. n -> SUBSET Nest!Eps]
  <2> HIDE DEF up
  <2>1. \A k \in 0 .. n : (IF k = 0 THEN S ELSE Up(graph, up[k - 1])) \in SUBSET Nest!Eps
    BY <1>2
  <2> QED BY <1>6, <2>1
<1> HIDE DEF up
<1>9. IsUp(up, graph, S, n)
  BY <1>7, <1>8 DEF IsUp
<1> QED BY <1>1, <1>9

\* Nothing above e is in the closed set below it, so e is never found above itself.
LEMMA NestSafe == NestInv => Nest!Acyclic
<1> SUFFICES ASSUME NestInv, NEW e \in Nest!Eps, NEW n \in 1 .. EpCount
             PROVE  e \notin Nest!Above(v1, {e}, n)
  BY DEF Nest!Acyclic
<1>1. PICK D : Closed(D) /\ Kids(e) \subseteq D /\ e \notin D
  BY DEF NestInv, NoLoops
<1>2. PICK up : IsUp(up, v1, {e}, n) /\ Nest!Above(v1, {e}, n) = up[n]
  <2>1. {e} \in SUBSET Nest!Eps /\ n \in Nat
    OBVIOUS
  <2> QED BY <2>1, AboveSteps
<1> DEFINE T == {k \in 0 .. n : up[k] \cap D = {}}
<1>3. 0 \in T
  BY <1>1, <1>2 DEF IsUp
<1>4. ASSUME NEW k \in 1 .. n, k - 1 \in T PROVE k \in T /\ e \notin up[k]
  <2>1. \A g \in up[k] : Kids(g) \cap up[k - 1] # {} /\ g \in Nest!Eps
    BY <1>2 DEF IsUp, Up, Kids, Nest!Watched, Nest!Eps
  <2>2. up[k - 1] \cap D = {}
    BY <1>4
  <2> QED BY <1>1, <2>1, <2>2 DEF Closed
<1>5. \A k \in 0 .. n : k \in T
  <2> HIDE DEF T
  <2> QED BY <1>3, <1>4, Induction
<1> QED BY <1>2, <1>4, <1>5

\* No eventpoll ever watches itself, directly or through others, for any number of
\* eventpolls, tasks and any nesting allowed, though other calls delete links, add plain
\* files and close eventpolls between any two steps of the walk that looks for loops and
\* of the insertion it is made for (SYSCALL epoll_ctl, ep_loop_check_proc).
THEOREM NestSound == Nest!Spec => [](Nest!TypeOK /\ Nest!Acyclic)
<1>1. NestInv => Nest!TypeOK /\ Nest!Acyclic
  BY NestSafe DEF NestInv
<1> QED BY <1>1, NestStart, NestStep, PTL DEF Nest!Spec

-----------------------------------------------------------------------------
(* TimerManager.  v1 timertb, v2 timerlist, v3 timer, v4 now, v5 checking, *)
(* v6 fired.                                                               *)

\* The operators that Timers brings are those the lemmas are about.
LEMMA TimersHelpers ==
  /\ \A f : Timers!Range(f) = Range(f) /\ (Timers!IsInjective(f) <=> IsInjective(f))
  /\ \A s, S : Timers!Keep(s, S) = Keep(s, S)
<1>1. \A f : Timers!Range(f) = Range(f) /\ (Timers!IsInjective(f) <=> IsInjective(f))
  BY DEF Timers!Range, Range, Timers!IsInjective, IsInjective
<1>2. \A s, S : Timers!Keep(s, S) = Keep(s, S)
  BY DEF Timers!Keep, Keep, Timers!Kept, Kept
<1> QED BY <1>1, <1>2

\* A list and its members in another order.
LEMMA SortedMembers ==
  ASSUME NEW A, NEW s \in Seq(A), NEW p \in Timers!Bijection(DOMAIN s, DOMAIN s),
         NEW t, t = [i \in DOMAIN s |-> s[p[i]]]
  PROVE  /\ t \in Seq(A) /\ Range(t) = Range(s)
         /\ IsInjective(s) => IsInjective(t)
<1>1. /\ p \in [DOMAIN s -> DOMAIN s] /\ \A i, j \in DOMAIN s : p[i] = p[j] => i = j
      /\ \A j \in DOMAIN s : \E i \in DOMAIN s : p[i] = j
  BY DEF Timers!Bijection, Timers!Injection, Timers!Surjection, Timers!IsInjective
<1>2. t \in Seq(A)
  <2>1. DOMAIN s = 1 .. Len(s) /\ Len(s) \in Nat /\ \A i \in DOMAIN s : s[i] \in A
    OBVIOUS
  <2>2. t \in [1 .. Len(s) -> A]
    BY <1>1, <2>1
  <2> QED BY <2>1, <2>2
<1>3. Range(t) = Range(s)
  BY <1>1 DEF Range
<1>4. ASSUME IsInjective(s) PROVE IsInjective(t)
  BY <1>1, <1>4 DEF IsInjective
<1> QED BY <1>2, <1>3, <1>4

\* The list and what is being fired share no Timer, and the table names listed ones.
TimersInv ==
    /\ DOMAIN v1 \subseteq Ids
    /\ v2 \in Seq(DOMAIN v3) /\ v6 \in Seq(DOMAIN v3)
    /\ \A a \in DOMAIN v3 : v3[a] \in [id : Ids, exptime : Nat]
    /\ v4 \in 0 .. MaxNow /\ v5 \in 0 .. MaxNow + 1
    /\ \A id \in DOMAIN v1 : v1[id] \in Range(v2) /\ v3[v1[id]].id = id
    /\ IsInjective(v2) /\ IsInjective(v6) /\ Range(v2) \cap Range(v6) = {}

LEMMA TimersStart == Timers!Init => TimersInv
<1> SUFFICES ASSUME Timers!Init PROVE TimersInv
  OBVIOUS
<1>1. MaxNow \in Nat
  BY PartsAssumption DEF Timers!TimersAssumption
<1> QED BY <1>1, EmptyProperties DEF Timers!Init, TimersInv, Timers!Idle

LEMMA TimersStep == TimersInv /\ [Timers!Next]_(Timers!vars) => TimersInv'
<1> SUFFICES ASSUME TimersInv, [Timers!Next]_(Timers!vars) PROVE TimersInv'
  OBVIOUS
<1> DEFINE A == DOMAIN v3
<1>0. /\ MaxNow \in Nat /\ Delays \subseteq Nat
      /\ DOMAIN v1 \subseteq Ids /\ v2 \in Seq(A) /\ v6 \in Seq(A)
      /\ \A a \in A : v3[a] \in [id : Ids, exptime : Nat]
      /\ v4 \in 0 .. MaxNow /\ v5 \in 0 .. MaxNow + 1
      /\ \A id \in DOMAIN v1 : v1[id] \in Range(v2) /\ v3[v1[id]].id = id
      /\ IsInjective(v2) /\ IsInjective(v6) /\ Range(v2) \cap Range(v6) = {}
      /\ Range(v2) \subseteq A /\ Range(v6) \subseteq A
  BY PartsAssumption, RangeProperties DEF Timers!TimersAssumption, TimersInv
<1>1. CASE UNCHANGED Timers!vars
  BY <1>1 DEF TimersInv, Timers!vars
<1>2. CASE Timers!Tick
  BY <1>0, <1>2 DEF TimersInv, Timers!Tick
<1>3. CASE Timers!CheckExpired
  <2>1. PICK p \in Timers!Bijection(DOMAIN v2, DOMAIN v2) : v2' = [i \in DOMAIN v2 |-> v2[p[i]]]
    BY <1>3 DEF Timers!CheckExpired, Timers!SortedBy
  <2>2. v2' \in Seq(A) /\ Range(v2') = Range(v2) /\ IsInjective(v2')
    BY <1>0, <2>1, SortedMembers
  <2> QED BY <1>0, <1>3, <2>2 DEF Timers!CheckExpired, TimersInv
<1>4. CASE Timers!Fire
  <2>1. /\ Head(v2) \in A /\ Tail(v2) \in Seq(A)
        /\ Range(v2) = {Head(v2)} \cup Range(Tail(v2))
        /\ IsInjective(Tail(v2)) /\ Head(v2) \notin Range(Tail(v2))
    BY <1>0, <1>4, TailMembers DEF Timers!Fire
  <2>2. /\ Append(v6, Head(v2)) \in Seq(A) /\ IsInjective(Append(v6, Head(v2)))
        /\ Range(Append(v6, Head(v2))) = Range(v6) \cup {Head(v2)}
    BY <1>0, <2>1, AppendMembers
  <2>3. \A id \in DOMAIN v1' : id \in DOMAIN v1 /\ v1'[id] = v1[id] /\ id # v3[Head(v2)].id
    BY <1>4 DEF Timers!Fire, Timers!AfterFire, Timers!Without
  <2>4. v2' = Tail(v2) /\ v6' = Append(v6, Head(v2)) /\ UNCHANGED << v3, v4, v5 >>
    BY <1>4 DEF Timers!Fire
  <2>5. \A id \in DOMAIN v1' : v1'[id] \in Range(v2') /\ v3'[v1'[id]].id = id
    BY <1>0, <2>1, <2>3, <2>4
  <2>6. IsInjective(v2') /\ IsInjective(v6') /\ Range(v2') \cap Range(v6') = {}
    BY <1>0, <2>1, <2>2, <2>4
  <2> QED BY <1>0, <2>1, <2>2, <2>3, <2>4, <2>5, <2>6 DEF TimersInv
<1>5. CASE Timers!Return
  BY <1>0, <1>5 DEF TimersInv, Timers!Return, Timers!Idle
<1>6. ASSUME NEW id \in Ids, NEW second \in Delays, NEW a \in Addresses,
             Timers!StartTimer(id, second, a)
      PROVE  TimersInv'
  <2>1. /\ a \notin A /\ v3' = Timers!With(v3, a, [id |-> id, exptime |-> v4 + second])
        /\ v1' = Timers!With(v1, id, a) /\ v2' = Append(v2, a) /\ UNCHANGED << v4, v5, v6 >>
    BY <1>6 DEF Timers!StartTimer
  <2>2. /\ DOMAIN v3' = A \cup {a} /\ \A b \in A : v3'[b] = v3[b]
        /\ v3'[a] = [id |-> id, exptime |-> v4 + second]
    BY <2>1 DEF Timers!With
  <2>3. /\ DOMAIN v1' = DOMAIN v1 \cup {id} /\ v1'[id] = a
        /\ \A i \in DOMAIN v1 : i # id => v1'[i] = v1[i]
    BY <2>1 DEF Timers!With
  <2>4. v2 \in Seq(A \cup {a}) /\ v6 \in Seq(A \cup {a})
    BY <1>0
  <2>5. /\ Append(v2, a) \in Seq(A \cup {a}) /\ Range(Append(v2, a)) = Range(v2) \cup {a}
        /\ IsInjective(Append(v2, a))
    BY <1>0, <2>1, <2>4, AppendMembers
  <2>6. \A b \in DOMAIN v3' : v3'[b] \in [id : Ids, exptime : Nat]
    BY <1>0, <2>2
  <2>7. \A i \in DOMAIN v1' : v1'[i] \in Range(v2') /\ v3'[v1'[i]].id = i
    BY <1>0, <2>1, <2>2, <2>3, <2>5
  <2>8. IsInjective(v2') /\ IsInjective(v6') /\ Range(v2') \cap Range(v6') = {}
    BY <1>0, <2>1, <2>5
  <2>9. DOMAIN v1' \subseteq Ids /\ v2' \in Seq(DOMAIN v3') /\ v6' \in Seq(DOMAIN v3')
    BY <1>0, <2>1, <2>2, <2>3, <2>4, <2>5
  <2>10. v4' \in 0 .. MaxNow /\ v5' \in 0 .. MaxNow + 1
    BY <1>0, <2>1
  <2> QED BY <2>6, <2>7, <2>8, <2>9, <2>10 DEF TimersInv
<1>7. ASSUME NEW id \in Ids, Timers!StopTimer(id)
      PROVE  TimersInv'
  <2>1. /\ id \in DOMAIN v1 /\ v2' = Keep(v2, A \ {v1[id]})
        /\ v1' = Timers!Without(id) /\ UNCHANGED << v3, v4, v5, v6 >>
    BY <1>7, TimersHelpers DEF Timers!StopTimer
  <2>2. /\ v2' \in Seq(A) /\ Range(v2') = Range(v2) \cap (A \ {v1[id]}) /\ IsInjective(v2')
    BY <1>0, <2>1, KeepProperties
  <2>3. \A i \in DOMAIN v1' : i \in DOMAIN v1 /\ v1'[i] = v1[i] /\ i # id
    BY <2>1 DEF Timers!Without
  <2>4. \A i \in DOMAIN v1' : v1'[i] \in Range(v2') /\ v3'[v1'[i]].id = i
    <3>1. \A i \in DOMAIN v1' : v1[i] # v1[id]
      BY <1>0, <2>1, <2>3
    <3>2. \A i \in DOMAIN v1' : v1[i] \in A /\ v1[i] \in Range(v2) /\ v3[v1[i]].id = i
      BY <1>0, <2>3
    <3>3. v3' = v3
      BY <2>1
    <3> QED BY <2>2, <2>3, <3>1, <3>2, <3>3
  <2> QED BY <1>0, <2>1, <2>2, <2>3, <2>4 DEF TimersInv
<1> QED BY <1>1, <1>2, <1>3, <1>4, <1>5, <1>6, <1>7 DEF Timers!Next

LEMMA TimersSafe == TimersInv => Timers!TableIsListed
<1> SUFFICES ASSUME TimersInv PROVE Timers!TableIsListed
  OBVIOUS
<1>1. IsInjective(v2 \o v6)
  <2>1. /\ v2 \in Seq(DOMAIN v3) /\ v6 \in Seq(DOMAIN v3)
        /\ IsInjective(v2) /\ IsInjective(v6) /\ Range(v2) \cap Range(v6) = {}
    BY DEF TimersInv
  <2> QED BY <2>1, ConcatMembers
<1> QED BY <1>1, TimersHelpers DEF TimersInv, Timers!TableIsListed

\* TimerManager's table never names a Timer that is not in its list, and no Timer fires
\* twice or after it was stopped, for any ids, delays and addresses that new may give
\* (StartTimer, StopTimer and CheckExpired in any order).
THEOREM TimersSound == Timers!Spec => []Timers!TableIsListed
<1> QED BY TimersStart, TimersStep, TimersSafe, PTL DEF Timers!Spec

-----------------------------------------------------------------------------
(* Tunnel.  v1 relay, v2 state, v3 reading, v4 inp, v5 out, v6 wc, v7 peer,*)
(* v8 rx, v9 got, v10 sent, v11 context, v12 client, v13 tunnel,           *)
(* v14 listed, v15 pending, v16 running, v17 served, v18 fault.            *)

\* A sequence cut in two.
LEMMA CutInTwo ==
  ASSUME NEW A, NEW s \in Seq(A), NEW n \in 0 .. Len(s)
  PROVE  /\ SubSeq(s, 1, n) \in Seq(A) /\ SubSeq(s, n + 1, Len(s)) \in Seq(A)
         /\ SubSeq(s, 1, n) \o SubSeq(s, n + 1, Len(s)) = s
         /\ SubSeq(s, n + 1, Len(s)) = << >> <=> n = Len(s)
         /\ n = 0 => SubSeq(s, 1, n) = << >> /\ SubSeq(s, n + 1, Len(s)) = s
<1>0. Len(s) \in Nat /\ \A i \in 1 .. Len(s) : s[i] \in A
  OBVIOUS
<1>1. SubSeq(s, 1, n) \in Seq(A)
  BY <1>0, SubSeqProperties, \A i \in 1 .. n : s[i] \in A
<1>2. /\ SubSeq(s, n + 1, Len(s)) \in Seq(A)
      /\ Len(SubSeq(s, n + 1, Len(s))) = IF n + 1 <= Len(s) THEN Len(s) - n ELSE 0
  BY <1>0, SubSeqProperties, \A i \in n + 1 .. Len(s) : s[i] \in A
<1>3. SubSeq(s, 1, n) \o SubSeq(s, n + 1, Len(s)) = SubSeq(s, 1, Len(s))
  <2>1. 1 \in 1 .. Len(s) + 1 /\ n \in 1 - 1 .. Len(s) /\ Len(s) \in n .. Len(s)
    BY <1>0
  <2> QED BY <2>1, ConcatAdjacentSubSeq
<1>4. SubSeq(s, 1, Len(s)) = s
  BY SubSeqFull
<1>5. SubSeq(s, n + 1, Len(s)) = << >> <=> n = Len(s)
  <2>1. ASSUME NEW u \in Seq(A) PROVE u = << >> <=> Len(u) = 0
    OBVIOUS
  <2>2. SubSeq(s, n + 1, Len(s)) = << >> <=> Len(SubSeq(s, n + 1, Len(s))) = 0
    BY <1>2, <2>1
  <2> QED BY <1>0, <1>2, <2>2
<1>6. n = 0 => SubSeq(s, 1, n) = << >> /\ SubSeq(s, n + 1, Len(s)) = s
  BY <1>4, SubSeqEmpty
<1>7. SubSeq(s, 1, n) \o SubSeq(s, n + 1, Len(s)) = s
  BY <1>3, <1>4
<1> QED BY <1>1, <1>2, <1>5, <1>6, <1>7

\* A beginning of what goes on.
LEMMA BeginningIsPrefix ==
  ASSUME NEW A, NEW s \in Seq(A), NEW u \in Seq(A)
  PROVE  Relay!IsPrefix(s, s \o u)
<1>1. Len(s) \in Nat /\ Len(s) <= Len(s \o u)
  BY ConcatProperties
<1>2. SubSeq(s \o u, 1, Len(s)) = SubSeq(s, 1, Len(s))
  <2>1. CASE s = << >>
    BY <2>1, SubSeqEmpty
  <2>2. CASE s # << >>
    BY <1>1, <2>2, SubSeqOfConcat1
  <2> QED BY <2>1, <2>2
<1> QED BY <1>1, <1>2 DEF Relay!IsPrefix

\* The payload as it is numbered, and one more of it.
Numbered(n) == [i \in 1 .. n |-> i]

LEMMA OneMoreNumber ==
  ASSUME NEW n \in Nat
  PROVE  /\ Numbered(n) \in Seq(Nat) /\ Numbered(n + 1) = Numbered(n) \o << n + 1 >>
         /\ \A s \in Seq(Int) : Relay!IsPrefix(s, Numbered(n)) =>
                                  Relay!IsPrefix(s, Numbered(n + 1))
<1>1. Numbered(n) \in Seq(Nat) /\ Len(Numbered(n)) = n /\ \A i \in 1 .. n : Numbered(n)[i] = i
  BY DEF Numbered
<1>2. Numbered(n + 1) \in Seq(Nat) /\ Len(Numbered(n + 1)) = n + 1
      /\ \A i \in 1 .. n + 1 : Numbered(n + 1)[i] = i
  BY DEF Numbered
<1> HIDE DEF Numbered
<1>3. Numbered(n + 1) = Numbered(n) \o << n + 1 >>
  <2>1. << n + 1 >> \in Seq(Nat) /\ Len(<< n + 1 >>) = 1 /\ << n + 1 >>[1] = n + 1
    OBVIOUS
  <2> DEFINE c == Numbered(n) \o << n + 1 >>
  <2>2. c \in Seq(Nat) /\ Len(c) = n + 1
        /\ \A i \in 1 .. n + 1 : c[i] = IF i <= n THEN Numbered(n)[i] ELSE << n + 1 >>[i - n]
    BY <1>1, <2>1, ConcatProperties
  <2>3. \A i \in 1 .. n + 1 : c[i] = Numbered(n + 1)[i]
    <3> HIDE DEF c
    <3> QED BY <1>1, <1>2, <2>1, <2>2
  <2> HIDE DEF c
  <2>4. c = Numbered(n + 1)
    BY <1>2, <2>2, <2>3, SeqEqual
  <2> QED BY <2>4 DEF c
<1>4. ASSUME NEW s \in Seq(Int), Relay!IsPrefix(s, Numbered(n))
      PROVE  Relay!IsPrefix(s, Numbered(n + 1))
  <2>1. Len(s) \in Nat /\ Len(s) <= n /\ SubSeq(s, 1, Len(s)) = SubSeq(Numbered(n), 1, Len(s))
    BY <1>1, <1>4 DEF Relay!IsPrefix
  <2>2. SubSeq(Numbered(n + 1), 1, Len(s)) = SubSeq(Numbered(n), 1, Len(s))
    <3>1. CASE s = << >>
      BY <3>1, SubSeqEmpty
    <3>2. CASE s # << >>
      <4>1. /\ << n + 1 >> \in Seq(Nat) /\ Len(s) \in 1 .. Len(Numbered(n))
            /\ 1 \in 1 .. Len(Numbered(n))
        BY <1>1, <2>1, <3>2
      <4> QED BY <1>1, <1>3, <4>1, SubSeqOfConcat1
    <3> QED BY <3>1, <3>2
  <2> QED BY <1>2, <2>1, <2>2 DEF Relay!IsPrefix
<1> QED BY <1>1, <1>3, <1>4

-----------------------------------------------------------------------------
P(b)  == Relay!Payload(b)
Byte  == -2 .. MaxSent["server"] + MaxSent["client"]
Kinds == {"hw", "wc"} \X Relay!Sides

LEMMA JoinsAgree == \A a, b, c \in Seq(Byte) : (a \o b) \o c = a \o (b \o c)
BY ConcatAssociative

LEMMA PayloadOf ==
  /\ Relay!Bytes = Seq(Byte)
  /\ \A b \in Relay!Bytes : P(b) \in Relay!Bytes
  /\ \A a, b \in Relay!Bytes : a \o b \in Relay!Bytes /\ P(a \o b) = P(a) \o P(b)
  /\ \A a, b, c \in Relay!Bytes : (a \o b) \o c = a \o (b \o c)
  /\ \A a \in Relay!Bytes : a \o << >> = a /\ << >> \o a = a
  /\ << >> \in Relay!Bytes /\ P(<< >>) = << >>
  /\ P(<< Relay!Reply >>) = << >> /\ P(Relay!Request) = << >>
  /\ << Relay!Reply >> \in Relay!Bytes /\ Relay!Request \in Relay!Bytes
<1>0. MaxSent["server"] \in Nat /\ MaxSent["client"] \in Nat
  BY PartsAssumption DEF Relay!TunnelAssumption
<1>1. Relay!Bytes = Seq(Byte)
  BY DEF Relay!Bytes, Byte
<1>2. \A s, S : Relay!Keep(s, S) = Keep(s, S)
  BY DEF Relay!Keep, Keep, Relay!Kept, Kept
<1>3. \A b : P(b) = Keep(b, Nat \ {0})
  BY <1>2 DEF P, Relay!Payload
<1>4. \A b \in Relay!Bytes : P(b) \in Relay!Bytes
  BY <1>1, <1>3, KeepProperties
<1>5. \A a, b \in Relay!Bytes : a \o b \in Relay!Bytes /\ P(a \o b) = P(a) \o P(b)
  <2>1. ASSUME NEW a \in Relay!Bytes, NEW b \in Relay!Bytes
        PROVE  a \o b \in Relay!Bytes /\ P(a \o b) = P(a) \o P(b)
    <3>1. a \in Seq(Byte) /\ b \in Seq(Byte)
      BY <1>1
    <3>2. a \o b \in Seq(Byte)
      BY <3>1, ConcatProperties
    <3>3. Keep(a \o b, Nat \ {0}) = Keep(a, Nat \ {0}) \o Keep(b, Nat \ {0})
      BY <3>1, KeepConcat
    <3> QED BY <1>1, <1>3, <3>2, <3>3
  <2> QED BY <2>1
<1>6. \A a, b, c \in Relay!Bytes : (a \o b) \o c = a \o (b \o c)
  BY <1>1, ConcatAssociative
<1>7. \A a \in Relay!Bytes : a \o << >> = a /\ << >> \o a = a
  BY <1>1, ConcatEmptySeq
<1>8. << >> \in Relay!Bytes /\ P(<< >>) = << >>
  <2>1. Keep(<< >>, Nat \ {0}) = << >>
    BY KeepOne
  <2> QED BY <1>1, <1>3, <2>1
<1>9. P(<< 0 >>) = << >> /\ P(<< -2 >>) = << >> /\ P(<< -1 >>) = << >>
  BY <1>3, KeepOne
<1>10. << 0 >> \in Relay!Bytes /\ << -2 >> \in Relay!Bytes /\ << -1 >> \in Relay!Bytes
  BY <1>0, <1>1 DEF Byte
<1>11. Relay!Request = << -2 >> \o << -1 >>
  BY DEF Relay!Request
<1>12. Relay!Request \in Relay!Bytes /\ P(Relay!Request) = << >>
  BY <1>5, <1>7, <1>8, <1>9, <1>10, <1>11
<1> QED BY <1>1, <1>4, <1>5, <1>6, <1>7, <1>8, <1>9, <1>10, <1>12 DEF Relay!Reply

LEMMA PayloadJoins ==
  \A a, b \in Seq(Byte) : /\ a \o b \in Seq(Byte) /\ P(a) \in Seq(Byte) /\ P(b) \in Seq(Byte)
                          /\ P(a \o b) = P(a) \o P(b)
<1>1. Relay!Bytes = Seq(Byte)
  BY PayloadOf
<1>2. \A a \in Relay!Bytes : P(a) \in Relay!Bytes
  BY PayloadOf
<1>3. \A a, b \in Relay!Bytes : a \o b \in Relay!Bytes /\ P(a \o b) = P(a) \o P(b)
  BY PayloadOf
<1> QED BY <1>1, <1>2, <1>3

LEMMA NothingJoins == P(<< >>) = << >> /\ \A a \in Seq(Byte) : a \o << >> = a /\ << >> \o a = a
BY PayloadOf

-----------------------------------------------------------------------------
\* What the handlers change, as they pass it on.
Conns ==
    [state : [Relay!Sides -> {"none", "up", "shut", "down"}], reading : [Relay!Sides -> BOOLEAN],
     inp : [Relay!Sides -> Relay!Bytes], out : [Relay!Sides -> Relay!Bytes],
     wc : [Relay!Sides -> BOOLEAN], got : [Relay!Sides -> Relay!Bytes],
     context : BOOLEAN, client : BOOLEAN, tunnel : {"none", "made", "torn", "spent"},
     listed : BOOLEAN, pending : Seq(Kinds),
     fault : {"no", "clientConn_ is null", "startRead of a closed connection"}]

\* Two of them that differ in the buffers only.
Alike(c, d) ==
    /\ d.state = c.state /\ d.reading = c.reading /\ d.inp = c.inp /\ d.wc = c.wc
    /\ d.context = c.context /\ d.client = c.client /\ d.tunnel = c.tunnel
    /\ d.listed = c.listed /\ d.fault = c.fault

\* A functor more.
LEMMA QueueDoes ==
  \A c \in Conns, what \in {"hw", "wc"}, s \in Relay!Sides :
      LET d == Relay!Queue(c, what, s)
      IN  /\ d \in Conns /\ Alike(c, d) /\ d.out = c.out /\ d.got = c.got
          /\ Range(d.pending) = Range(c.pending) \cup {<< what, s >>}
<1> SUFFICES ASSUME NEW c \in Conns, NEW what \in {"hw", "wc"}, NEW s \in Relay!Sides,
                    NEW d, d = Relay!Queue(c, what, s)
             PROVE  /\ d \in Conns /\ Alike(c, d) /\ d.out = c.out /\ d.got = c.got
                    /\ Range(d.pending) = Range(c.pending) \cup {<< what, s >>}
  OBVIOUS
<1>1. /\ c.pending \in Seq(Kinds) /\ << what, s >> \in Kinds
      /\ d = [c EXCEPT !.pending = Append(c.pending, << what, s >>)]
  BY DEF Relay!Queue, Conns, Kinds
<1>2. /\ Append(c.pending, << what, s >>) \in Seq(Kinds)
      /\ Range(Append(c.pending, << what, s >>)) = Range(c.pending) \cup {<< what, s >>}
  BY <1>1, AppendMembers
<1>3. d.pending = Append(c.pending, << what, s >>)
  BY <1>1 DEF Conns
<1> QED BY <1>1, <1>2, <1>3 DEF Conns, Alike

\* What send of a connection does: what it takes is on its way to the peer, unless the
\* peer has gone.
IsSent(c, d, s, data) ==
    /\ d \in Conns /\ Alike(c, d) /\ Range(c.pending) \subseteq Range(d.pending)
    /\ \A x \in Relay!Sides : x # s => d.got[x] = c.got[x] /\ d.out[x] = c.out[x]
    /\ c.out[s] # << >> => d.out[s] # << >>
    /\ c.state[s] = "up" /\ v7[s] # "rst" =>
           d.got[s] \o d.out[s] = c.got[s] \o c.out[s] \o data
    /\ c.state[s] # "up" => d = c
    /\ v7[s] = "rst" => d.got[s] = c.got[s]

LEMMA SendDoes ==
  \A c \in Conns, s \in Relay!Sides, data \in Relay!Bytes : \A k \in 0 .. Len(data) :
      IsSent(c, Relay!Send(c, s, data, k), s, data)
<1> SUFFICES ASSUME NEW c \in Conns, NEW s \in Relay!Sides, NEW data \in Relay!Bytes,
                    NEW k \in 0 .. Len(data), NEW d, d = Relay!Send(c, s, data, k)
             PROVE  IsSent(c, d, s, data)
  OBVIOUS
<1> DEFINE n    == IF c.out[s] = << >> THEN k ELSE 0
           a    == SubSeq(data, 1, n)
           rest == SubSeq(data, n + 1, Len(data))
           e    == [c EXCEPT !.got[s] = @ \o a, !.out[s] = @ \o rest]
           early == c.state[s] # "up" \/ (v7[s] = "rst" /\ c.out[s] = << >>)
<1>0. Relay!Bytes = Seq(Byte)
  BY PayloadOf
<1>1. CASE early
  BY <1>1 DEF Relay!Send, Alike, IsSent
<1>2. CASE ~early
  <2>1. /\ a \in Relay!Bytes /\ rest \in Relay!Bytes /\ a \o rest = data
        /\ n = 0 => a = << >> /\ rest = data
    <3>1. data \in Seq(Byte) /\ n \in 0 .. Len(data)
      BY <1>0
    <3> HIDE DEF n
    <3>2. /\ a \in Seq(Byte) /\ rest \in Seq(Byte) /\ a \o rest = data
          /\ n = 0 => a = << >> /\ rest = data
      BY <3>1, CutInTwo
    <3> QED BY <1>0, <3>2
  <2>2. c.got[s] \in Relay!Bytes /\ c.out[s] \in Relay!Bytes
    BY DEF Conns
  <2>14. /\ a \in Seq(Byte) /\ rest \in Seq(Byte) /\ data \in Seq(Byte)
         /\ c.got[s] \in Seq(Byte) /\ c.out[s] \in Seq(Byte)
    BY <1>0, <2>1, <2>2
  <2>3. c.got[s] \o a \in Relay!Bytes /\ c.out[s] \o rest \in Relay!Bytes
    <3> HIDE DEF a, rest
    <3> QED BY <1>0, <2>1, <2>2, ConcatProperties
  <2>4. (c.got[s] \o a) \o (c.out[s] \o rest) = c.got[s] \o c.out[s] \o data
    <3>1. CASE c.out[s] = << >>
      <4> HIDE DEF a, rest
      <4>1. (c.got[s] \o a) \o rest = c.got[s] \o (a \o rest)
        BY <2>14, JoinsAgree
      <4>2. c.out[s] \o rest = rest /\ c.got[s] \o c.out[s] = c.got[s]
        BY <1>0, <2>1, <2>2, <3>1, ConcatEmptySeq
      <4> QED BY <2>1, <4>1, <4>2
    <3>2. CASE c.out[s] # << >>
      <4>1. a = << >> /\ rest = data
        BY <2>1, <3>2
      <4> HIDE DEF a, rest
      <4>2. c.got[s] \o a = c.got[s]
        BY <1>0, <2>2, <4>1, ConcatEmptySeq
      <4>3. c.got[s] \o (c.out[s] \o data) = (c.got[s] \o c.out[s]) \o data
        BY <2>14, JoinsAgree
      <4> QED BY <4>1, <4>2, <4>3
    <3> QED BY <3>1, <3>2
  <2>5. c.out[s] # << >> => c.out[s] \o rest # << >>
    <3> HIDE DEF rest
    <3> QED BY <1>0, <2>1, <2>2, ConcatEqualIffEmpty
  <2>6. v7[s] = "rst" => c.got[s] \o a = c.got[s]
    <3>1. v7[s] = "rst" => a = << >>
      BY <1>2, <2>1
    <3> HIDE DEF a
    <3> QED BY <1>0, <2>2, <3>1, ConcatEmptySeq
  <2>7. /\ d = Relay!Queue(e, "wc", s) \/ d = Relay!Queue(e, "hw", s) \/ d = e
    BY <1>2 DEF Relay!Send
  <2>8. /\ e \in Conns /\ Alike(c, e) /\ e.pending = c.pending
        /\ e.got = [c.got EXCEPT ![s] = c.got[s] \o a]
        /\ e.out = [c.out EXCEPT ![s] = c.out[s] \o rest]
    <3> HIDE DEF a, rest, n
    <3> QED BY <2>3 DEF Conns, Alike
  <2>13. c.got \in [Relay!Sides -> Relay!Bytes] /\ c.out \in [Relay!Sides -> Relay!Bytes]
    BY DEF Conns
  <2>9. /\ d \in Conns /\ Alike(e, d) /\ d.out = e.out /\ d.got = e.got
        /\ Range(c.pending) \subseteq Range(d.pending)
    <3> HIDE DEF e
    <3>1. CASE d = e
      BY <2>8, <3>1 DEF Alike
    <3>2. ASSUME NEW what \in {"hw", "wc"}, d = Relay!Queue(e, what, s)
          PROVE  /\ d \in Conns /\ Alike(e, d) /\ d.out = e.out /\ d.got = e.got
                 /\ Range(e.pending) \subseteq Range(d.pending)
      <4>1. e \in Conns
        BY <2>8
      <4>2. /\ d \in Conns /\ Alike(e, d) /\ d.out = e.out /\ d.got = e.got
            /\ Range(d.pending) = Range(e.pending) \cup {<< what, s >>}
        BY <3>2, <4>1, QueueDoes
      <4> QED BY <4>2
    <3> QED BY <2>7, <2>8, <3>1, <3>2
  <2>10. d.got[s] = c.got[s] \o a /\ d.out[s] = c.out[s] \o rest
    <3> HIDE DEF e, a, rest
    <3> QED BY <2>8, <2>9, <2>13
  <2>11. \A x \in Relay!Sides : x # s => d.got[x] = c.got[x] /\ d.out[x] = c.out[x]
    <3> HIDE DEF e, a, rest
    <3> QED BY <2>8, <2>9, <2>13
  <2> HIDE DEF e, a, rest, n
  <2>12. Alike(c, d)
    BY <2>8, <2>9 DEF Alike
  <2> QED BY <1>2, <2>4, <2>5, <2>6, <2>9, <2>10, <2>11, <2>12 DEF IsSent
<1> QED BY <1>1, <1>2

-----------------------------------------------------------------------------
\* The way of the payload of one peer to the other one: what is sent, what is to be
\* written, what is to be handled, what is to be read.
Line(c, r, s) ==
    P(c.got[Relay!Other(s)]) \o P(c.out[Relay!Other(s)]) \o P(c.inp[s]) \o P(r[s])

\* It holds all that was sent, in order, until the reader resets its connection.
Carried(c, r) ==
    \A s \in Relay!Sides :
        IF v7[Relay!Other(s)] # "rst" THEN Line(c, r, s) = Numbered(v10[s])
        ELSE Relay!IsPrefix(P(c.got[Relay!Other(s)]), Numbered(v10[s]))

\* Nothing of it is lost between c and d.
Flows(c, r, d, q) ==
    \A s \in Relay!Sides :
        IF v7[Relay!Other(s)] # "rst" THEN Line(d, q, s) = Line(c, r, s)
        ELSE d.got[Relay!Other(s)] = c.got[Relay!Other(s)]

\* Where the tunnel and the two connections may be; and nothing that was read waits
\* while it could be sent on.
Ways(c) ==
    /\ c.state["client"] # "none" => c.tunnel # "none"
    /\ c.tunnel # "none" => c.state["server"] # "none"
    /\ c.tunnel # "none" /\ c.state["server"] # "down" => c.listed
    /\ c.state["client"] \in {"up", "shut"} => c.context /\ c.client
NoAnswerWaits(c)  == c.inp["client"] # << >> => c.state["server"] \in {"shut", "down"}
NoRequestWaits(c) ==
    c.state["server"] = "up" /\ c.state["client"] = "up" => c.inp["server"] = << >>
Control(c) == Ways(c) /\ NoAnswerWaits(c) /\ NoRequestWaits(c)

\* A side that is not read will be: the other one has its callback set, and output or
\* that callback on its way. The functors of this round are run.
WillResume(c, o, run) ==
    c.wc[o] /\ (c.out[o] # << >> \/ << "wc", o >> \in Range(c.pending) \cup Range(run))
BothAreUp(c) == c.state["server"] = "up" /\ c.state["client"] = "up" /\ c.fault = "no"
Backed(c, run) ==
    BothAreUp(c) => \A s \in Relay!Sides : ~c.reading[s] => WillResume(c, Relay!Other(s), run)

TunInv ==
    /\ Relay!Now \in Conns /\ Control(Relay!Now) /\ Backed(Relay!Now, v16)
    /\ Carried(Relay!Now, v8)
    /\ v7 \in [Relay!Sides -> {"open", "fin", "rst"}]
    /\ v8 \in [Relay!Sides -> Relay!Bytes]
    /\ v10 \in [Relay!Sides -> Nat] /\ \A s \in Relay!Sides : v10[s] <= MaxSent[s]
    /\ v16 \in Seq(Kinds)

LEMMA Becomes ==
  ASSUME TunInv, NEW d \in Conns, Relay!Become(d), Control(d), Backed(d, v16'),
         Flows(Relay!Now, v8, d, v8'), v8' \in [Relay!Sides -> Relay!Bytes], v16' \in Seq(Kinds)
  PROVE  TunInv'
<1>1. Relay!Now' = d /\ v7' = v7 /\ v10' = v10
  BY DEF Relay!Become, Relay!Now, Conns
<1>2. Carried(d, v8')
  BY DEF TunInv, Carried, Flows
<1>3. Carried(Relay!Now, v8)'
  BY <1>1, <1>2 DEF Carried
<1>4. Control(Relay!Now)' /\ Backed(Relay!Now, v16)'
  BY <1>1
<1> QED BY <1>1, <1>3, <1>4 DEF TunInv

\* Handing on what a side has read, to the other one.
LEMMA Forwards ==
  \A c \in Conns, s \in Relay!Sides : \A k \in 0 .. Len(c.inp[s]) :
      LET o == Relay!Other(s)
          d == Relay!Send([c EXCEPT !.inp[s] = << >>], o, c.inp[s], k)
      IN  c.state[o] = "up" =>
              /\ d \in Conns /\ \A r : r \in [Relay!Sides -> Relay!Bytes] => Flows(c, r, d, r)
              /\ Alike([c EXCEPT !.inp[s] = << >>], d)
              /\ \A run : Backed(c, run) => Backed(d, run)
              /\ Control([c EXCEPT !.inp[s] = << >>]) => Control(d)
<1> SUFFICES ASSUME NEW c \in Conns, NEW s \in Relay!Sides, NEW k \in 0 .. Len(c.inp[s]),
                    NEW o, o = Relay!Other(s), NEW e, e = [c EXCEPT !.inp[s] = << >>],
                    NEW d, d = Relay!Send(e, o, c.inp[s], k), c.state[o] = "up"
             PROVE  /\ d \in Conns
                    /\ \A r : r \in [Relay!Sides -> Relay!Bytes] => Flows(c, r, d, r)
                    /\ Alike(e, d)
                    /\ \A run : Backed(c, run) => Backed(d, run)
                    /\ Control(e) => Control(d)
  OBVIOUS
<1>1. /\ o \in Relay!Sides /\ c.inp[s] \in Relay!Bytes
      /\ e \in Conns /\ e.state = c.state /\ e.out = c.out /\ e.got = c.got
      /\ e.pending = c.pending
      /\ e.reading = c.reading /\ e.wc = c.wc /\ e.fault = c.fault
      /\ e.inp = [c.inp EXCEPT ![s] = << >>]
      /\ c.inp \in [Relay!Sides -> Relay!Bytes]
  BY PayloadOf DEF Conns, Relay!Other, Relay!Sides
<1>2. IsSent(e, d, o, c.inp[s])
  BY <1>1, SendDoes
<1>3. /\ d \in Conns /\ Alike(e, d) /\ Range(c.pending) \subseteq Range(d.pending)
      /\ \A x \in Relay!Sides : x # o => d.got[x] = c.got[x] /\ d.out[x] = c.out[x]
      /\ c.out[o] # << >> => d.out[o] # << >>
      /\ v7[o] # "rst" => d.got[o] \o d.out[o] = c.got[o] \o c.out[o] \o c.inp[s]
      /\ v7[o] = "rst" => d.got[o] = c.got[o]
  <2>1. c.state[o] = "up" /\ e.state[o] = "up"
    BY <1>1
  <2>2. d \in Conns /\ Alike(e, d) /\ Range(e.pending) \subseteq Range(d.pending)
    BY <1>2 DEF IsSent
  <2>3. \A x \in Relay!Sides : x # o => d.got[x] = e.got[x] /\ d.out[x] = e.out[x]
    BY <1>2 DEF IsSent
  <2>4. e.out[o] # << >> => d.out[o] # << >>
    BY <1>2 DEF IsSent
  <2>5. v7[o] # "rst" => d.got[o] \o d.out[o] = e.got[o] \o e.out[o] \o c.inp[s]
    BY <1>2, <2>1 DEF IsSent
  <2>6. v7[o] = "rst" => d.got[o] = e.got[o]
    BY <1>2 DEF IsSent
  <2>7. e.got = c.got /\ e.out = c.out /\ e.pending = c.pending
    BY <1>1
  <2> QED BY <2>2, <2>3, <2>4, <2>5, <2>6, <2>7
<1>4. /\ d.inp = [c.inp EXCEPT ![s] = << >>] /\ d.state = c.state /\ d.reading = c.reading
      /\ d.wc = c.wc /\ d.fault = c.fault
  BY <1>1, <1>3 DEF Alike
<1>5. ASSUME NEW run, Backed(c, run) PROVE Backed(d, run)
  <2>1. \A x \in Relay!Sides : c.out[x] # << >> => d.out[x] # << >>
    BY <1>3
  <2>2. \A x \in Relay!Sides : Relay!Other(x) \in Relay!Sides
    BY DEF Relay!Sides, Relay!Other
  <2> QED BY <1>3, <1>4, <1>5, <2>1, <2>2 DEF Backed, WillResume, BothAreUp
<1>6. Control(e) => Control(d)
  BY <1>1, <1>3 DEF Alike, Control, Ways, NoAnswerWaits, NoRequestWaits
<1>7. ASSUME NEW r \in [Relay!Sides -> Relay!Bytes], NEW x \in Relay!Sides
      PROVE  IF v7[Relay!Other(x)] # "rst" THEN Line(d, r, x) = Line(c, r, x)
             ELSE d.got[Relay!Other(x)] = c.got[Relay!Other(x)]
  <2>1. CASE x = s
    <3>1. CASE v7[o] = "rst"
      BY <1>3, <2>1, <3>1
    <3>2. CASE v7[o] # "rst"
      <4>1. d.inp[s] = << >>
        BY <1>1, <1>4
      <4>2. PICK cg, co, ci, dg, dd, rs :
              /\ cg = c.got[o] /\ co = c.out[o] /\ ci = c.inp[s] /\ dg = d.got[o]
              /\ dd = d.out[o]
              /\ rs = r[s]
        OBVIOUS
      <4>3. /\ cg \in Relay!Bytes /\ co \in Relay!Bytes /\ ci \in Relay!Bytes
            /\ dg \in Relay!Bytes /\ dd \in Relay!Bytes /\ rs \in Relay!Bytes
        BY <1>1, <1>3, <4>2 DEF Conns
      <4>4. dg \o dd = (cg \o co) \o ci
        BY <1>3, <3>2, <4>2
      <4>7. /\ cg \in Seq(Byte) /\ co \in Seq(Byte) /\ ci \in Seq(Byte)
            /\ dg \in Seq(Byte) /\ dd \in Seq(Byte) /\ rs \in Seq(Byte)
        BY <4>3, PayloadOf
      <4>8. /\ P(dg \o dd) = P(dg) \o P(dd) /\ P(cg \o co) = P(cg) \o P(co)
            /\ cg \o co \in Seq(Byte)
            /\ P((cg \o co) \o ci) = P(cg \o co) \o P(ci)
            /\ P(dg) \o P(dd) \in Seq(Byte)
        <5>1. cg \o co \in Seq(Byte) /\ P(dg) \in Seq(Byte) /\ P(dd) \in Seq(Byte)
          BY <4>7, PayloadJoins
        <5> QED BY <4>7, <5>1, PayloadJoins
      <4>5. P(dg) \o P(dd) = (P(cg) \o P(co)) \o P(ci)
        BY <4>4, <4>8
      <4>9. (P(dg) \o P(dd)) \o P(<< >>) = P(dg) \o P(dd)
        BY <4>8, NothingJoins
      <4>6. ((P(dg) \o P(dd)) \o P(<< >>)) \o P(rs) = ((P(cg) \o P(co)) \o P(ci)) \o P(rs)
        BY <4>5, <4>9
      <4>10. Line(d, r, x) = ((P(dg) \o P(dd)) \o P(<< >>)) \o P(rs)
        BY <1>1, <2>1, <4>1, <4>2 DEF Line
      <4>11. Line(c, r, x) = ((P(cg) \o P(co)) \o P(ci)) \o P(rs)
        BY <1>1, <2>1, <4>2 DEF Line
      <4> QED BY <1>1, <2>1, <3>2, <4>6, <4>10, <4>11
    <3> QED BY <3>1, <3>2
  <2>2. CASE x # s
    <3>1. Relay!Other(x) = s /\ s # o /\ x = o /\ d.inp[x] = c.inp[x]
      BY <1>1, <1>4, <2>2 DEF Relay!Sides, Relay!Other
    <3> QED BY <1>3, <3>1 DEF Line
  <2> QED BY <2>1, <2>2
<1> QED BY <1>3, <1>5, <1>6, <1>7 DEF Flows

-----------------------------------------------------------------------------
Passes(c, d) == \A r \in [Relay!Sides -> Relay!Bytes] : Flows(c, r, d, r)

LEMMA SameBuffers ==
  \A c, d \in Conns : d.got = c.got /\ d.out = c.out /\ d.inp = c.inp => Passes(c, d)
BY DEF Passes, Flows, Line

LEMMA FlowsOn ==
  \A c, d, e, r, q : Flows(c, r, d, q) /\ Flows(d, q, e, q) => Flows(c, r, e, q)
BY DEF Flows

IsShut(c, d, s) ==
    /\ d \in Conns /\ Passes(c, d)
    /\ d.state[s] # "up"
    /\ d.state[s] = "none" <=> c.state[s] = "none"
    /\ d.state[s] = "down" <=> c.state[s] = "down"
    /\ \A x \in Relay!Sides : x # s => d.state[x] = c.state[x]
    /\ d.inp = c.inp /\ d.context = c.context /\ d.client = c.client
    /\ d.tunnel = c.tunnel /\ d.listed = c.listed
    /\ \A run : Backed(d, run)

LEMMA Shuts == \A c \in Conns, s \in Relay!Sides : IsShut(c, Relay!Shutdown(c, s), s)
<1> SUFFICES ASSUME NEW c \in Conns, NEW s \in Relay!Sides, NEW d, d = Relay!Shutdown(c, s)
             PROVE  IsShut(c, d, s)
  OBVIOUS
<1> DEFINE v  == IF c.state[s] = "up" THEN "shut" ELSE c.state[s]
           st == [c.state EXCEPT ![s] = v]
<1>1. /\ c.state \in [Relay!Sides -> {"none", "up", "shut", "down"}]
      /\ d = [c EXCEPT !.state = st]
  BY DEF Relay!Shutdown, Conns
<1>6. /\ v \in {"none", "shut", "down"} /\ (v = "none" <=> c.state[s] = "none")
      /\ v = "down" <=> c.state[s] = "down"
  BY <1>1
<1>7. st \in [Relay!Sides -> {"none", "up", "shut", "down"}] /\ st[s] = v
      /\ \A x \in Relay!Sides : x # s => st[x] = c.state[x]
  <2> HIDE DEF v
  <2> QED BY <1>1, <1>6
<1> HIDE DEF v, st
<1>2. /\ d \in Conns /\ d.got = c.got /\ d.out = c.out
      /\ d.inp = c.inp /\ d.context = c.context /\ d.client = c.client
      /\ d.tunnel = c.tunnel /\ d.listed = c.listed /\ d.state = st
  BY <1>1, <1>7 DEF Conns
<1>3. /\ d.state[s] # "up"
      /\ d.state[s] = "none" <=> c.state[s] = "none"
      /\ d.state[s] = "down" <=> c.state[s] = "down"
      /\ \A x \in Relay!Sides : x # s => d.state[x] = c.state[x]
  BY <1>2, <1>6, <1>7
<1>4. Passes(c, d)
  BY <1>2, SameBuffers
<1>5. \A run : Backed(d, run)
  BY <1>3 DEF Backed, BothAreUp, Relay!Sides
<1> QED BY <1>2, <1>3, <1>4, <1>5 DEF IsShut

\* The reply to a request is none of the payload, nor is the request.
LEMMA Replies ==
  \A c \in Conns : LET d == Relay!Send(c, "server", << Relay!Reply >>, 1)
                  IN  d \in Conns /\ Alike(c, d) /\ Passes(c, d)
<1> SUFFICES ASSUME NEW c \in Conns, NEW d, d = Relay!Send(c, "server", << Relay!Reply >>, 1)
             PROVE  d \in Conns /\ Alike(c, d) /\ Passes(c, d)
  OBVIOUS
<1> DEFINE y == << Relay!Reply >>
<1>1. y \in Seq(Byte) /\ P(y) = << >> /\ Len(y) = 1 /\ Relay!Bytes = Seq(Byte)
  BY PayloadOf
<1>2. IsSent(c, d, "server", y)
  <2>1. /\ "server" \in Relay!Sides /\ 1 \in 0 .. Len(y) /\ y \in Relay!Bytes
        /\ d = Relay!Send(c, "server", y, 1)
    BY <1>1 DEF Relay!Sides
  <2> HIDE DEF y
  <2> QED BY <2>1, SendDoes
<1> HIDE DEF y
<1>3. d \in Conns /\ Alike(c, d)
  BY <1>2 DEF IsSent
<1>4. d.inp = c.inp
  BY <1>3 DEF Alike
<1>5. PICK cg, co, dg, dd : /\ cg = c.got["server"] /\ co = c.out["server"]
                            /\ dg = d.got["server"] /\ dd = d.out["server"]
  OBVIOUS
<1>6. cg \in Seq(Byte) /\ co \in Seq(Byte) /\ dg \in Seq(Byte) /\ dd \in Seq(Byte)
  BY <1>1, <1>3, <1>5 DEF Conns, Relay!Sides
<1>7. ASSUME v7["server"] # "rst" PROVE P(dg) \o P(dd) = P(cg) \o P(co)
  <2>1. CASE c.state["server"] = "up"
    <3>1. dg \o dd = (cg \o co) \o y
      BY <1>2, <1>5, <1>7, <2>1 DEF IsSent
    <3>2. cg \o co \in Seq(Byte) /\ P(cg \o co) \in Seq(Byte)
      BY <1>6, PayloadJoins
    <3>3. P(dg \o dd) = P(dg) \o P(dd) /\ P(cg \o co) = P(cg) \o P(co)
          /\ P((cg \o co) \o y) = P(cg \o co) \o P(y)
      BY <1>1, <1>6, <3>2, PayloadJoins
    <3>4. P(cg \o co) \o P(y) = P(cg \o co)
      BY <1>1, <3>2, NothingJoins
    <3> QED BY <3>1, <3>3, <3>4
  <2>2. CASE c.state["server"] # "up"
    <3>1. d = c
      BY <1>2, <2>2 DEF IsSent
    <3> QED BY <1>5, <3>1
  <2> QED BY <2>1, <2>2
<1>8. ASSUME NEW r, NEW x \in Relay!Sides
      PROVE  IF v7[Relay!Other(x)] # "rst" THEN Line(d, r, x) = Line(c, r, x)
             ELSE d.got[Relay!Other(x)] = c.got[Relay!Other(x)]
  <2>1. CASE x = "client"
    <3>1. Relay!Other(x) = "server"
      BY <2>1 DEF Relay!Other
    <3>2. v7["server"] = "rst" => d.got["server"] = c.got["server"]
      BY <1>2 DEF IsSent
    <3>3. ASSUME v7["server"] # "rst" PROVE Line(d, r, x) = Line(c, r, x)
      <4>1. Line(d, r, x) = ((P(dg) \o P(dd)) \o P(d.inp[x])) \o P(r[x])
        BY <1>5, <3>1 DEF Line
      <4>2. Line(c, r, x) = ((P(cg) \o P(co)) \o P(c.inp[x])) \o P(r[x])
        BY <1>5, <3>1 DEF Line
      <4> QED BY <1>4, <1>7, <3>3, <4>1, <4>2
    <3> QED BY <3>1, <3>2, <3>3
  <2>2. CASE x = "server"
    <3>1. Relay!Other(x) = "client" /\ "client" \in Relay!Sides
      BY <2>2 DEF Relay!Other, Relay!Sides
    <3>2. d.got["client"] = c.got["client"] /\ d.out["client"] = c.out["client"]
      BY <1>2, <3>1 DEF IsSent
    <3> QED BY <1>4, <3>1, <3>2 DEF Line
  <2> QED BY <2>1, <2>2 DEF Relay!Sides
<1> QED BY <1>3, <1>8 DEF Passes, Flows

LEMMA AfterRequestDoes ==
  \A data \in Seq(Byte) :
      Relay!IsPrefix(Relay!Request, data) =>
          /\ Relay!AfterRequest(data) \in Seq(Byte)
          /\ P(Relay!AfterRequest(data)) = P(data)
<1> SUFFICES ASSUME NEW data \in Seq(Byte), Relay!IsPrefix(Relay!Request, data)
             PROVE  /\ Relay!AfterRequest(data) \in Seq(Byte)
                    /\ P(Relay!AfterRequest(data)) = P(data)
  OBVIOUS
<1> DEFINE q == Relay!Request
           a == SubSeq(data, 3, Len(data))
           b == SubSeq(data, 1, 2)
<1>1. q \in Seq(Byte) /\ P(q) = << >> /\ Len(q) = 2 /\ Relay!Bytes = Seq(Byte)
  BY PayloadOf DEF Relay!Request
<1>2. Relay!AfterRequest(data) = a
  BY <1>1 DEF Relay!AfterRequest
<1> HIDE DEF q
<1>3. Len(data) >= 2 /\ b = q
  <2>1. Len(q) <= Len(data) /\ SubSeq(q, 1, Len(q)) = SubSeq(data, 1, Len(q))
    BY DEF Relay!IsPrefix, q
  <2>2. SubSeq(q, 1, Len(q)) = q
    BY <1>1, SubSeqFull
  <2> QED BY <1>1, <2>1, <2>2
<1>4. a \in Seq(Byte) /\ b \o a = data
  <2>1. 2 \in 0 .. Len(data) /\ 2 + 1 = 3
    BY <1>3
  <2> QED BY <2>1, CutInTwo
<1> HIDE DEF a, b
<1>5. P(b \o a) = P(b) \o P(a) /\ P(a) \in Seq(Byte)
  BY <1>1, <1>3, <1>4, PayloadJoins
<1>6. << >> \o P(a) = P(a)
  BY <1>5, NothingJoins
<1> QED BY <1>1, <1>2, <1>3, <1>4, <1>5, <1>6

-----------------------------------------------------------------------------
\* What every handler does.
Handles(c, d) ==
    /\ d \in Conns /\ Passes(c, d) /\ Control(d)
    /\ \A run : Backed(c, run) => Backed(d, run)

LEMMA OneRequest ==
  \A c \in Conns : \A ok \in BOOLEAN :
      /\ Ways(c) /\ NoAnswerWaits(c) /\ ~c.listed /\ c.state["server"] \in {"up", "shut"}
      => Handles(c, Relay!OnRequest(c, ok))
<1> SUFFICES ASSUME NEW c \in Conns, NEW ok \in BOOLEAN, NEW d, d = Relay!OnRequest(c, ok),
                    Ways(c), NoAnswerWaits(c), ~c.listed, c.state["server"] \in {"up", "shut"}
             PROVE  Handles(c, d)
  OBVIOUS
<1>1. c.tunnel = "none" /\ c.state["client"] = "none"
  BY DEF Ways
<1>2. "server" \in Relay!Sides /\ "client" \in Relay!Sides /\ Relay!Bytes = Seq(Byte)
  BY PayloadOf DEF Relay!Sides
<1>3. \A e \in Conns : e.state["client"] = "none" => NoRequestWaits(e) /\ \A run : Backed(e, run)
  BY DEF Backed, BothAreUp, NoRequestWaits
<1>4. CASE d = c
  <2>1. Passes(c, c)
    BY DEF Passes, Flows
  <2> QED BY <1>1, <1>3, <1>4, <2>1 DEF Handles, Control
<1>5. ASSUME NEW b \in Conns, Alike(c, b), Passes(c, b), d = Relay!Shutdown(b, "server")
      PROVE  Handles(c, d)
  <2>1. IsShut(b, d, "server")
    BY <1>2, <1>5, Shuts
  <2>2. /\ d \in Conns /\ d.state["client"] = c.state["client"] /\ d.tunnel = c.tunnel
        /\ d.inp = c.inp /\ d.state["server"] = "shut"
    <3>1. b.state["client"] = c.state["client"] /\ b.state["server"] \in {"up", "shut"}
          /\ b.tunnel = c.tunnel /\ b.inp = c.inp
      BY <1>5 DEF Alike
    <3>2. d.state["server"] \in {"none", "up", "shut", "down"} /\ d \in Conns
      BY <1>2, <2>1 DEF Conns, IsShut
    <3> QED BY <1>2, <2>1, <3>1, <3>2 DEF IsShut
  <2>3. Passes(c, d)
    BY <1>5, <2>1, FlowsOn DEF IsShut, Passes
  <2> QED BY <1>1, <1>3, <2>2, <2>3 DEF Handles, Control, Ways, NoAnswerWaits
<1>6. ASSUME NEW e,
             e = [Relay!NewTunnel(c) EXCEPT
                     !.inp["server"] = Relay!AfterRequest(c.inp["server"])],
             d = Relay!Send(e, "server", << Relay!Reply >>, 1),
             Relay!IsPrefix(Relay!Request, c.inp["server"])
      PROVE  Handles(c, d)
  <2> DEFINE a == Relay!AfterRequest(c.inp["server"])
  <2>1. c.inp["server"] \in Seq(Byte) /\ c.inp \in [Relay!Sides -> Relay!Bytes]
    BY <1>2 DEF Conns
  <2>2. a \in Relay!Bytes /\ P(a) = P(c.inp["server"])
    BY <1>2, <1>6, <2>1, AfterRequestDoes
  <2> HIDE DEF a
  <2>3. /\ e \in Conns /\ e.inp = [c.inp EXCEPT !["server"] = a] /\ e.got = c.got /\ e.out = c.out
        /\ e.state = c.state /\ e.listed = TRUE
    BY <1>6, <2>1, <2>2 DEF Conns, Relay!NewTunnel, a
  <2>4. e.inp["server"] = a /\ e.inp["client"] = c.inp["client"]
    BY <1>2, <2>1, <2>3
  <2>5. Passes(c, e)
    <3>1. \A x \in Relay!Sides : P(e.inp[x]) = P(c.inp[x])
      BY <2>2, <2>4 DEF Relay!Sides
    <3> QED BY <2>3, <3>1 DEF Passes, Flows, Line
  <2>6. d \in Conns /\ Alike(e, d) /\ Passes(e, d)
    BY <1>6, <2>3, Replies
  <2>7. Passes(c, d)
    BY <2>5, <2>6, FlowsOn DEF Passes
  <2>8. d.state = c.state /\ d.listed = TRUE /\ d.inp["client"] = c.inp["client"]
    BY <2>3, <2>4, <2>6 DEF Alike
  <2> QED BY <1>1, <1>3, <2>6, <2>7, <2>8 DEF Handles, Control, Ways, NoAnswerWaits
<1>7. CASE Len(c.inp["server"]) > TooLong
  <2>1. Alike(c, c) /\ Passes(c, c)
    BY DEF Alike, Passes, Flows
  <2> QED BY <1>5, <1>7, <2>1 DEF Relay!OnRequest
<1>8. CASE ~ok
  <2>1. PICK b : b = Relay!Send(c, "server", << Relay!Reply >>, 1)
    OBVIOUS
  <2>2. b \in Conns /\ Alike(c, b) /\ Passes(c, b)
    BY <2>1, Replies
  <2>3. d = c \/ d = Relay!Shutdown(b, "server") \/ d = Relay!Shutdown(c, "server")
    BY <1>8, <2>1 DEF Relay!OnRequest
  <2>4. Alike(c, c) /\ Passes(c, c)
    BY DEF Alike, Passes, Flows
  <2> QED BY <1>4, <1>5, <2>2, <2>3, <2>4
<1>9. CASE ~(Len(c.inp["server"]) > TooLong) /\ ok
  BY <1>4, <1>6, <1>9 DEF Relay!OnRequest
<1> QED BY <1>7, <1>8, <1>9

LEMMA ServerMessage ==
  \A c \in Conns : \A k \in 0 .. Len(c.inp["server"]), ok \in BOOLEAN :
      /\ Ways(c) /\ NoAnswerWaits(c) /\ c.state["server"] \in {"up", "shut"}
      => Handles(c, Relay!OnServerMessage(c, k, ok))
<1> SUFFICES ASSUME NEW c \in Conns, NEW k \in 0 .. Len(c.inp["server"]), NEW ok \in BOOLEAN,
                    NEW d, d = Relay!OnServerMessage(c, k, ok),
                    Ways(c), NoAnswerWaits(c), c.state["server"] \in {"up", "shut"}
             PROVE  Handles(c, d)
  OBVIOUS
<1>1. /\ Relay!Other("server") = "client" /\ "server" \in Relay!Sides
      /\ "client" \in Relay!Sides
      /\ c.inp \in [Relay!Sides -> Relay!Bytes]
  BY DEF Relay!Other, Relay!Sides, Conns
<1>2. CASE d = Relay!OnRequest(c, ok) /\ ~c.listed
  BY <1>2, OneRequest
<1>3. CASE d = c /\ (~c.context \/ c.state["client"] # "up")
  <2>1. c.state["client"] # "up"
    BY <1>3 DEF Ways
  <2>2. Passes(c, c)
    BY DEF Passes, Flows
  <2> QED BY <1>3, <2>1, <2>2 DEF Handles, Control, NoRequestWaits
<1>4. ASSUME c.state["client"] = "up", NEW e, e = [c EXCEPT !.inp["server"] = << >>],
             d = Relay!Send(e, "client", c.inp["server"], k)
      PROVE  Handles(c, d)
  <2>1. /\ d \in Conns /\ Passes(c, d) /\ Alike(e, d)
        /\ \A run : Backed(c, run) => Backed(d, run)
        /\ Control(e) => Control(d)
    BY <1>1, <1>4, Forwards DEF Passes
  <2>2. /\ e.inp = [c.inp EXCEPT !["server"] = << >>] /\ e.state = c.state /\ e.tunnel = c.tunnel
        /\ e.listed = c.listed /\ e.context = c.context /\ e.client = c.client
    BY <1>4 DEF Conns
  <2>3. e.inp["server"] = << >> /\ e.inp["client"] = c.inp["client"]
    BY <1>1, <2>2
  <2>4. Control(e)
    BY <2>2, <2>3 DEF Control, Ways, NoAnswerWaits, NoRequestWaits
  <2> QED BY <2>1, <2>4 DEF Handles
<1>5. \/ d = Relay!OnRequest(c, ok) /\ ~c.listed
      \/ d = c /\ (~c.context \/ c.state["client"] # "up")
      \/ /\ c.state["client"] = "up"
         /\ d = Relay!Send([c EXCEPT !.inp["server"] = << >>], "client", c.inp["server"], k)
  BY DEF Relay!OnServerMessage
<1> QED BY <1>2, <1>3, <1>4, <1>5

LEMMA ClientMessage ==
  \A c \in Conns : \A k \in 0 .. Len(c.inp["client"]) :
      /\ Ways(c) /\ NoRequestWaits(c) /\ c.state["client"] \in {"up", "shut"}
      => Handles(c, Relay!OnClientMessage(c, k))
<1> SUFFICES ASSUME NEW c \in Conns, NEW k \in 0 .. Len(c.inp["client"]),
                    NEW d, d = Relay!OnClientMessage(c, k),
                    Ways(c), NoRequestWaits(c), c.state["client"] \in {"up", "shut"}
             PROVE  Handles(c, d)
  OBVIOUS
<1>1. /\ Relay!Other("client") = "server" /\ "server" \in Relay!Sides
      /\ "client" \in Relay!Sides
      /\ c.inp \in [Relay!Sides -> Relay!Bytes]
      /\ c.state["server"] \in {"none", "up", "shut", "down"}
  BY DEF Relay!Other, Relay!Sides, Conns
<1>2. CASE d = c /\ c.state["server"] # "up"
  <2>1. c.state["server"] \in {"shut", "down"}
    BY <1>1, <1>2 DEF Ways
  <2>2. Passes(c, c)
    BY DEF Passes, Flows
  <2> QED BY <1>2, <2>1, <2>2 DEF Handles, Control, NoAnswerWaits
<1>3. ASSUME c.state["server"] = "up", NEW e, e = [c EXCEPT !.inp["client"] = << >>],
             d = Relay!Send(e, "server", c.inp["client"], k)
      PROVE  Handles(c, d)
  <2>1. /\ d \in Conns /\ Passes(c, d) /\ Alike(e, d)
        /\ \A run : Backed(c, run) => Backed(d, run)
        /\ Control(e) => Control(d)
    BY <1>1, <1>3, Forwards DEF Passes
  <2>2. /\ e.inp = [c.inp EXCEPT !["client"] = << >>] /\ e.state = c.state /\ e.tunnel = c.tunnel
        /\ e.listed = c.listed /\ e.context = c.context /\ e.client = c.client
    BY <1>3 DEF Conns
  <2>3. e.inp["client"] = << >> /\ e.inp["server"] = c.inp["server"]
    BY <1>1, <2>2
  <2>4. Control(e)
    BY <2>2, <2>3 DEF Control, Ways, NoAnswerWaits, NoRequestWaits
  <2> QED BY <2>1, <2>4 DEF Handles
<1>4. \/ d = c /\ c.state["server"] # "up"
      \/ /\ c.state["server"] = "up"
         /\ d = Relay!Send([c EXCEPT !.inp["client"] = << >>], "server", c.inp["client"], k)
  BY DEF Relay!OnClientMessage
<1> QED BY <1>2, <1>3, <1>4

LEMMA ClientUp ==
  \A c \in Conns : \A k \in 0 .. Len(c.inp["server"]) :
      /\ Ways(c) /\ NoAnswerWaits(c) /\ c.tunnel = "made" /\ c.state["client"] = "none"
      => Handles(c, Relay!OnClientUp(c, k))
<1> SUFFICES ASSUME NEW c \in Conns, NEW k \in 0 .. Len(c.inp["server"]),
                    NEW d, d = Relay!OnClientUp(c, k),
                    Ways(c), NoAnswerWaits(c), c.tunnel = "made", c.state["client"] = "none"
             PROVE  Handles(c, d)
  OBVIOUS
<1>1. /\ Relay!Other("server") = "client" /\ "server" \in Relay!Sides
      /\ "client" \in Relay!Sides
      /\ "server" # "client" /\ c.inp \in [Relay!Sides -> Relay!Bytes]
      /\ c.state \in [Relay!Sides -> {"none", "up", "shut", "down"}]
      /\ c.reading \in [Relay!Sides -> BOOLEAN]
  BY DEF Relay!Other, Relay!Sides, Conns
<1> DEFINE st == [c.state EXCEPT !["client"] = "up"]
           rd == [c.reading EXCEPT !["client"] = TRUE]
           b  == [c EXCEPT !.state = st, !.reading = rd, !.context = TRUE, !.client = TRUE]
           g  == Relay!StartRead(b, "server")
           e  == [g EXCEPT !.inp["server"] = << >>]
<1>2. d = Relay!Send(e, "client", c.inp["server"], k)
  BY DEF Relay!OnClientUp
<1>3. /\ st \in [Relay!Sides -> {"none", "up", "shut", "down"}] /\ st["client"] = "up"
      /\ st["server"] = c.state["server"]
      /\ rd \in [Relay!Sides -> BOOLEAN] /\ rd["client"]
  BY <1>1
<1> HIDE DEF st, rd
<1>4. /\ b \in Conns /\ b.state = st /\ b.reading = rd /\ b.inp = c.inp /\ b.out = c.out
      /\ b.got = c.got
      /\ b.tunnel = c.tunnel /\ b.listed = c.listed /\ b.context = TRUE /\ b.client = TRUE
  BY <1>3 DEF Conns
<1> HIDE DEF b
<1>5. /\ g \in Conns /\ g.state = st /\ g.inp = c.inp /\ g.out = c.out /\ g.got = c.got
      /\ g.tunnel = c.tunnel /\ g.listed = c.listed /\ g.context = TRUE /\ g.client = TRUE
      /\ g.fault = "no" => g.reading["server"] /\ g.reading["client"]
  <2>1. CASE b.state["server"] = "down"
    BY <1>4, <2>1 DEF Relay!StartRead, Conns
  <2>2. CASE b.state["server"] # "down"
    <3>1. g = [b EXCEPT !.reading = [b.reading EXCEPT !["server"] = TRUE]]
      BY <2>2 DEF Relay!StartRead, Conns
    <3>2. PICK rr : rr = [b.reading EXCEPT !["server"] = TRUE]
      OBVIOUS
    <3>3. rr \in [Relay!Sides -> BOOLEAN] /\ rr["server"] /\ rr["client"]
      BY <1>1, <1>3, <1>4, <3>2
    <3>4. g = [b EXCEPT !.reading = rr]
      BY <3>1, <3>2
    <3> QED BY <1>4, <3>3, <3>4 DEF Conns
  <2> QED BY <2>1, <2>2
<1> HIDE DEF g
<1>6. /\ d \in Conns /\ Passes(g, d)
      /\ \A run : Backed(g, run) => Backed(d, run)
      /\ Control(e) => Control(d)
  <2>1. ASSUME NEW h \in Conns, h.state["client"] = "up",
               NEW f, f = [h EXCEPT !.inp["server"] = << >>],
               NEW j \in 0 .. Len(h.inp["server"]),
               NEW b2, b2 = Relay!Send(f, "client", h.inp["server"], j)
        PROVE  /\ b2 \in Conns /\ Passes(h, b2)
               /\ \A run : Backed(h, run) => Backed(b2, run)
               /\ Control(f) => Control(b2)
    BY <1>1, <2>1, Forwards DEF Passes
  <2>2. g.state["client"] = "up" /\ k \in 0 .. Len(g.inp["server"]) /\ g \in Conns
        /\ d = Relay!Send(e, "client", g.inp["server"], k)
    BY <1>2, <1>3, <1>5
  <2>3. e = [g EXCEPT !.inp["server"] = << >>]
    OBVIOUS
  <2> HIDE DEF e
  <2> QED BY <2>1, <2>2, <2>3
<1>7. \A run : Backed(g, run)
  BY <1>5 DEF Backed, BothAreUp, Relay!Sides
<1>8. Passes(c, d)
  <2>1. Passes(c, g)
    BY <1>5, SameBuffers
  <2> QED BY <1>6, <2>1, FlowsOn DEF Passes
<1>9. Control(e)
  <2>1. /\ e.inp = [c.inp EXCEPT !["server"] = << >>] /\ e.state = st /\ e.tunnel = c.tunnel
        /\ e.listed = c.listed /\ e.context = TRUE /\ e.client = TRUE
    BY <1>5 DEF Conns
  <2> HIDE DEF e
  <2>2. e.inp["server"] = << >> /\ e.inp["client"] = c.inp["client"]
    BY <1>1, <2>1
  <2> QED BY <1>3, <2>1, <2>2 DEF Control, Ways, NoAnswerWaits, NoRequestWaits
<1> QED BY <1>6, <1>7, <1>8, <1>9 DEF Handles

\* A handler that changes neither the states of the connections nor their buffers.
Aside(c, d) ==
    /\ d \in Conns /\ d.state = c.state /\ d.inp = c.inp /\ d.out = c.out /\ d.got = c.got
    /\ d.context = c.context /\ d.client = c.client /\ d.tunnel = c.tunnel
    /\ d.listed = c.listed /\ d.pending = c.pending

LEMMA HighWaterMark ==
  \A c \in Conns, s \in Relay!Sides :
      LET d == Relay!OnHighWaterMark(c, s)
      IN  /\ Aside(c, d)
          /\ c.fault = "no" => \A run : Backed(c, run) => Backed(d, run)
<1> SUFFICES ASSUME NEW c \in Conns, NEW s \in Relay!Sides, NEW d, d = Relay!OnHighWaterMark(c, s)
             PROVE  /\ Aside(c, d)
                    /\ c.fault = "no" => \A run : Backed(c, run) => Backed(d, run)
  OBVIOUS
<1>1. CASE d = c
  BY <1>1 DEF Aside
<1>2. CASE d = Relay!NullClient(c)
  BY <1>2 DEF Aside, Relay!NullClient, Conns, Backed, BothAreUp
<1>3. CASE d = [Relay!StopRead(c, Relay!Other(s)) EXCEPT !.wc[s] = TRUE] /\ c.out[s] # << >>
  <2> DEFINE o  == Relay!Other(s)
             rd == [c.reading EXCEPT ![o] = FALSE]
             w  == [c.wc EXCEPT ![s] = TRUE]
  <2>1. d = [c EXCEPT !.reading = rd, !.wc = w]
    BY <1>3 DEF Conns, Relay!StopRead
  <2>2. /\ o \in Relay!Sides /\ c.reading \in [Relay!Sides -> BOOLEAN]
        /\ c.wc \in [Relay!Sides -> BOOLEAN]
        /\ Relay!Other(o) = s /\ \A x \in Relay!Sides : x = s \/ x = o
    BY DEF Relay!Other, Relay!Sides, Conns
  <2> HIDE DEF o
  <2>3. /\ rd \in [Relay!Sides -> BOOLEAN] /\ w \in [Relay!Sides -> BOOLEAN]
        /\ w[s] /\ (\A x \in Relay!Sides : c.wc[x] => w[x])
        /\ \A x \in Relay!Sides : x # o => rd[x] = c.reading[x]
    BY <2>2
  <2> HIDE DEF rd, w
  <2>4. Aside(c, d) /\ d.reading = rd /\ d.wc = w /\ d.fault = c.fault
    BY <2>1, <2>3 DEF Aside, Conns
  <2>5. ASSUME NEW run, Backed(c, run) PROVE Backed(d, run)
    <3> SUFFICES ASSUME BothAreUp(d), NEW x \in Relay!Sides, ~d.reading[x]
                 PROVE  WillResume(d, Relay!Other(x), run)
      BY DEF Backed
    <3>1. CASE x = o
      BY <1>3, <2>2, <2>3, <2>4, <3>1 DEF WillResume, Aside
    <3>2. CASE x # o
      <4>1. WillResume(c, Relay!Other(x), run)
        BY <2>3, <2>4, <2>5, <3>2 DEF Backed, BothAreUp, Aside
      <4>2. Relay!Other(x) \in Relay!Sides
        BY DEF Relay!Other, Relay!Sides
      <4> QED BY <2>3, <2>4, <4>1, <4>2 DEF WillResume, Aside
    <3> QED BY <3>1, <3>2
  <2> QED BY <2>4, <2>5
<1>4. \/ d = c \/ d = Relay!NullClient(c)
      \/ d = [Relay!StopRead(c, Relay!Other(s)) EXCEPT !.wc[s] = TRUE] /\ c.out[s] # << >>
  BY DEF Relay!OnHighWaterMark
<1> QED BY <1>1, <1>2, <1>3, <1>4

LEMMA WriteComplete ==
  \A c \in Conns, s \in Relay!Sides :
      LET d == Relay!OnWriteComplete(c, s)
      IN  /\ Aside(c, d)
          /\ \A run, rest : c.fault = "no" /\ Backed(c, run)
                            /\ Range(run) \subseteq {<< "wc", s >>} \cup Range(rest)
                            => Backed(d, rest)
<1> SUFFICES ASSUME NEW c \in Conns, NEW s \in Relay!Sides, NEW d, d = Relay!OnWriteComplete(c, s)
             PROVE  /\ Aside(c, d)
                    /\ \A run, rest : c.fault = "no" /\ Backed(c, run)
                                      /\ Range(run) \subseteq {<< "wc", s >>} \cup Range(rest)
                                      => Backed(d, rest)
  OBVIOUS
<1> DEFINE o  == Relay!Other(s)
           rd == [c.reading EXCEPT ![o] = TRUE]
           w  == [c.wc EXCEPT ![s] = FALSE]
<1>2. /\ o \in Relay!Sides /\ c.reading \in [Relay!Sides -> BOOLEAN]
      /\ c.wc \in [Relay!Sides -> BOOLEAN]
      /\ Relay!Other(o) = s /\ s # o /\ \A x \in Relay!Sides : x = s \/ x = o
      /\ s = "server" => o = "client"
      /\ s # "server" => s = "client" /\ o = "server"
  BY DEF Relay!Other, Relay!Sides, Conns
<1> HIDE DEF o
<1>3. /\ rd \in [Relay!Sides -> BOOLEAN] /\ w \in [Relay!Sides -> BOOLEAN]
      /\ rd[o] /\ rd[s] = c.reading[s] /\ w[o] = c.wc[o]
  BY <1>2
<1>4. PICK g : g = Relay!StartRead(c, o)
  OBVIOUS
<1>5. /\ Aside(c, g)
      /\ \/ g.fault # "no"
         \/ g = [c EXCEPT !.reading = rd]
  <2>1. CASE c.state[o] = "down"
    BY <1>4, <2>1 DEF Relay!StartRead, Conns, Aside
  <2>2. CASE c.state[o] # "down"
    <3>1. g = [c EXCEPT !.reading = rd]
      BY <1>4, <2>2 DEF Relay!StartRead, Conns
    <3> HIDE DEF rd
    <3> QED BY <1>3, <3>1 DEF Aside, Conns
  <2> QED BY <2>1, <2>2
<1>6. \/ d = Relay!NullClient(c) \/ d = Relay!NullClient(g)
      \/ d = [g EXCEPT !.wc[s] = FALSE]
  BY <1>2, <1>4 DEF Relay!OnWriteComplete
<1>7. CASE d = Relay!NullClient(c) \/ d = Relay!NullClient(g)
  <2>1. \A h \in Conns : Aside(h, Relay!NullClient(h)) /\ Relay!NullClient(h).fault # "no"
    BY DEF Aside, Relay!NullClient, Conns
  <2>2. Aside(c, d) /\ d.fault # "no"
    BY <1>5, <1>7, <2>1 DEF Aside
  <2> QED BY <2>2 DEF Backed, BothAreUp
<1>8. CASE d = [g EXCEPT !.wc[s] = FALSE]
  <2>1. Aside(g, d) /\ d.fault = g.fault /\ d.reading = g.reading
        /\ d.wc = [g.wc EXCEPT ![s] = FALSE]
    <3>1. g \in Conns /\ [g.wc EXCEPT ![s] = FALSE] \in [Relay!Sides -> BOOLEAN]
      BY <1>5 DEF Aside, Conns
    <3> QED BY <1>8, <3>1 DEF Aside, Conns
  <2>2. Aside(c, d)
    BY <1>5, <2>1 DEF Aside
  <2>3. ASSUME NEW run, NEW rest, c.fault = "no", Backed(c, run),
               Range(run) \subseteq {<< "wc", s >>} \cup Range(rest), BothAreUp(d),
               NEW x \in Relay!Sides, ~d.reading[x]
        PROVE  WillResume(d, Relay!Other(x), rest)
    <3>1. g = [c EXCEPT !.reading = rd]
      BY <1>5, <2>1, <2>3 DEF BothAreUp
    <3> HIDE DEF rd
    <3>2. g.reading = rd /\ g.wc = c.wc /\ g.fault = c.fault
      BY <3>1 DEF Conns
    <3>3. x = s /\ ~c.reading[x]
      BY <1>2, <1>3, <2>1, <2>3, <3>2
    <3>4. WillResume(c, o, run)
      BY <1>2, <2>2, <2>3, <3>3 DEF Backed, BothAreUp, Aside, o
    <3>5. d.wc[o] = c.wc[o]
      BY <1>2, <2>1, <3>2
    <3>6. << "wc", o >> # << "wc", s >>
      BY <1>2
    <3>7. WillResume(d, o, rest)
      BY <2>2, <2>3, <3>4, <3>5, <3>6 DEF WillResume, Aside
    <3> QED BY <3>3, <3>7 DEF o
  <2> QED BY <2>2, <2>3 DEF Backed
<1> QED BY <1>6, <1>7, <1>8

-----------------------------------------------------------------------------
\* A step that hands a record on to a handler.
LEMMA HandlerStep ==
  ASSUME TunInv, NEW c \in Conns, NEW d, Handles(c, d), Relay!Become(d), v16' = v16,
         \A run : Backed(Relay!Now, run) => Backed(c, run),
         Flows(Relay!Now, v8, c, v8'), v8' \in [Relay!Sides -> Relay!Bytes]
  PROVE  TunInv'
<1>1. d \in Conns /\ Control(d) /\ Flows(c, v8', d, v8')
  BY DEF Handles, Passes
<1>2. Flows(Relay!Now, v8, d, v8')
  BY <1>1, FlowsOn
<1>3. Backed(d, v16')
  BY DEF TunInv, Handles
<1>4. v16' \in Seq(Kinds)
  BY DEF TunInv
<1> QED BY <1>1, <1>2, <1>3, <1>4, Becomes

\* What is now, field by field.
LEMMA NowIs ==
  /\ Relay!Now.state = v2 /\ Relay!Now.reading = v3 /\ Relay!Now.inp = v4
  /\ Relay!Now.out = v5
  /\ Relay!Now.wc = v6 /\ Relay!Now.got = v9 /\ Relay!Now.context = v11
  /\ Relay!Now.client = v12
  /\ Relay!Now.tunnel = v13 /\ Relay!Now.listed = v14 /\ Relay!Now.pending = v15
  /\ Relay!Now.fault = v18
BY DEF Relay!Now

LEMMA ReadStep ==
  ASSUME TunInv, NEW s \in Relay!Sides, NEW n, NEW k, NEW ok \in BOOLEAN,
         Relay!HandleRead(s, n, k, ok)
  PROVE  TunInv'
<1> DEFINE c0 == Relay!Now
           a  == SubSeq(v8[s], 1, n)
           z  == SubSeq(v8[s], n + 1, Len(v8[s]))
           i  == c0.inp[s] \o a
           in == [c0.inp EXCEPT ![s] = i]
           c  == [c0 EXCEPT !.inp = in]
           d  == IF s = "server" THEN Relay!OnServerMessage(c, k, ok)
                 ELSE Relay!OnClientMessage(c, k)
<1>0. /\ c0 \in Conns /\ Control(c0) /\ Relay!Bytes = Seq(Byte)
      /\ v8 \in [Relay!Sides -> Relay!Bytes]
  BY PayloadOf DEF TunInv
<1>1. /\ v16' = v16 /\ v8' = [v8 EXCEPT ![s] = z] /\ v2[s] \in {"up", "shut"}
      /\ n \in 1 .. Len(v8[s])
  BY DEF Relay!HandleRead, Relay!Turn
<1>2. k \in 0 .. Len(c.inp[s]) /\ Relay!Become(d)
  <2>1. c = [c0 EXCEPT !.inp[s] = @ \o SubSeq(v8[s], 1, n)]
    BY <1>0 DEF Conns
  <2> QED BY <2>1 DEF Relay!HandleRead
<1>3. /\ v8[s] \in Seq(Byte) /\ a \in Seq(Byte) /\ z \in Seq(Byte) /\ a \o z = v8[s]
      /\ c0.inp[s] \in Seq(Byte) /\ c0.inp \in [Relay!Sides -> Relay!Bytes]
  <2>1. v8[s] \in Seq(Byte) /\ c0.inp[s] \in Seq(Byte) /\ c0.inp \in [Relay!Sides -> Relay!Bytes]
    BY <1>0 DEF Conns
  <2>2. n \in 0 .. Len(v8[s])
    BY <1>1
  <2> QED BY <2>1, <2>2, CutInTwo
<1> HIDE DEF a, z
<1>4. i \in Seq(Byte) /\ P(i) = P(c0.inp[s]) \o P(a) /\ P(v8[s]) = P(a) \o P(z)
      /\ P(a) \in Seq(Byte) /\ P(z) \in Seq(Byte) /\ P(c0.inp[s]) \in Seq(Byte)
  BY <1>3, PayloadJoins
<1> HIDE DEF i
<1>5. /\ in \in [Relay!Sides -> Relay!Bytes] /\ in[s] = i
      /\ \A x \in Relay!Sides : x # s => in[x] = c0.inp[x]
  BY <1>0, <1>3, <1>4
<1> HIDE DEF in
<1>6. /\ c \in Conns /\ c.inp = in /\ c.state = c0.state /\ c.reading = c0.reading
      /\ c.out = c0.out
      /\ c.wc = c0.wc /\ c.got = c0.got /\ c.context = c0.context /\ c.client = c0.client
      /\ c.tunnel = c0.tunnel /\ c.listed = c0.listed /\ c.pending = c0.pending
      /\ c.fault = c0.fault
  BY <1>0, <1>5 DEF Conns
<1>7. /\ v8' \in [Relay!Sides -> Relay!Bytes] /\ v8'[s] = z
      /\ \A x \in Relay!Sides : x # s => v8'[x] = v8[x]
  BY <1>0, <1>1, <1>3
<1> HIDE DEF c
<1>8. Flows(c0, v8, c, v8')
  <2> SUFFICES ASSUME NEW x \in Relay!Sides PROVE Line(c, v8', x) = Line(c0, v8, x)
    BY <1>6 DEF Flows
  <2>1. CASE x # s
    BY <1>5, <1>6, <1>7, <2>1 DEF Line
  <2>2. CASE x = s
    <3>1. PICK u : u = P(c0.got[Relay!Other(s)]) \o P(c0.out[Relay!Other(s)])
      OBVIOUS
    <3>2. u \in Seq(Byte)
      <4>1. Relay!Other(s) \in Relay!Sides
        BY DEF Relay!Other, Relay!Sides
      <4>2. c0.got[Relay!Other(s)] \in Seq(Byte) /\ c0.out[Relay!Other(s)] \in Seq(Byte)
        BY <1>0, <4>1 DEF Conns
      <4>3. P(c0.got[Relay!Other(s)]) \in Seq(Byte) /\ P(c0.out[Relay!Other(s)]) \in Seq(Byte)
        BY <4>2, PayloadJoins
      <4> QED BY <3>1, <4>3, PayloadJoins
    <3>3. PICK q, pa, pz : q = P(c0.inp[s]) /\ pa = P(a) /\ pz = P(z)
      OBVIOUS
    <3>4. q \in Seq(Byte) /\ pa \in Seq(Byte) /\ pz \in Seq(Byte) /\ u \o q \in Seq(Byte)
      BY <1>4, <3>2, <3>3, PayloadJoins
    <3>5. u \o (q \o pa) = (u \o q) \o pa /\ ((u \o q) \o pa) \o pz = (u \o q) \o (pa \o pz)
      BY <3>2, <3>4, JoinsAgree
    <3>6. Line(c, v8', x) = (u \o (q \o pa)) \o pz
      BY <1>4, <1>5, <1>6, <1>7, <2>2, <3>1, <3>3 DEF Line
    <3>7. Line(c0, v8, x) = (u \o q) \o (pa \o pz)
      BY <1>4, <2>2, <3>1, <3>3 DEF Line
    <3> QED BY <3>5, <3>6, <3>7
  <2> QED BY <2>1, <2>2
<1>9. \A run : Backed(c0, run) => Backed(c, run)
  BY <1>6 DEF Backed, BothAreUp, WillResume
<1>10. Ways(c) /\ c.state[s] \in {"up", "shut"}
  <2>1. c0.state = v2
    BY NowIs
  <2> QED BY <1>0, <1>1, <1>6, <2>1 DEF Control, Ways
<1>11. Handles(c, d)
  <2>1. CASE s = "server"
    <3>1. NoAnswerWaits(c)
      BY <1>0, <1>5, <1>6, <2>1 DEF Control, NoAnswerWaits, Relay!Sides
    <3> QED BY <1>2, <1>6, <1>10, <2>1, <3>1, ServerMessage
  <2>2. CASE s = "client"
    <3>1. NoRequestWaits(c)
      BY <1>0, <1>5, <1>6, <2>2 DEF Control, NoRequestWaits, Relay!Sides
    <3> QED BY <1>2, <1>6, <1>10, <2>2, <3>1, ClientMessage
  <2> QED BY <2>1, <2>2 DEF Relay!Sides
<1> HIDE DEF d, c0
<1> QED BY <1>1, <1>2, <1>6, <1>7, <1>8, <1>9, <1>11, HandlerStep DEF c0

LEMMA ConnectedStep ==
  ASSUME TunInv, NEW k, Relay!Connected(k)
  PROVE  TunInv'
<1> DEFINE c == Relay!Now
           d == Relay!OnClientUp(c, k)
<1>1. c \in Conns /\ Control(c)
  BY DEF TunInv
<1>2. /\ c.tunnel = "made" /\ c.state["client"] = "none" /\ k \in 0 .. Len(c.inp["server"])
      /\ v8' = v8 /\ v16' = v16 /\ Relay!Become(d)
  BY NowIs DEF Relay!Connected
<1>3. Handles(c, d)
  <2> HIDE DEF c
  <2> QED BY <1>1, <1>2, ClientUp DEF Control
<1>4. Flows(c, v8, c, v8') /\ v8' \in [Relay!Sides -> Relay!Bytes]
  BY <1>2 DEF Flows, TunInv
<1> HIDE DEF d
<1> QED BY <1>1, <1>2, <1>3, <1>4, HandlerStep

LEMMA ServerUpStep ==
  ASSUME TunInv, Relay!OnServerUp
  PROVE  TunInv'
<1> DEFINE n0 == Relay!Now
           st == [n0.state EXCEPT !["server"] = "up"]
           c  == [n0 EXCEPT !.state = st]
           d  == IF v1 = "tcprelay" THEN Relay!NewTunnel(Relay!StopRead(c, "server"))
                 ELSE Relay!StartRead(c, "server")
<1>1. /\ n0 \in Conns /\ Control(n0)
      /\ n0.state \in [Relay!Sides -> {"none", "up", "shut", "down"}]
      /\ n0.reading \in [Relay!Sides -> BOOLEAN] /\ "server" \in Relay!Sides
      /\ "client" \in Relay!Sides
  BY DEF TunInv, Conns, Relay!Sides
<1>2. n0.state["server"] = "none" /\ v8' = v8 /\ v16' = v16 /\ Relay!Become(d)
  <2>1. c = [n0 EXCEPT !.state["server"] = "up"]
    BY <1>1 DEF Conns
  <2> QED BY <2>1, NowIs DEF Relay!OnServerUp
<1>3. /\ st \in [Relay!Sides -> {"none", "up", "shut", "down"}] /\ st["server"] = "up"
      /\ st["client"] = n0.state["client"]
  BY <1>1
<1> HIDE DEF st, n0
<1>4. /\ c \in Conns /\ c.state = st /\ c.inp = n0.inp /\ c.out = n0.out /\ c.got = n0.got
      /\ c.tunnel = n0.tunnel /\ c.listed = n0.listed
  BY <1>1, <1>3 DEF Conns
<1> HIDE DEF c
<1>5. /\ d \in Conns /\ d.state = st /\ d.inp = n0.inp /\ d.out = n0.out /\ d.got = n0.got
      /\ \/ d.tunnel = n0.tunnel
         \/ d.tunnel = "made" /\ d.listed
  <2>1. \A w \in BOOLEAN : [c.reading EXCEPT !["server"] = w] \in [Relay!Sides -> BOOLEAN]
    BY <1>4 DEF Conns
  <2>2. CASE v1 = "tcprelay"
    BY <1>4, <2>1, <2>2 DEF Conns, Relay!NewTunnel, Relay!StopRead
  <2>3. CASE v1 # "tcprelay"
    BY <1>3, <1>4, <2>1, <2>3 DEF Conns, Relay!StartRead
  <2> QED BY <2>2, <2>3
<1> HIDE DEF d
<1>6. n0.tunnel = "none" /\ n0.state["client"] = "none" /\ n0.inp["client"] = << >>
  BY <1>1, <1>2 DEF Control, Ways, NoAnswerWaits
<1>7. Control(d) /\ \A run : Backed(d, run)
  BY <1>3, <1>5, <1>6 DEF Control, Ways, NoAnswerWaits, NoRequestWaits, Backed, BothAreUp
<1>8. Passes(n0, d)
  BY <1>1, <1>5, SameBuffers
<1>9. Flows(n0, v8, d, v8') /\ v8' \in [Relay!Sides -> Relay!Bytes] /\ v16' \in Seq(Kinds)
  BY <1>2, <1>8 DEF Passes, TunInv
<1> QED BY <1>2, <1>5, <1>7, <1>9, Becomes DEF n0

LEMMA CloseStep ==
  ASSUME TunInv, NEW s \in Relay!Sides, Relay!HandleClose(s)
  PROVE  TunInv'
<1> DEFINE n0 == Relay!Now
           st == [n0.state EXCEPT ![s] = "down"]
           rd == [n0.reading EXCEPT ![s] = FALSE]
           c  == [n0 EXCEPT !.state = st, !.reading = rd]
           d  == IF s = "server" THEN Relay!OnServerDown(c) ELSE Relay!Teardown(c)
<1>1. /\ n0 \in Conns /\ Control(n0)
      /\ n0.state \in [Relay!Sides -> {"none", "up", "shut", "down"}]
      /\ n0.reading \in [Relay!Sides -> BOOLEAN] /\ "server" \in Relay!Sides
      /\ "client" \in Relay!Sides
  BY DEF TunInv, Conns, Relay!Sides
<1>2. n0.state[s] \in {"up", "shut"} /\ v8' = v8 /\ v16' = v16 /\ Relay!Become(d)
  <2>1. c = [n0 EXCEPT !.state[s] = "down", !.reading[s] = FALSE]
    BY <1>1 DEF Conns
  <2> QED BY <2>1, NowIs DEF Relay!HandleClose, Relay!Turn
<1>3. /\ st \in [Relay!Sides -> {"none", "up", "shut", "down"}] /\ st[s] = "down"
      /\ \A x \in Relay!Sides : x # s => st[x] = n0.state[x]
      /\ rd \in [Relay!Sides -> BOOLEAN]
  BY <1>1
<1> HIDE DEF st, rd, n0
<1>4. /\ c \in Conns /\ c.state = st /\ c.inp = n0.inp /\ c.out = n0.out /\ c.got = n0.got
      /\ c.tunnel = n0.tunnel /\ c.listed = n0.listed /\ c.context = n0.context
      /\ c.client = n0.client
  BY <1>1, <1>3 DEF Conns
<1> HIDE DEF c
<1>5. Passes(n0, c)
  BY <1>1, <1>4, SameBuffers
<1>6. d \in Conns /\ Passes(c, d) /\ Control(d) /\ \A run : Backed(d, run)
  <2>1. CASE s = "server"
    <3>1. CASE c.listed
      <4>1. PICK b : b = Relay!Shutdown(c, "client")
        OBVIOUS
      <4>2. IsShut(c, b, "client")
        BY <1>1, <1>4, <4>1, Shuts
      <4>3. d = [b EXCEPT !.listed = FALSE]
        BY <2>1, <3>1, <4>1 DEF Relay!OnServerDown
      <4>4. /\ d \in Conns /\ d.state = b.state /\ d.inp = b.inp /\ d.out = b.out /\ d.got = b.got
            /\ d.tunnel = b.tunnel /\ d.context = b.context /\ d.client = b.client
        BY <4>2, <4>3 DEF IsShut, Conns
      <4> HIDE DEF d
      <4>5. /\ d.state["server"] = "down" /\ d.state["client"] # "up"
            /\ d.state["client"] = "none" <=> n0.state["client"] = "none"
            /\ d.state["client"] = "down" <=> n0.state["client"] = "down"
        BY <1>1, <1>3, <1>4, <2>1, <4>2, <4>4 DEF IsShut, Relay!Sides
      <4>6. Passes(c, d)
        <5>1. Passes(b, d) /\ Passes(c, b)
          BY <4>2, <4>4, SameBuffers DEF IsShut
        <5> QED BY <5>1, FlowsOn DEF Passes
      <4>7. d.inp = n0.inp /\ d.tunnel = n0.tunnel /\ d.context = n0.context /\ d.client = n0.client
        BY <1>4, <4>2, <4>4 DEF IsShut
      <4>8. d.state["client"] \in {"none", "up", "shut", "down"}
        BY <1>1, <4>4 DEF Conns
      <4>9. n0.state["client"] \in {"none", "up", "shut", "down"}
        BY <1>1
      <4>10. Control(d)
        <5>1. Ways(n0)
          BY <1>1 DEF Control
        <5>2. d.state["client"] \in {"up", "shut"} => n0.state["client"] \in {"up", "shut"}
          BY <4>5, <4>9
        <5> QED BY <4>5, <4>7, <5>1, <5>2 DEF Control, Ways, NoAnswerWaits, NoRequestWaits
      <4> QED BY <4>4, <4>5, <4>6, <4>10 DEF Backed, BothAreUp
    <3>2. CASE ~c.listed
      <4>1. d = c
        BY <2>1, <3>2 DEF Relay!OnServerDown
      <4> HIDE DEF d
      <4>2. d.state["server"] = "down" /\ d.state["client"] = n0.state["client"]
        BY <1>1, <1>3, <1>4, <2>1, <4>1
      <4>3. Control(d)
        BY <1>1, <1>4, <4>1, <4>2 DEF Control, Ways, NoAnswerWaits, NoRequestWaits
      <4>4. Passes(c, c)
        BY DEF Passes, Flows
      <4> QED BY <1>4, <4>1, <4>2, <4>3, <4>4 DEF Backed, BothAreUp
    <3> QED BY <3>1, <3>2
  <2>2. CASE s = "client"
    <3>1. PICK b : b = [c EXCEPT !.context = FALSE, !.client = FALSE, !.tunnel = "torn"]
      OBVIOUS
    <3>2. /\ b \in Conns /\ b.state = st /\ b.inp = n0.inp /\ b.out = c.out /\ b.got = c.got
          /\ b.tunnel = "torn" /\ b.listed = n0.listed
      BY <1>4, <3>1 DEF Conns
    <3>3. d = Relay!Shutdown(b, "server")
      BY <2>2, <3>1 DEF Relay!Teardown
    <3>4. IsShut(b, d, "server")
      BY <1>1, <3>2, <3>3, Shuts
    <3> HIDE DEF d
    <3>6. d.state["server"] = "down" <=> n0.state["server"] = "down"
      BY <1>1, <1>3, <2>2, <3>2, <3>4 DEF IsShut
    <3>7. d.state["client"] = "down" /\ d.state["server"] \in {"none", "shut", "down"}
          /\ d \in Conns /\ d.inp = n0.inp /\ d.tunnel = "torn" /\ d.listed = n0.listed
      <4>1. d \in Conns /\ d.inp = n0.inp /\ d.tunnel = "torn" /\ d.listed = n0.listed
        BY <3>2, <3>4 DEF IsShut
      <4>2. d.state["server"] # "up" /\ d.state["client"] = "down"
        BY <1>1, <1>3, <2>2, <3>2, <3>4 DEF IsShut
      <4>3. d.state["server"] \in {"none", "up", "shut", "down"}
        BY <1>1, <4>1 DEF Conns
      <4> QED BY <4>1, <4>2, <4>3
    <3>8. n0.tunnel # "none" /\ n0.state["server"] # "none"
      BY <1>1, <1>2, <2>2 DEF Control, Ways
    <3>9. d.state["server"] # "none"
      BY <1>1, <1>3, <2>2, <3>2, <3>4, <3>8 DEF IsShut
    <3>10. Control(d)
      <4>1. Ways(n0)
        BY <1>1 DEF Control
      <4> QED BY <3>6, <3>7, <3>8, <3>9, <4>1 DEF Control, Ways, NoAnswerWaits, NoRequestWaits
    <3>11. Passes(c, d)
      <4>1. Passes(c, b)
        BY <1>4, <3>2, SameBuffers
      <4> QED BY <3>4, <4>1, FlowsOn DEF IsShut, Passes
    <3> QED BY <3>7, <3>10, <3>11 DEF Backed, BothAreUp
  <2> QED BY <2>1, <2>2 DEF Relay!Sides
<1> HIDE DEF d
<1>7. Flows(n0, v8, d, v8') /\ v8' \in [Relay!Sides -> Relay!Bytes] /\ v16' \in Seq(Kinds)
  BY <1>2, <1>5, <1>6, FlowsOn DEF Passes, TunInv
<1> QED BY <1>2, <1>6, <1>7, Becomes DEF n0

LEMMA WriteStep ==
  ASSUME TunInv, NEW s \in Relay!Sides, NEW n, Relay!HandleWrite(s, n)
  PROVE  TunInv'
<1> DEFINE n0 == Relay!Now
           a  == SubSeq(v5[s], 1, n)
           z  == SubSeq(v5[s], n + 1, Len(v5[s]))
           g  == n0.got[s] \o a
           ou == [n0.out EXCEPT ![s] = z]
           go == [n0.got EXCEPT ![s] = g]
           c  == [n0 EXCEPT !.out = ou, !.got = go]
           d  == IF n = Len(v5[s]) /\ v6[s] THEN Relay!Queue(c, "wc", s) ELSE c
<1>0. n0 \in Conns /\ Control(n0) /\ Relay!Bytes = Seq(Byte) /\ n0.out = v5 /\ n0.wc = v6
  BY PayloadOf, NowIs DEF TunInv
<1>1. /\ v7[s] # "rst" /\ n \in 1 .. Len(v5[s]) /\ v8' = v8 /\ v16' = v16 /\ Relay!Become(d)
  <2>1. c = [n0 EXCEPT !.out[s] = SubSeq(@, n + 1, Len(@)), !.got[s] = @ \o SubSeq(v5[s], 1, n)]
    BY <1>0 DEF Conns
  <2> QED BY <2>1 DEF Relay!HandleWrite, Relay!Turn
<1>2. /\ n0.out \in [Relay!Sides -> Relay!Bytes] /\ n0.got \in [Relay!Sides -> Relay!Bytes]
      /\ n0.got[s] \in Seq(Byte) /\ v5[s] \in Seq(Byte)
  BY <1>0 DEF Conns
<1>3. /\ a \in Seq(Byte) /\ z \in Seq(Byte) /\ a \o z = v5[s]
      /\ z = << >> <=> n = Len(v5[s])
  <2>1. n \in 0 .. Len(v5[s])
    BY <1>1
  <2> QED BY <1>2, <2>1, CutInTwo
<1> HIDE DEF a, z
<1>4. g \in Seq(Byte) /\ P(g) = P(n0.got[s]) \o P(a) /\ P(v5[s]) = P(a) \o P(z)
      /\ P(n0.got[s]) \in Seq(Byte) /\ P(a) \in Seq(Byte) /\ P(z) \in Seq(Byte)
  BY <1>2, <1>3, PayloadJoins
<1> HIDE DEF g
<1>5. /\ ou \in [Relay!Sides -> Relay!Bytes] /\ go \in [Relay!Sides -> Relay!Bytes]
      /\ ou[s] = z /\ go[s] = g
      /\ \A x \in Relay!Sides : x # s => ou[x] = n0.out[x] /\ go[x] = n0.got[x]
  BY <1>0, <1>2, <1>3, <1>4
<1> HIDE DEF ou, go
<1>6. c \in Conns /\ c.out = ou /\ c.got = go /\ c.pending = n0.pending /\ Alike(n0, c)
  BY <1>0, <1>5 DEF Conns, Alike
<1> HIDE DEF c
<1>7. /\ d \in Conns /\ d.out = ou /\ d.got = go /\ Alike(c, d)
      /\ Range(n0.pending) \subseteq Range(d.pending)
      /\ z = << >> /\ v6[s] => << "wc", s >> \in Range(d.pending)
  <2>1. PICK b : b = Relay!Queue(c, "wc", s)
    OBVIOUS
  <2>2. /\ b \in Conns /\ Alike(c, b) /\ b.out = c.out /\ b.got = c.got
        /\ Range(b.pending) = Range(c.pending) \cup {<< "wc", s >>}
    BY <1>6, <2>1, QueueDoes
  <2>3. CASE n = Len(v5[s]) /\ v6[s]
    BY <1>6, <2>1, <2>2, <2>3
  <2>4. CASE ~(n = Len(v5[s]) /\ v6[s])
    <3>1. d = c
      BY <2>4
    <3> HIDE DEF d
    <3> QED BY <1>3, <1>6, <2>4, <3>1 DEF Alike
  <2> QED BY <2>3, <2>4
<1> HIDE DEF d
<1>8. /\ d.state = n0.state /\ d.reading = n0.reading /\ d.inp = n0.inp /\ d.wc = n0.wc
      /\ d.context = n0.context /\ d.client = n0.client /\ d.tunnel = n0.tunnel
      /\ d.listed = n0.listed /\ d.fault = n0.fault
  BY <1>6, <1>7 DEF Alike
<1>9. Control(d)
  BY <1>0, <1>8 DEF Control, Ways, NoAnswerWaits, NoRequestWaits
<1>10. ASSUME NEW run, Backed(n0, run) PROVE Backed(d, run)
  <2> SUFFICES ASSUME BothAreUp(d), NEW x \in Relay!Sides, ~d.reading[x]
               PROVE  WillResume(d, Relay!Other(x), run)
    BY DEF Backed
  <2>1. WillResume(n0, Relay!Other(x), run)
    BY <1>8, <1>10 DEF Backed, BothAreUp
  <2>2. Relay!Other(x) \in Relay!Sides
    BY DEF Relay!Other, Relay!Sides
  <2>3. CASE Relay!Other(x) = s
    BY <1>0, <1>5, <1>7, <1>8, <2>1, <2>3 DEF WillResume
  <2>4. CASE Relay!Other(x) # s
    BY <1>5, <1>7, <1>8, <2>1, <2>2, <2>4 DEF WillResume
  <2> QED BY <2>3, <2>4
<1>11. Flows(n0, v8, d, v8')
  <2> SUFFICES ASSUME NEW x \in Relay!Sides
               PROVE  IF v7[Relay!Other(x)] # "rst" THEN Line(d, v8, x) = Line(n0, v8, x)
                      ELSE d.got[Relay!Other(x)] = n0.got[Relay!Other(x)]
    BY <1>1 DEF Flows
  <2>1. CASE Relay!Other(x) # s
    <3>1. Relay!Other(x) \in Relay!Sides
      BY DEF Relay!Other, Relay!Sides
    <3> QED BY <1>5, <1>7, <1>8, <2>1, <3>1 DEF Line
  <2>2. CASE Relay!Other(x) = s
    <3>1. PICK q, pa, pz : q = P(n0.got[s]) /\ pa = P(a) /\ pz = P(z)
      OBVIOUS
    <3>2. (q \o pa) \o pz = q \o (pa \o pz)
      BY <1>4, <3>1, JoinsAgree
    <3>3. Line(d, v8, x) = (((q \o pa) \o pz) \o P(n0.inp[x])) \o P(v8[x])
      BY <1>4, <1>5, <1>7, <1>8, <2>2, <3>1 DEF Line
    <3>4. Line(n0, v8, x) = ((q \o (pa \o pz)) \o P(n0.inp[x])) \o P(v8[x])
      BY <1>0, <1>4, <2>2, <3>1 DEF Line
    <3> QED BY <1>1, <2>2, <3>2, <3>3, <3>4
  <2> QED BY <2>1, <2>2
<1>12. Backed(d, v16') /\ v8' \in [Relay!Sides -> Relay!Bytes] /\ v16' \in Seq(Kinds)
  BY <1>1, <1>10 DEF TunInv
<1> QED BY <1>1, <1>7, <1>9, <1>11, <1>12, Becomes DEF n0

\* The functors of a round are those that were queued.
LEMMA StartStep ==
  ASSUME TunInv, Relay!StartFunctors
  PROVE  TunInv'
<1> DEFINE c == Relay!Now
           d == Relay!Now'
<1>1. /\ c \in Conns /\ Control(c) /\ Backed(c, v16) /\ Carried(c, v8)
      /\ v16 = << >> /\ v16' = c.pending /\ v7' = v7 /\ v8' = v8 /\ v10' = v10
  BY DEF TunInv, Relay!StartFunctors, Relay!wire, Relay!Now
<1>2. /\ d.state = c.state /\ d.reading = c.reading /\ d.inp = c.inp /\ d.out = c.out
      /\ d.wc = c.wc /\ d.got = c.got /\ d.context = c.context /\ d.client = c.client
      /\ d.listed = c.listed /\ d.fault = c.fault /\ d.pending = << >>
      /\ d.tunnel = v13'
  BY DEF Relay!StartFunctors, Relay!conns, Relay!wire, Relay!Now
<1>10. \/ v13' = c.tunnel
       \/ c.tunnel = "torn" /\ v13' = "spent"
  BY DEF Relay!StartFunctors, Relay!Now
<1>11. d = [state |-> c.state, reading |-> c.reading, inp |-> c.inp, out |-> c.out, wc |-> c.wc,
            got |-> c.got, context |-> c.context, client |-> c.client, tunnel |-> v13',
            listed |-> c.listed, pending |-> << >>, fault |-> c.fault]
  BY DEF Relay!StartFunctors, Relay!conns, Relay!wire, Relay!Now
<1> HIDE DEF c, d
<1>3. << >> \in Seq(Kinds) /\ Range(<< >>) = {} /\ c.pending \in Seq(Kinds)
  <2>1. c.pending \in Seq(Kinds)
    BY <1>1 DEF Conns
  <2>2. << >> \in Seq(Kinds)
    OBVIOUS
  <2> QED BY <2>1, <2>2, EmptyProperties
<1>4. d \in Conns
  <2>1. v13' \in {"none", "made", "torn", "spent"}
    BY <1>1, <1>10 DEF Conns
  <2> QED BY <1>1, <1>3, <1>11, <2>1 DEF Conns
<1>5. Control(d)
  BY <1>1, <1>2, <1>10 DEF Control, Ways, NoAnswerWaits, NoRequestWaits
<1>6. Backed(d, c.pending)
  BY <1>1, <1>2, <1>3 DEF Backed, BothAreUp, WillResume
<1>7. Carried(d, v8)
  BY <1>1, <1>2 DEF Carried, Line
<1>8. Carried(Relay!Now, v8)'
  BY <1>1, <1>7 DEF d, Carried
<1>9. Backed(Relay!Now, v16)'
  BY <1>1, <1>6 DEF d
<1> QED BY <1>1, <1>3, <1>4, <1>5, <1>8, <1>9 DEF d, TunInv

LEMMA RunStep ==
  ASSUME TunInv, Relay!RunFunctor
  PROVE  TunInv'
<1> DEFINE n0 == Relay!Now
           f  == Head(v16)
           c  == IF ~Relay!Alive THEN n0
                 ELSE IF f[1] = "hw" THEN Relay!OnHighWaterMark(n0, f[2])
                 ELSE Relay!OnWriteComplete(n0, f[2])
           t  == IF c.tunnel = "torn" /\ Len(v16) = 1 THEN "spent" ELSE c.tunnel
           d  == [c EXCEPT !.tunnel = t]
<1>1. /\ n0 \in Conns /\ Control(n0) /\ Backed(n0, v16) /\ n0.fault = "no"
      /\ v16 \in Seq(Kinds) /\ v16 # << >>
      /\ v16' = Tail(v16) /\ v8' = v8 /\ Relay!Become(d)
  BY NowIs DEF TunInv, Relay!RunFunctor
<1>2. /\ f \in Kinds /\ Tail(v16) \in Seq(Kinds)
      /\ Range(v16) = {f} \cup Range(Tail(v16))
  BY <1>1, TailMembers
<1> HIDE DEF f
<1>3. f[1] \in {"hw", "wc"} /\ f[2] \in Relay!Sides /\ f = << f[1], f[2] >>
  BY <1>2 DEF Kinds
<1>4. ~Relay!Alive => ~BothAreUp(n0)
  <2>1. n0.tunnel = v13 /\ n0.listed = v14
    BY NowIs
  <2> QED BY <1>1, <2>1 DEF Relay!Alive, Control, Ways, BothAreUp
<1>5. Aside(n0, c) /\ Backed(c, Tail(v16))
  <2>1. CASE ~Relay!Alive
    <3>1. c = n0
      BY <2>1
    <3> HIDE DEF c
    <3> QED BY <1>1, <1>4, <2>1, <3>1 DEF Aside, Backed
  <2>2. CASE Relay!Alive /\ f[1] = "hw"
    <3>1. c = Relay!OnHighWaterMark(n0, f[2])
      BY <2>2
    <3> HIDE DEF c, n0
    <3>2. Aside(n0, c) /\ \A run : Backed(n0, run) => Backed(c, run)
      BY <1>1, <1>3, <3>1, HighWaterMark
    <3>3. Backed(c, v16)
      BY <1>1, <3>2
    <3>5. \A o : << "wc", o >> \in Range(v16) => << "wc", o >> \in Range(Tail(v16))
      BY <1>2, <1>3, <2>2
    <3> QED BY <3>2, <3>3, <3>5 DEF Backed, WillResume
  <2>3. CASE Relay!Alive /\ f[1] = "wc"
    <3>1. c = Relay!OnWriteComplete(n0, f[2])
      BY <2>3
    <3>2. Range(v16) \subseteq {<< "wc", f[2] >>} \cup Range(Tail(v16))
      BY <1>2, <1>3, <2>3
    <3> HIDE DEF c, n0
    <3> QED BY <1>1, <1>3, <3>1, <3>2, WriteComplete
  <2> QED BY <1>3, <2>1, <2>2, <2>3
<1> HIDE DEF c
<1>6. t \in {"none", "made", "torn", "spent"} /\ (t = "none" <=> c.tunnel = "none")
  BY <1>5 DEF Aside, Conns
<1> HIDE DEF t
<1>7. /\ d \in Conns /\ d.state = c.state /\ d.inp = c.inp /\ d.out = c.out /\ d.got = c.got
      /\ d.context = c.context /\ d.client = c.client /\ d.listed = c.listed /\ d.tunnel = t
      /\ d.reading = c.reading /\ d.wc = c.wc /\ d.pending = c.pending /\ d.fault = c.fault
  BY <1>5, <1>6 DEF Aside, Conns
<1> HIDE DEF d, n0
<1>8. Control(d)
  BY <1>1, <1>5, <1>6, <1>7 DEF Aside, Control, Ways, NoAnswerWaits, NoRequestWaits
<1>9. Backed(d, v16')
  BY <1>1, <1>5, <1>7 DEF Backed, WillResume, BothAreUp
<1>10. Passes(n0, d)
  BY <1>1, <1>5, <1>7, SameBuffers DEF Aside
<1>11. Flows(n0, v8, d, v8') /\ v8' \in [Relay!Sides -> Relay!Bytes] /\ v16' \in Seq(Kinds)
  BY <1>1, <1>2, <1>10 DEF Passes, TunInv
<1> QED BY <1>1, <1>7, <1>8, <1>9, <1>11, Becomes DEF n0

LEMMA OneNumber ==
  \A m \in Nat : m + 1 <= MaxSent["server"] + MaxSent["client"] =>
      << m + 1 >> \in Seq(Byte) /\ P(<< m + 1 >>) = << m + 1 >>
<1> SUFFICES ASSUME NEW m \in Nat, m + 1 <= MaxSent["server"] + MaxSent["client"]
             PROVE  << m + 1 >> \in Seq(Byte) /\ P(<< m + 1 >>) = << m + 1 >>
  OBVIOUS
<1>1. MaxSent["server"] \in Nat /\ MaxSent["client"] \in Nat
  BY PartsAssumption DEF Relay!TunnelAssumption
<1>2. m + 1 \in Byte
  BY <1>1 DEF Byte
<1>3. \A s, S : Relay!Keep(s, S) = Keep(s, S)
  BY DEF Relay!Keep, Keep, Relay!Kept, Kept
<1>4. Keep(<< m + 1 >>, Nat \ {0}) = << m + 1 >>
  BY KeepOne
<1> QED BY <1>2, <1>3, <1>4 DEF P, Relay!Payload

LEMMA PeerSendsStep ==
  ASSUME TunInv, NEW s \in Relay!Sides, Relay!PeerSends(s)
  PROVE  TunInv'
<1> DEFINE n0 == Relay!Now
           o  == Relay!Other(s)
           m  == v10[s]
<1>1. /\ n0 \in Conns /\ v8 \in [Relay!Sides -> Relay!Bytes] /\ v10 \in [Relay!Sides -> Nat]
      /\ Carried(n0, v8) /\ Relay!Bytes = Seq(Byte)
      /\ \A x \in Relay!Sides : v10[x] <= MaxSent[x]
  BY PayloadOf DEF TunInv
<1>2. /\ m < MaxSent[s] /\ v10' = [v10 EXCEPT ![s] = m + 1]
      /\ v8' = [v8 EXCEPT ![s] = Append(v8[s], m + 1)] /\ v7' = v7 /\ v16' = v16
      /\ Relay!Now' = n0
  BY DEF Relay!PeerSends, Relay!conns, Relay!tun, Relay!loop, Relay!Now
<1> HIDE DEF n0
<1>3. m \in Nat /\ m + 1 <= MaxSent[s] /\ m + 1 <= MaxSent["server"] + MaxSent["client"]
  <2>1. MaxSent["server"] \in Nat /\ MaxSent["client"] \in Nat
    BY PartsAssumption DEF Relay!TunnelAssumption
  <2> QED BY <1>1, <1>2, <2>1 DEF Relay!Sides
<1> HIDE DEF m
<1>4. << m + 1 >> \in Seq(Byte) /\ P(<< m + 1 >>) = << m + 1 >>
  BY <1>3, OneNumber
<1>5. v8[s] \in Seq(Byte) /\ Append(v8[s], m + 1) = v8[s] \o << m + 1 >>
      /\ v8[s] \o << m + 1 >> \in Seq(Byte)
      /\ P(v8[s] \o << m + 1 >>) = P(v8[s]) \o << m + 1 >>
  <2>1. v8[s] \in Seq(Byte)
    BY <1>1
  <2>2. v8[s] \o << m + 1 >> \in Seq(Byte) /\ P(v8[s] \o << m + 1 >>) = P(v8[s]) \o << m + 1 >>
    BY <1>4, <2>1, PayloadJoins
  <2>3. m + 1 \in Byte
    BY <1>4
  <2>4. Append(v8[s], m + 1) = v8[s] \o << m + 1 >>
    BY <2>1, <2>3, AppendIsConcat
  <2> QED BY <2>1, <2>2, <2>4
<1>6. /\ v8' \in [Relay!Sides -> Relay!Bytes] /\ v8'[s] = v8[s] \o << m + 1 >>
      /\ v10' \in [Relay!Sides -> Nat] /\ v10'[s] = m + 1
      /\ \A x \in Relay!Sides : x # s => v8'[x] = v8[x] /\ v10'[x] = v10[x]
  <2>1. PICK b : b = v8[s] \o << m + 1 >>
    OBVIOUS
  <2>2. b \in Relay!Bytes /\ v8' = [v8 EXCEPT ![s] = b]
    BY <1>1, <1>2, <1>5, <2>1
  <2>3. /\ v8' \in [Relay!Sides -> Relay!Bytes] /\ v8'[s] = b
        /\ \A x \in Relay!Sides : x # s => v8'[x] = v8[x]
    BY <1>1, <2>2
  <2>4. /\ v10' \in [Relay!Sides -> Nat] /\ v10'[s] = m + 1
        /\ \A x \in Relay!Sides : x # s => v10'[x] = v10[x]
    BY <1>1, <1>2, <1>3
  <2> QED BY <2>1, <2>3, <2>4
<1>7. ASSUME NEW x \in Relay!Sides
      PROVE  IF v7[Relay!Other(x)] # "rst" THEN Line(n0, v8', x) = Numbered(v10'[x])
             ELSE Relay!IsPrefix(P(n0.got[Relay!Other(x)]), Numbered(v10'[x]))
  <2>1. CASE x # s
    BY <1>1, <1>6, <2>1 DEF Carried, Line
  <2>2. CASE x = s
    <3>1. o \in Relay!Sides
      BY DEF Relay!Other, Relay!Sides
    <3>2. n0.got[o] \in Seq(Byte) /\ n0.out[o] \in Seq(Byte) /\ n0.inp[s] \in Seq(Byte)
      BY <1>1, <3>1 DEF Conns
    <3>3. CASE v7[o] # "rst"
      <4>1. Line(n0, v8, s) = Numbered(m)
        BY <1>1, <3>3 DEF Carried, m
      <4>2. PICK u : u = P(n0.got[o]) \o P(n0.out[o]) \o P(n0.inp[s])
        OBVIOUS
      <4>3. P(n0.got[o]) \in Seq(Byte) /\ P(n0.out[o]) \in Seq(Byte) /\ P(n0.inp[s]) \in Seq(Byte)
            /\ P(v8[s]) \in Seq(Byte)
        BY <1>5, <3>2, PayloadJoins
      <4>4. u \in Seq(Byte)
        <5>1. P(n0.got[o]) \o P(n0.out[o]) \in Seq(Byte)
          BY <4>3, PayloadJoins
        <5> QED BY <4>2, <4>3, <5>1, PayloadJoins
      <4>5. PICK q : q = P(v8[s])
        OBVIOUS
      <4>6. (u \o q) \o << m + 1 >> = u \o (q \o << m + 1 >>)
        BY <1>4, <4>3, <4>4, <4>5, JoinsAgree
      <4>7. u \o q = Numbered(m)
        BY <4>1, <4>2, <4>5 DEF Line
      <4>8. Line(n0, v8', s) = u \o (q \o << m + 1 >>)
        BY <1>5, <1>6, <4>2, <4>5 DEF Line
      <4>9. Numbered(m + 1) = Numbered(m) \o << m + 1 >>
        BY <1>3, OneMoreNumber
      <4> QED BY <1>6, <2>2, <3>3, <4>6, <4>7, <4>8, <4>9
    <3>4. CASE v7[o] = "rst"
      <4>1. Relay!IsPrefix(P(n0.got[o]), Numbered(m))
        BY <1>1, <3>4 DEF Carried, m
      <4>2. P(n0.got[o]) \in Seq(Int)
        <5>1. P(n0.got[o]) \in Seq(Byte)
          BY <3>2, PayloadJoins
        <5>2. \A y \in Byte : y \in Int
          BY DEF Byte
        <5>3. \A b \in Seq(Byte) : b \in Seq(Int)
          BY <5>2
        <5> QED BY <5>1, <5>3
      <4>3. Relay!IsPrefix(P(n0.got[o]), Numbered(m + 1))
        BY <1>3, <4>1, <4>2, OneMoreNumber
      <4> QED BY <1>6, <2>2, <3>4, <4>3
    <3> QED BY <2>2, <3>3, <3>4
  <2> QED BY <2>1, <2>2
<1>8. Carried(Relay!Now, v8)'
  BY <1>2, <1>7 DEF Carried
<1>9. \A x \in Relay!Sides : v10'[x] <= MaxSent[x]
  BY <1>1, <1>3, <1>6
<1>10. Control(Relay!Now)' /\ Backed(Relay!Now, v16)'
  BY <1>2 DEF TunInv, n0
<1> QED BY <1>1, <1>2, <1>6, <1>8, <1>9, <1>10 DEF TunInv

LEMMA PeerLeavesStep ==
  ASSUME TunInv, NEW s \in Relay!Sides, NEW how \in {"fin", "rst"}, Relay!PeerLeaves(s, how)
  PROVE  TunInv'
<1> DEFINE n0 == Relay!Now
<1>1. /\ n0 \in Conns /\ v7 \in [Relay!Sides -> {"open", "fin", "rst"}]
      /\ v8 \in [Relay!Sides -> Relay!Bytes] /\ Carried(n0, v8) /\ Relay!Bytes = Seq(Byte)
  BY PayloadOf DEF TunInv
<1>2. /\ v7[s] # "rst" /\ v7' = [v7 EXCEPT ![s] = how] /\ v8' = v8 /\ v10' = v10
      /\ v16' = v16
      /\ Relay!Now' = n0
  BY DEF Relay!PeerLeaves, Relay!conns, Relay!tun, Relay!loop, Relay!Now
<1> HIDE DEF n0
<1>3. /\ v7' \in [Relay!Sides -> {"open", "fin", "rst"}]
      /\ v7'[s] = how /\ \A x \in Relay!Sides : x # s => v7'[x] = v7[x]
  BY <1>1, <1>2
<1>4. ASSUME NEW x \in Relay!Sides
      PROVE  IF v7'[Relay!Other(x)] # "rst" THEN Line(n0, v8, x) = Numbered(v10[x])
             ELSE Relay!IsPrefix(P(n0.got[Relay!Other(x)]), Numbered(v10[x]))
  <2>1. PICK o : o = Relay!Other(x) /\ o \in Relay!Sides
    BY DEF Relay!Other, Relay!Sides
  <2>2. CASE o # s
    BY <1>1, <1>3, <2>1, <2>2 DEF Carried
  <2>3. CASE o = s
    <3>1. Line(n0, v8, x) = Numbered(v10[x])
      BY <1>1, <1>2, <2>1, <2>3 DEF Carried
    <3>2. n0.got[o] \in Seq(Byte) /\ n0.out[o] \in Seq(Byte) /\ n0.inp[x] \in Seq(Byte)
          /\ v8[x] \in Seq(Byte)
      BY <1>1, <2>1 DEF Conns
    <3>3. PICK g, u, i, r : g = P(n0.got[o]) /\ u = P(n0.out[o]) /\ i = P(n0.inp[x]) /\ r = P(v8[x])
      OBVIOUS
    <3>4. g \in Seq(Byte) /\ u \in Seq(Byte) /\ i \in Seq(Byte) /\ r \in Seq(Byte)
      BY <3>2, <3>3, PayloadJoins
    <3>5. ((g \o u) \o i) \o r = g \o ((u \o i) \o r) /\ (u \o i) \o r \in Seq(Byte)
      <4>1. u \o i \in Seq(Byte) /\ g \o u \in Seq(Byte)
        BY <3>4, PayloadJoins
      <4>2. PICK w : w = u \o i
        OBVIOUS
      <4>3. (g \o u) \o i = g \o w
        BY <3>4, <4>2, JoinsAgree
      <4>4. (g \o w) \o r = g \o (w \o r)
        BY <3>4, <4>1, <4>2, JoinsAgree
      <4>5. w \o r \in Seq(Byte)
        BY <3>4, <4>1, <4>2, PayloadJoins
      <4> QED BY <4>2, <4>3, <4>4, <4>5
    <3>6. Line(n0, v8, x) = ((g \o u) \o i) \o r
      BY <2>1, <3>3 DEF Line
    <3>7. Relay!IsPrefix(g, Numbered(v10[x]))
      BY <3>1, <3>4, <3>5, <3>6, BeginningIsPrefix
    <3> QED BY <2>1, <3>1, <3>3, <3>7
  <2> QED BY <2>2, <2>3
<1>5. Carried(Relay!Now, v8)'
  BY <1>2, <1>4 DEF Carried
<1>6. Control(Relay!Now)' /\ Backed(Relay!Now, v16)'
  BY <1>2 DEF TunInv, n0
<1> QED BY <1>2, <1>3, <1>5, <1>6 DEF TunInv, n0

LEMMA TunInvInit == ASSUME Relay!Init PROVE TunInv
<1> DEFINE c == Relay!Now
           nothing == [x \in Relay!Sides |-> << >>]
<1>1. /\ << >> \in Relay!Bytes /\ Relay!Request \in Relay!Bytes /\ P(<< >>) = << >>
      /\ P(Relay!Request) = << >> /\ \A a \in Relay!Bytes : a \o << >> = a
  BY PayloadOf
<1>2. /\ c.state = [x \in Relay!Sides |-> "none"]
      /\ c.reading = [x \in Relay!Sides |-> FALSE]
      /\ c.inp = nothing /\ c.out = nothing /\ c.got = nothing
      /\ c.wc = [x \in Relay!Sides |-> FALSE] /\ c.context = FALSE /\ c.client = FALSE
      /\ c.tunnel = "none" /\ c.listed = FALSE /\ c.pending = << >> /\ c.fault = "no"
  BY NowIs DEF Relay!Init
<1>3. /\ c = [state |-> c.state, reading |-> c.reading, inp |-> c.inp, out |-> c.out, wc |-> c.wc,
             got |-> c.got, context |-> c.context, client |-> c.client, tunnel |-> c.tunnel,
             listed |-> c.listed, pending |-> c.pending, fault |-> c.fault]
  BY DEF Relay!Now
<1>4. /\ v7 = [x \in Relay!Sides |-> "open"] /\ v10 = [x \in Relay!Sides |-> 0]
      /\ v16 = << >>
      /\ v8 = [x \in Relay!Sides |->
                   IF x = "server" /\ v1 = "socket4a" THEN Relay!Request ELSE << >>]
  BY DEF Relay!Init
<1> HIDE DEF c
<1>5. v8 \in [Relay!Sides -> Relay!Bytes] /\ \A x \in Relay!Sides : P(v8[x]) = << >>
  BY <1>1, <1>4
<1>6. nothing \in [Relay!Sides -> Relay!Bytes] /\ \A x \in Relay!Sides : nothing[x] = << >>
  BY <1>1
<1> HIDE DEF nothing
<1>7. c \in Conns
  <2>1. << >> \in Seq(Kinds)
    OBVIOUS
  <2> QED BY <1>2, <1>3, <1>6, <2>1 DEF Conns
<1>8. Control(c) /\ Backed(c, v16)
  <2>1. "server" \in Relay!Sides /\ "client" \in Relay!Sides
    BY DEF Relay!Sides
  <2> QED BY <1>2, <1>6, <2>1 DEF Control, Ways, NoAnswerWaits, NoRequestWaits, Backed, BothAreUp
<1>9. Carried(c, v8)
  <2> SUFFICES ASSUME NEW x \in Relay!Sides
               PROVE  v7[Relay!Other(x)] # "rst" /\ Line(c, v8, x) = Numbered(v10[x])
    BY DEF Carried
  <2>1. Relay!Other(x) \in Relay!Sides
    BY DEF Relay!Other, Relay!Sides
  <2>2. v7[Relay!Other(x)] # "rst" /\ v10[x] = 0
    BY <1>4, <2>1
  <2>3. Line(c, v8, x) = << >>
    BY <1>1, <1>2, <1>5, <1>6, <2>1 DEF Line
  <2>4. Numbered(0) = << >>
    <3>1. Numbered(0) \in Seq(Nat) /\ Len(Numbered(0)) = 0
      BY DEF Numbered
    <3> QED BY <3>1
  <2> QED BY <2>2, <2>3, <2>4
<1>10. /\ v7 \in [Relay!Sides -> {"open", "fin", "rst"}]
       /\ v10 \in [Relay!Sides -> Nat] /\ \A x \in Relay!Sides : v10[x] <= MaxSent[x]
       /\ v16 \in Seq(Kinds)
  <2>1. \A x \in Relay!Sides : MaxSent[x] \in Nat
    BY PartsAssumption DEF Relay!TunnelAssumption, Relay!Sides
  <2>2. \A x \in Relay!Sides : v10[x] = 0
    BY <1>4
  <2>3. \A x \in Relay!Sides : v10[x] <= MaxSent[x]
    BY <2>1, <2>2
  <2> QED BY <1>4, <2>3
<1> QED BY <1>5, <1>7, <1>8, <1>9, <1>10 DEF TunInv, c

LEMMA TunInvNext == ASSUME TunInv, [Relay!Next]_(Relay!vars) PROVE TunInv'
<1>1. CASE Relay!OnServerUp
  BY <1>1, ServerUpStep
<1>2. CASE Relay!StartFunctors
  BY <1>2, StartStep
<1>3. CASE Relay!RunFunctor
  BY <1>3, RunStep
<1>4. ASSUME NEW k, Relay!Connected(k) PROVE TunInv'
  BY <1>4, ConnectedStep
<1>5. ASSUME NEW s \in Relay!Sides, Relay!PeerSends(s) PROVE TunInv'
  BY <1>5, PeerSendsStep
<1>6. ASSUME NEW s \in Relay!Sides, Relay!HandleClose(s) PROVE TunInv'
  BY <1>6, CloseStep
<1>7. ASSUME NEW s \in Relay!Sides, NEW how \in {"fin", "rst"}, Relay!PeerLeaves(s, how)
      PROVE  TunInv'
  BY <1>7, PeerLeavesStep
<1>8. ASSUME NEW s \in Relay!Sides, NEW n, NEW k, NEW ok \in BOOLEAN, Relay!HandleRead(s, n, k, ok)
      PROVE  TunInv'
  BY <1>8, ReadStep
<1>9. ASSUME NEW s \in Relay!Sides, NEW n, Relay!HandleWrite(s, n) PROVE TunInv'
  BY <1>9, WriteStep
<1>10. CASE UNCHANGED Relay!vars
  <2>1. /\ Relay!Now' = Relay!Now /\ v7' = v7 /\ v8' = v8 /\ v10' = v10 /\ v16' = v16
    BY <1>10 DEF Relay!vars, Relay!conns, Relay!wire, Relay!tun, Relay!loop, Relay!Now
  <2>2. Carried(Relay!Now, v8)' /\ Control(Relay!Now)' /\ Backed(Relay!Now, v16)'
    BY <2>1 DEF TunInv, Carried
  <2> QED BY <2>1, <2>2 DEF TunInv
<1> QED BY <1>1, <1>2, <1>3, <1>4, <1>5, <1>6, <1>7, <1>8, <1>9, <1>10 DEF Relay!Next

LEMMA TunInvTells == ASSUME TunInv PROVE Relay!InOrder /\ Relay!Resumes
<1> DEFINE c == Relay!Now
<1>1. /\ c \in Conns /\ Control(c) /\ Backed(c, v16) /\ Carried(c, v8)
      /\ v8 \in [Relay!Sides -> Relay!Bytes] /\ v16 \in Seq(Kinds)
      /\ Relay!Bytes = Seq(Byte)
  BY PayloadOf DEF TunInv
<1>2. /\ c.state = v2 /\ c.reading = v3 /\ c.inp = v4 /\ c.out = v5 /\ c.wc = v6
      /\ c.got = v9
      /\ c.pending = v15 /\ c.fault = v18
  BY NowIs
<1> HIDE DEF c
<1>3. Relay!BothUp => BothAreUp(c)
  BY <1>2 DEF Relay!BothUp, BothAreUp, Relay!Sides
<1>4. ASSUME NEW s \in Relay!Sides
      PROVE  LET o == Relay!Other(s)
             IN  /\ Relay!IsPrefix(P(v9[o]), Numbered(v10[s]))
                 /\ Relay!BothUp /\ v7[o] # "rst" =>
                        P(v9[o] \o v5[o] \o v8[s]) = Numbered(v10[s]) /\ v4[s] = << >>
  <2>1. PICK o : o = Relay!Other(s) /\ o \in Relay!Sides
    BY DEF Relay!Other, Relay!Sides
  <2>2. PICK bg, bo, bi, br : bg = v9[o] /\ bo = v5[o] /\ bi = v4[s] /\ br = v8[s]
    OBVIOUS
  <2>3. bg \in Seq(Byte) /\ bo \in Seq(Byte) /\ bi \in Seq(Byte) /\ br \in Seq(Byte)
    BY <1>1, <1>2, <2>1, <2>2 DEF Conns
  <2>4. PICK g, u, i, r : g = P(bg) /\ u = P(bo) /\ i = P(bi) /\ r = P(br)
    OBVIOUS
  <2>5. g \in Seq(Byte) /\ u \in Seq(Byte) /\ i \in Seq(Byte) /\ r \in Seq(Byte)
    BY <2>3, <2>4, PayloadJoins
  <2>6. v7[o] # "rst" => ((g \o u) \o i) \o r = Numbered(v10[s])
    BY <1>1, <1>2, <2>1, <2>2, <2>4 DEF Carried, Line
  <2>7. Relay!IsPrefix(g, Numbered(v10[s]))
    <3>1. CASE v7[o] = "rst"
      BY <1>1, <1>2, <2>1, <2>2, <2>4, <3>1 DEF Carried
    <3>2. CASE v7[o] # "rst"
      <4>1. u \o i \in Seq(Byte)
        BY <2>5, PayloadJoins
      <4>2. PICK w : w = u \o i
        OBVIOUS
      <4>3. (g \o u) \o i = g \o w
        BY <2>5, <4>2, JoinsAgree
      <4>4. (g \o w) \o r = g \o (w \o r)
        BY <2>5, <4>1, <4>2, JoinsAgree
      <4>5. w \o r \in Seq(Byte)
        BY <2>5, <4>1, <4>2, PayloadJoins
      <4>6. Relay!IsPrefix(g, g \o (w \o r))
        BY <2>5, <4>5, BeginningIsPrefix
      <4> QED BY <2>6, <3>2, <4>3, <4>4, <4>6
    <3> QED BY <3>1, <3>2
  <2>8. ASSUME Relay!BothUp, v7[o] # "rst"
        PROVE  P((bg \o bo) \o br) = Numbered(v10[s]) /\ bi = << >>
    <3>1. bi = << >>
      BY <1>1, <1>2, <1>3, <2>2, <2>8
         DEF Control, NoAnswerWaits, NoRequestWaits, BothAreUp, Relay!Sides
    <3>2. i = << >>
      BY <2>4, <3>1, NothingJoins
    <3>3. g \o u \in Seq(Byte)
      BY <2>5, PayloadJoins
    <3>4. (g \o u) \o i = g \o u
      BY <3>2, <3>3, NothingJoins
    <3>5. bg \o bo \in Seq(Byte) /\ P(bg \o bo) = g \o u
      BY <2>3, <2>4, PayloadJoins
    <3>6. P((bg \o bo) \o br) = P(bg \o bo) \o r
      BY <2>3, <2>4, <3>5, PayloadJoins
    <3> QED BY <2>6, <2>8, <3>1, <3>4, <3>5, <3>6
  <2> QED BY <2>1, <2>2, <2>4, <2>7, <2>8
<1>5. Relay!InOrder
  BY <1>4 DEF Relay!InOrder, P, Numbered
<1>6. Relay!Resumes
  <2>1. Relay!ToSet(v15 \o v16) = Range(v15) \cup Range(v16)
    <3>1. v15 \in Seq(Kinds) /\ v16 \in Seq(Kinds)
      BY <1>1, <1>2 DEF Conns
    <3>2. v15 \o v16 \in Seq(Kinds) /\ Range(v15 \o v16) = Range(v15) \cup Range(v16)
      BY <3>1, ConcatMembers
    <3>3. \A q \in Seq(Kinds) : Relay!ToSet(q) = Range(q)
      BY DEF Relay!ToSet, Range
    <3> QED BY <3>2, <3>3
  <2>2. ASSUME Relay!BothUp, NEW s \in Relay!Sides, ~v3[s]
        PROVE  /\ v6[Relay!Other(s)]
               /\ \/ v5[Relay!Other(s)] # << >>
                  \/ << "wc", Relay!Other(s) >> \in Relay!ToSet(v15 \o v16)
    BY <1>1, <1>2, <1>3, <2>1, <2>2 DEF Backed, WillResume
  <2> QED BY <2>2 DEF Relay!Resumes
<1> QED BY <1>5, <1>6

\* In every tunnel the payload arrives in order and nothing of it is lost while both
\* connections stand, and a side that is not read will be read again.
THEOREM TunnelSound == Relay!Spec => [](Relay!InOrder /\ Relay!Resumes)
<1>1. Relay!Init => TunInv
  BY TunInvInit
<1>2. TunInv /\ [Relay!Next]_(Relay!vars) => TunInv'
  BY TunInvNext
<1>3. TunInv => Relay!InOrder /\ Relay!Resumes
  BY TunInvTells
<1> QED BY <1>1, <1>2, <1>3, PTL DEF Relay!Spec

-----------------------------------------------------------------------------
(* AeEcho.  v1 peer, v2 rx, v3 sock, v4 interest, v5 mask, v6 data,         *)
(* v7 maxfd, v8 buf, v9 fired, v10 turn, v11 wrote, v12 echoed, v13 killed. *)

EchoTexts == Seq(EchoClients \X Nat)

\* Lines of one client, in the order written, before others of it, none newer than n.
OwnLines(q, c)    == q \in EchoTexts /\ \A j \in DOMAIN q : q[j][1] = c
Rising(q)    == \A i, j \in DOMAIN q : i < j => q[i][2] < q[j][2]
Before(p, q) == \A i \in DOMAIN p, j \in DOMAIN q : p[i][2] < q[j][2]
AtMost(q, n) == \A j \in DOMAIN q : q[j][2] <= n
GoodLines(q, c, n) == OwnLines(q, c) /\ Rising(q) /\ AtMost(q, n)

LEMMA LinesCut ==
  ASSUME NEW c \in EchoClients, NEW m \in Nat, NEW q, GoodLines(q, c, m), NEW n \in 1 .. Len(q)
  PROVE  LET a == SubSeq(q, 1, n)
             b == SubSeq(q, n + 1, Len(q))
         IN  /\ GoodLines(a, c, m) /\ GoodLines(b, c, m) /\ Before(a, b)
             /\ \A p : Before(p, q) => Before(p, a) /\ Before(p, b)
<1>1. /\ q \in EchoTexts /\ Len(q) \in Nat /\ DOMAIN q = 1 .. Len(q)
      /\ \A j \in DOMAIN q : q[j][1] = c /\ q[j][2] \in Nat /\ q[j][2] <= m
      /\ \A i, j \in DOMAIN q : i < j => q[i][2] < q[j][2]
  BY DEF GoodLines, OwnLines, Rising, AtMost, EchoTexts
<1>2. PICK a, b : a = SubSeq(q, 1, n) /\ b = SubSeq(q, n + 1, Len(q))
  OBVIOUS
<1>3. /\ a \in EchoTexts /\ Len(a) = n /\ DOMAIN a = 1 .. n /\ \A i \in 1 .. n : a[i] = q[i]
  BY <1>1, <1>2 DEF EchoTexts
<1>4. /\ b \in EchoTexts /\ DOMAIN b = 1 .. Len(q) - n
      /\ \A i \in 1 .. Len(q) - n : b[i] = q[n + i]
  <2>1. b \in EchoTexts
    BY <1>1, <1>2 DEF EchoTexts
  <2>2. Len(b) = Len(q) - n /\ \A i \in 1 .. Len(q) - n : b[i] = q[n + i]
    <3>1. \A i \in n + 1 .. Len(q) : q[i] \in EchoClients \X Nat
      BY <1>1 DEF EchoTexts
    <3>2. PICK k \in Int : k = n + 1
      OBVIOUS
    <3>3. Len(q) \in Int
      BY <1>1
    <3>4. /\ Len(b) = IF k <= Len(q) THEN Len(q) - k + 1 ELSE 0
          /\ \A i \in 1 .. Len(q) - k + 1 : b[i] = q[k + i - 1]
      <4>1. \A i \in k .. Len(q) : q[i] \in EchoClients \X Nat
        BY <3>1, <3>2
      <4>2. b = SubSeq(q, k, Len(q))
        BY <1>2, <3>2
      <4>3. /\ Len(SubSeq(q, k, Len(q))) = IF k <= Len(q) THEN Len(q) - k + 1 ELSE 0
            /\ \A i \in 1 .. Len(q) - k + 1 : SubSeq(q, k, Len(q))[i] = q[k + i - 1]
        BY <3>3, <4>1, SubSeqProperties
      <4> QED BY <4>2, <4>3
    <3>5. Len(q) \in Nat /\ n <= Len(q) /\ n \in Nat
      BY <1>1
    <3>6. Len(q) - k + 1 = Len(q) - n /\ \A i \in Int : k + i - 1 = n + i
      BY <3>2, <3>5
    <3>7. Len(b) = Len(q) - n
      BY <3>2, <3>4, <3>5
    <3>8. \A i \in 1 .. Len(q) - n : i \in Int
      BY <3>5
    <3> QED BY <3>4, <3>6, <3>7, <3>8
  <2> QED BY <2>1, <2>2 DEF EchoTexts
<1>5. GoodLines(a, c, m)
  BY <1>1, <1>3 DEF GoodLines, OwnLines, Rising, AtMost
<1>6. GoodLines(b, c, m)
  <2>1. \A i \in DOMAIN b : n + i \in DOMAIN q /\ b[i] = q[n + i]
    BY <1>1, <1>4
  <2>2. \A i, j \in DOMAIN b : i < j => n + i < n + j
    BY <1>1, <1>4
  <2> QED BY <1>1, <1>4, <2>1, <2>2 DEF GoodLines, OwnLines, Rising, AtMost
<1>7. Before(a, b)
  <2>1. \A i \in DOMAIN a, j \in DOMAIN b :
            i \in DOMAIN q /\ n + j \in DOMAIN q /\ i < n + j /\ a[i] = q[i] /\ b[j] = q[n + j]
    BY <1>1, <1>3, <1>4
  <2> QED BY <1>1, <2>1 DEF Before
<1>8. ASSUME NEW p, Before(p, q) PROVE Before(p, a) /\ Before(p, b)
  <2>1. \A i \in DOMAIN a : i \in DOMAIN q /\ a[i] = q[i]
    BY <1>1, <1>3
  <2>2. \A i \in DOMAIN b : n + i \in DOMAIN q /\ b[i] = q[n + i]
    BY <1>1, <1>4
  <2> QED BY <1>8, <2>1, <2>2 DEF Before
<1> QED BY <1>2, <1>5, <1>6, <1>7, <1>8

LEMMA LinesJoin ==
  ASSUME NEW c \in EchoClients, NEW m \in Nat, NEW p, NEW q,
         GoodLines(p, c, m), GoodLines(q, c, m), Before(p, q)
  PROVE  /\ GoodLines(p \o q, c, m)
         /\ \A r : Before(p, r) /\ Before(q, r) => Before(p \o q, r)
<1>1. /\ p \in EchoTexts /\ Len(p) \in Nat /\ DOMAIN p = 1 .. Len(p)
      /\ q \in EchoTexts /\ Len(q) \in Nat /\ DOMAIN q = 1 .. Len(q)
  BY DEF GoodLines, OwnLines, EchoTexts
<1>2. PICK r : r = p \o q
  OBVIOUS
<1>3. /\ r \in EchoTexts /\ DOMAIN r = 1 .. Len(p) + Len(q)
      /\ \A i \in 1 .. Len(p) + Len(q) : r[i] = IF i <= Len(p) THEN p[i] ELSE q[i - Len(p)]
  <2>1. r \in EchoTexts /\ Len(r) = Len(p) + Len(q)
    BY <1>1, <1>2 DEF EchoTexts
  <2>2. \A i \in 1 .. Len(p) + Len(q) : r[i] = IF i <= Len(p) THEN p[i] ELSE q[i - Len(p)]
    BY <1>1, <1>2
  <2> QED BY <2>1, <2>2 DEF EchoTexts
<1>4. \A i \in DOMAIN r : \/ i \in DOMAIN p /\ r[i] = p[i]
                          \/ i > Len(p) /\ i - Len(p) \in DOMAIN q /\ r[i] = q[i - Len(p)]
  BY <1>1, <1>3
<1>5. OwnLines(r, c) /\ AtMost(r, m)
  BY <1>3, <1>4 DEF GoodLines, OwnLines, AtMost
<1>6. Rising(r)
  <2> SUFFICES ASSUME NEW i \in DOMAIN r, NEW j \in DOMAIN r, i < j
               PROVE  r[i][2] < r[j][2]
    BY DEF Rising
  <2>0. i \in Nat /\ j \in Nat
    BY <1>1, <1>3
  <2>1. CASE j \in DOMAIN p /\ r[j] = p[j]
    <3>1. i \in DOMAIN p /\ r[i] = p[i]
      BY <1>1, <1>3, <2>0, <2>1
    <3> QED BY <2>1, <3>1 DEF GoodLines, Rising
  <2>2. CASE j > Len(p) /\ j - Len(p) \in DOMAIN q /\ r[j] = q[j - Len(p)]
    <3>1. CASE i \in DOMAIN p /\ r[i] = p[i]
      BY <2>2, <3>1 DEF Before
    <3>2. CASE i > Len(p) /\ i - Len(p) \in DOMAIN q /\ r[i] = q[i - Len(p)]
      <4>1. i - Len(p) < j - Len(p)
        BY <1>1, <2>0
      <4> QED BY <2>2, <3>2, <4>1 DEF GoodLines, Rising
    <3> QED BY <1>4, <3>1, <3>2
  <2> QED BY <1>4, <2>1, <2>2
<1>7. ASSUME NEW u, Before(p, u), Before(q, u) PROVE Before(r, u)
  BY <1>4, <1>7 DEF Before
<1> QED BY <1>2, <1>5, <1>6, <1>7 DEF GoodLines

LEMMA LineAdded ==
  ASSUME NEW c \in EchoClients, NEW m \in Nat, NEW q, GoodLines(q, c, m)
  PROVE  /\ GoodLines(Append(q, << c, m + 1 >>), c, m + 1)
         /\ GoodLines(q, c, m + 1)
         /\ \A p : GoodLines(p, c, m) /\ Before(p, q) => Before(p, Append(q, << c, m + 1 >>))
<1>1. /\ q \in EchoTexts /\ Len(q) \in Nat /\ DOMAIN q = 1 .. Len(q)
      /\ \A j \in DOMAIN q : q[j][1] = c /\ q[j][2] \in Nat /\ q[j][2] <= m
      /\ \A i, j \in DOMAIN q : i < j => q[i][2] < q[j][2]
  BY DEF GoodLines, OwnLines, Rising, AtMost, EchoTexts
<1>2. PICK e : e = << c, m + 1 >>
  OBVIOUS
<1>3. e \in EchoClients \X Nat /\ e[1] = c /\ e[2] = m + 1
  BY <1>2
<1>4. PICK r : r = Append(q, e)
  OBVIOUS
<1>5. /\ r \in EchoTexts /\ DOMAIN r = 1 .. Len(q) + 1
      /\ r[Len(q) + 1] = e /\ \A i \in 1 .. Len(q) : r[i] = q[i]
  <2>1. r \in EchoTexts /\ Len(r) = Len(q) + 1
    BY <1>1, <1>3, <1>4 DEF EchoTexts
  <2>2. r[Len(q) + 1] = e /\ \A i \in 1 .. Len(q) : r[i] = q[i]
    BY <1>1, <1>4
  <2> QED BY <2>1, <2>2 DEF EchoTexts
<1>6. \A i \in DOMAIN r : i \in Nat /\ ((i \in DOMAIN q /\ r[i] = q[i]) \/ (i = Len(q) + 1 /\ r[i] = e))
  BY <1>1, <1>5
<1>7. OwnLines(r, c) /\ AtMost(r, m + 1) /\ Rising(r)
  <2>1. OwnLines(r, c) /\ AtMost(r, m + 1)
    BY <1>1, <1>3, <1>5, <1>6 DEF OwnLines, AtMost
  <2>2. ASSUME NEW i \in DOMAIN r, NEW j \in DOMAIN r, i < j
        PROVE  r[i][2] < r[j][2]
    <3>1. i \in DOMAIN q /\ r[i] = q[i]
      BY <1>1, <1>5, <2>2
    <3> QED BY <1>1, <1>3, <1>6, <2>2, <3>1
  <2> QED BY <2>1, <2>2 DEF Rising
<1>8. AtMost(q, m + 1)
  BY <1>1 DEF AtMost
<1>9. ASSUME NEW p, GoodLines(p, c, m), Before(p, q) PROVE Before(p, r)
  <2>1. \A i \in DOMAIN p : p[i][2] \in Nat /\ p[i][2] <= m
    BY <1>9 DEF GoodLines, OwnLines, AtMost, EchoTexts
  <2> QED BY <1>3, <1>6, <1>9, <2>1 DEF Before
<1> QED BY <1>2, <1>4, <1>7, <1>8, <1>9 DEF GoodLines

LEMMA NoLines ==
  ASSUME NEW c \in EchoClients, NEW m \in Nat
  PROVE  /\ GoodLines(<< >>, c, m)
         /\ \A p : Before(p, << >>) /\ Before(<< >>, p)
BY DEF GoodLines, OwnLines, Rising, AtMost, EchoTexts, Before

-----------------------------------------------------------------------------
EchoSocks == Echo!Sockets
EchoFds   == Echo!Fds
IsOpen(s) == v3[s] # "none"
Asked == SUBSET {"R", "W"}
HotFd   == [fd : EchoFds, mask : Asked]

EchoTypes ==
    /\ v1 \in [EchoClients -> {"new", "syn", "up", "fin", "rst"}]
    /\ v2 \in [EchoClients -> EchoTexts] /\ v12 \in [EchoClients -> EchoTexts]
    /\ v11 \in [EchoClients -> Nat]
    /\ v3 \in [EchoSocks -> EchoClients \cup {"none"}]
    /\ v4 = v5 /\ v5 \in [EchoFds -> Asked]
    /\ v6 \in [EchoSocks -> Buffers \cup {0}] /\ v7 \in EchoFds
    /\ DOMAIN v8 \subseteq Buffers /\ v8 \in [DOMAIN v8 -> [of : EchoClients, lines : EchoTexts]]
    /\ v9 \in Seq(HotFd)
    /\ v10 \in {"poll", "read", "write"} /\ (v10 # "poll" => v9 # << >>)

\* Every registered descriptor is open and has an EchoBuf of its own, made for the
\* client behind it, and no EchoBuf is left over.
EchoTables ==
    /\ v5[3] = {"R"}
    /\ \A s \in EchoSocks : v5[s] # {} <=> IsOpen(s)
    /\ \A s \in EchoSocks : IsOpen(s) => "R" \in v5[s]
    /\ \A s \in EchoSocks : IsOpen(s) =>
           v1[v3[s]] \in {"up", "fin", "rst"} /\ v6[s] \in DOMAIN v8 /\ v8[v6[s]].of = v3[s]
    /\ \A s, t \in EchoSocks : IsOpen(s) /\ v3[s] = v3[t] => s = t
    /\ \A b \in DOMAIN v8 : \E s \in EchoSocks : IsOpen(s) /\ v6[s] = b
    /\ v5[v7] # {} /\ \A f \in EchoFds : v5[f] # {} => f <= v7

\* What a client was sent, what waits for its write event, and what the server has yet
\* to read of it, are lines of that client, each part after the one before.
Waiting(q, c) == GoodLines(q, c, v11[c]) /\ Before(v12[c], q) /\ Before(q, v2[c])
LinesOrdered ==
    /\ \A c \in EchoClients : /\ GoodLines(v2[c], c, v11[c]) /\ GoodLines(v12[c], c, v11[c])
                              /\ Before(v12[c], v2[c])
    /\ \A s \in EchoSocks : "W" \in v5[s] => Waiting(v8[v6[s]].lines, v3[s])

EchoInv == EchoTypes /\ EchoTables /\ LinesOrdered

LEMMA EchoConstants ==
  /\ IsFiniteSet(EchoClients) /\ Cardinality(EchoClients) \in Nat
  /\ "none" \notin EchoClients /\ Echo!None = "none" /\ Echo!NULL = 0
  /\ EchoSocks = 4 .. 3 + Cardinality(EchoClients) /\ EchoFds = {3} \cup EchoSocks /\ EchoSocks \subseteq Int
  /\ EchoFds \subseteq Int /\ 3 \notin EchoSocks /\ Echo!Listen = 3 /\ 3 \in EchoFds
  /\ IsFiniteSet(Buffers) /\ Buffers \subseteq Nat /\ 0 \notin Buffers
  /\ Cardinality(Buffers) \in Nat /\ Cardinality(Buffers) >= Cardinality(EchoClients)
<1>1. \A S : Echo!Cardinality(S) = Cardinality(S) /\ (Echo!IsFiniteSet(S) <=> IsFiniteSet(S))
  BY DEF Echo!Cardinality, Cardinality, Echo!IsFiniteSet, IsFiniteSet
<1>2. Echo!EchoAssumption
  BY PartsAssumption
<1>3. /\ IsFiniteSet(EchoClients) /\ "none" \notin EchoClients
      /\ IsFiniteSet(Buffers) /\ Buffers \subseteq Nat \ {0}
      /\ Cardinality(Buffers) >= Cardinality(EchoClients)
  BY <1>1, <1>2 DEF Echo!EchoAssumption
<1>4. Cardinality(EchoClients) \in Nat /\ Cardinality(Buffers) \in Nat
  BY <1>3, FS_CardinalityType
<1>5. Echo!None = "none" /\ Echo!NULL = 0 /\ Echo!Listen = 3
  BY DEF Echo!None, Echo!NULL, Echo!Listen
<1>6. EchoSocks = 4 .. 3 + Cardinality(EchoClients) /\ EchoFds = {3} \cup EchoSocks
  BY <1>1, <1>5 DEF EchoSocks, EchoFds, Echo!Sockets, Echo!Fds
<1> QED BY <1>3, <1>4, <1>5, <1>6

\* The least of what is free, where there is something.
LEMMA LeastOf ==
  ASSUME NEW S, S \subseteq Nat, S # {}
  PROVE  Echo!Min(S) \in S
<1>1. \E x \in S : \A y \in S : x <= y
  BY Smallest
<1> QED BY <1>1 DEF Echo!Min

LEMMA LargestIs ==
  ASSUME NEW S, S \subseteq Int, NEW x \in S, \A y \in S : y <= x
  PROVE  Echo!Max(S) = x
<1>1. \A y \in S : x >= y
  OBVIOUS
<1>2. \A z \in S : (\A y \in S : z >= y) => z = x
  OBVIOUS
<1> QED BY <1>1, <1>2 DEF Echo!Max

\* A client that is not connected yet leaves a descriptor and an EchoBuf free.
LEMMA FreeSlots ==
  ASSUME EchoTypes, EchoTables, NEW c \in EchoClients, v1[c] = "syn"
  PROVE  /\ Echo!FreeFd \in EchoSocks /\ ~IsOpen(Echo!FreeFd)
         /\ Echo!Min(Buffers \ DOMAIN v8) \in Buffers \ DOMAIN v8
<1> DEFINE O == {s \in EchoSocks : IsOpen(s)}
           Others == EchoClients \ {c}
           f == [s \in O |-> v3[s]]
           g == [s \in O |-> v6[s]]
           n == Cardinality(EchoClients)
<1>1. \A s \in O : v3[s] \in Others
  BY EchoConstants DEF EchoTypes, EchoTables, IsOpen
<1>2. f \in Injection(O, Others)
  BY <1>1 DEF EchoTables, Injection, IsInjective
<1>3. IsFiniteSet(Others) /\ Cardinality(Others) = n - 1
  BY EchoConstants, FS_RemoveElement
<1>4. IsFiniteSet(O) /\ Cardinality(O) <= n - 1 /\ Cardinality(O) \in Nat
  BY <1>2, <1>3, FS_Injection, FS_CardinalityType
<1>5. Cardinality(EchoSocks) = n
  <2>1. PICK top \in Int : top = 3 + n /\ n \in Nat
    BY EchoConstants
  <2>2. Cardinality(4 .. top) = IF 4 > top THEN 0 ELSE top - 4 + 1
    BY FS_Interval
  <2>3. n = IF 4 > top THEN 0 ELSE top - 4 + 1
    BY <2>1
  <2> QED BY <2>1, <2>2, <2>3, EchoConstants
<1>6. O # EchoSocks
  <2> HIDE DEF O, n
  <2> SUFFICES ASSUME O = EchoSocks PROVE FALSE
    OBVIOUS
  <2>1. n <= n - 1 /\ n \in Nat
    BY <1>4, <1>5
  <2> QED BY <2>1
<1>7. g \in Surjection(O, DOMAIN v8)
  BY DEF EchoTables, Surjection
<1>8. /\ Cardinality(DOMAIN v8) <= Cardinality(O) /\ IsFiniteSet(DOMAIN v8)
      /\ Cardinality(DOMAIN v8) \in Nat
  BY <1>4, <1>7, FS_Surjection, FS_CardinalityType
<1>9. DOMAIN v8 # Buffers
  <2> HIDE DEF O
  <2> QED BY <1>4, <1>8, EchoConstants
<1>10. Echo!Min({s \in EchoSocks : v3[s] = "none"}) \in {s \in EchoSocks : v3[s] = "none"}
  <2>1. {s \in EchoSocks : v3[s] = "none"} # {}
    BY <1>6 DEF IsOpen
  <2>2. {s \in EchoSocks : v3[s] = "none"} \subseteq Nat
    BY EchoConstants
  <2> QED BY <2>1, <2>2, LeastOf
<1>11. Buffers \ DOMAIN v8 # {} /\ Buffers \ DOMAIN v8 \subseteq Nat
  BY <1>9, EchoConstants DEF EchoTypes
<1>12. Echo!FreeFd = Echo!Min({s \in EchoSocks : v3[s] = "none"})
  BY EchoConstants DEF Echo!FreeFd, EchoSocks
<1> QED BY <1>10, <1>11, <1>12, LeastOf DEF IsOpen

\* The buffers are as many as the open descriptors.
LEMMA SameNumber ==
  ASSUME EchoTypes, EchoTables
  PROVE  Cardinality(DOMAIN v8) = Cardinality({s \in EchoSocks : v3[s] # "none"})
<1> DEFINE O == {s \in EchoSocks : v3[s] # "none"}
           g == [s \in O |-> v6[s]]
<1>1. g \in Surjection(O, DOMAIN v8)
  BY DEF EchoTables, Surjection, IsOpen
<1>2. g \in Injection(O, DOMAIN v8)
  <2>1. \A s, t \in O : g[s] = g[t] => s = t
    BY DEF EchoTables, IsOpen
  <2> QED BY <1>1, <2>1 DEF Injection, Surjection, IsInjective
<1>3. IsFiniteSet(O)
  <2>1. 4 \in Int /\ 3 + Cardinality(EchoClients) \in Int
    BY EchoConstants
  <2>2. IsFiniteSet(4 .. 3 + Cardinality(EchoClients))
    BY <2>1, FS_Interval
  <2>3. IsFiniteSet(EchoSocks) /\ O \in SUBSET EchoSocks
    BY <2>2, EchoConstants
  <2> QED BY <2>3, FS_Subset
<1> QED BY <1>1, <1>2, <1>3, FS_Surjection

-----------------------------------------------------------------------------
LEMMA EchoStart == Echo!Init => EchoInv
<1> SUFFICES ASSUME Echo!Init PROVE EchoInv
  OBVIOUS
<1>1. /\ v1 = [c \in EchoClients |-> "new"] /\ v2 = [c \in EchoClients |-> << >>]
      /\ v3 = [s \in EchoSocks |-> "none"]
      /\ v4 = [f \in EchoFds |-> IF f = 3 THEN {"R"} ELSE {}]
      /\ v5 = v4 /\ v6 = [s \in EchoSocks |-> 0] /\ v7 = 3
      /\ v8 = << >> /\ v9 = << >> /\ v10 = "poll"
      /\ v11 = [c \in EchoClients |-> 0] /\ v12 = [c \in EchoClients |-> << >>]
  BY EchoConstants DEF Echo!Init, EchoSocks, EchoFds
<1>2. << >> \in EchoTexts /\ DOMAIN v8 = {} /\ v8 \in [DOMAIN v8 -> [of : EchoClients, lines : EchoTexts]]
  BY <1>1 DEF EchoTexts
<1>3. EchoTypes
  BY <1>1, <1>2, EchoConstants DEF EchoTypes, Asked
<1>4. EchoTables
  <2>1. v5[3] = {"R"} /\ \A s \in EchoSocks : v5[s] = {} /\ v3[s] = "none"
    BY <1>1, EchoConstants
  <2>2. \A f \in EchoFds : f # 3 => v5[f] = {}
    BY <1>1
  <2>3. v5[v7] # {} /\ \A f \in EchoFds : v5[f] # {} => f <= v7
    <3>1. v7 = 3 /\ v5[3] # {}
      BY <1>1, <2>1
    <3> QED BY <2>2, <3>1
  <2> QED BY <1>2, <2>1, <2>3 DEF EchoTables, IsOpen
<1>5. LinesOrdered
  BY <1>1, NoLines, EchoConstants DEF LinesOrdered
<1> QED BY <1>3, <1>4, <1>5 DEF EchoInv

\* The part of aeProcessEvents that goes on to the next look.
LEMMA Advances ==
  ASSUME EchoTypes, v10 # "poll", Echo!Advance
  PROVE  /\ v9' \in Seq(HotFd)
         /\ v10' \in {"poll", "read", "write"} /\ (v10' # "poll" => v9' # << >>)
<1>1. v9 \in Seq(HotFd) /\ v9 # << >> /\ v10 \in {"poll", "read", "write"}
  BY DEF EchoTypes
<1>2. CASE v10 = "read" /\ v10' = "write" /\ v9' = v9
  BY <1>1, <1>2
<1>3. CASE v9' = Tail(v9) /\ v10' = IF Len(v9) = 1 THEN "poll" ELSE "read"
  <2>1. Tail(v9) \in Seq(HotFd) /\ (Len(v9) # 1 => Tail(v9) # << >>)
    <3>1. /\ Tail(v9) \in Seq(HotFd) /\ Len(Tail(v9)) = Len(v9) - 1
          /\ Len(v9) \in Nat
      BY <1>1, HeadTailProperties
    <3>2. Len(<< >>) = 0
      BY EmptySeq
    <3>3. PICK t : t = Tail(v9)
      OBVIOUS
    <3>4. Len(t) = Len(v9) - 1 /\ t \in Seq(HotFd)
      BY <3>1, <3>3
    <3>5. t = << >> => Len(v9) = 1
      <4>1. t = << >> => Len(t) = 0
        BY <3>2
      <4>2. PICK n \in Nat : n = Len(v9)
        BY <3>1
      <4> QED BY <3>4, <4>1, <4>2
    <3> QED BY <3>1, <3>3, <3>5
  <2> QED BY <1>3, <2>1
<1> QED BY <1>2, <1>3 DEF Echo!Advance

\* The first fired descriptor, and a handler that is called for it.
LEMMA EchoCalled ==
  ASSUME EchoTypes, EchoTables, v10 # "poll", NEW k \in {"R", "W"}, Echo!Calls(k)
  PROVE  /\ Echo!fd0 \in EchoFds /\ k \in v5[Echo!fd0]
         /\ Echo!fd0 = 3 => k = "R"
         /\ Echo!fd0 # 3 => Echo!fd0 \in EchoSocks /\ IsOpen(Echo!fd0)
<1>1. v9[1] \in HotFd
  <2>1. v9 \in Seq(HotFd) /\ v9 # << >>
    BY DEF EchoTypes
  <2>2. Len(v9) # 0 /\ Len(v9) \in Nat
    BY <2>1, EmptySeq
  <2> QED BY <2>1, <2>2
<1>2. Echo!fd0 \in EchoFds /\ k \in v5[Echo!fd0]
  BY <1>1 DEF Echo!Calls, Echo!fd0, HotFd
<1> QED BY <1>2, EchoConstants DEF EchoTables

\* What an open descriptor stands for.
LEMMA OpenSocket ==
  ASSUME EchoTypes, EchoTables, NEW s \in EchoSocks, IsOpen(s)
  PROVE  /\ v3[s] \in EchoClients /\ v6[s] \in DOMAIN v8 /\ v8[v6[s]] \in [of : EchoClients, lines : EchoTexts]
         /\ v8[v6[s]].of = v3[s] /\ s \in EchoFds /\ s # 3
         /\ \A t \in EchoSocks : IsOpen(t) /\ t # s => v6[t] # v6[s] /\ v3[t] # v3[s]
BY EchoConstants DEF EchoTypes, EchoTables, IsOpen

\* Nothing is read, sent or written, and what waits, waited before.
LEMMA LinesStay ==
  ASSUME EchoTypes, EchoTables, LinesOrdered, UNCHANGED << v2, v11, v12 >>,
         \A s \in EchoSocks : "W" \in v5'[s] =>
             "W" \in v5[s] /\ v8'[v6'[s]] = v8[v6[s]] /\ v3'[s] = v3[s]
  PROVE  LinesOrdered'
BY DEF LinesOrdered, Waiting

\* A connection is closed.
LEMMA DropStep ==
  ASSUME EchoTypes, EchoTables, NEW s \in EchoSocks, IsOpen(s), Echo!Drop(s)
  PROVE  /\ v1' \in [EchoClients -> {"new", "syn", "up", "fin", "rst"}]
         /\ v3' \in [EchoSocks -> EchoClients \cup {"none"}]
         /\ v4' = v5' /\ v5' \in [EchoFds -> Asked] /\ v6' = v6 /\ v7' \in EchoFds
         /\ DOMAIN v8' \subseteq Buffers /\ v8' \in [DOMAIN v8' -> [of : EchoClients, lines : EchoTexts]]
         /\ EchoTables'
         /\ \A t \in EchoSocks : t # s => v5'[t] = v5[t] /\ v3'[t] = v3[t]
                                       /\ (IsOpen(t) => v8'[v6[t]] = v8[v6[t]])
         /\ v5'[s] = {}
<1> DEFINE c == v3[s]
           D == DOMAIN v8 \ {v6[s]}
<1>0. /\ c \in EchoClients /\ v6[s] \in DOMAIN v8 /\ s \in EchoFds /\ s # 3
      /\ \A t \in EchoSocks : IsOpen(t) /\ t # s => v6[t] # v6[s] /\ v3[t] # c
  BY OpenSocket
<1>1. /\ v1' = [v1 EXCEPT ![c] = "rst"] /\ v3' = [v3 EXCEPT ![s] = "none"]
      /\ v4' = [v4 EXCEPT ![s] = {}] /\ v5' = [v5 EXCEPT ![s] = {}] /\ v6' = v6
      /\ v7' = Echo!MaxfdAfter(s) /\ v8' = [b \in D |-> v8[b]]
  BY EchoConstants DEF Echo!Drop
<1>2. /\ v1' \in [EchoClients -> {"new", "syn", "up", "fin", "rst"}]
      /\ v1'[c] = "rst" /\ \A d \in EchoClients : d # c => v1'[d] = v1[d]
  BY <1>0, <1>1 DEF EchoTypes
<1>3. /\ v3' \in [EchoSocks -> EchoClients \cup {"none"}]
      /\ v3'[s] = "none" /\ \A t \in EchoSocks : t # s => v3'[t] = v3[t]
  BY <1>0, <1>1 DEF EchoTypes
<1>4. /\ v4' = v5' /\ v5' \in [EchoFds -> Asked] /\ v5'[s] = {} /\ \A f \in EchoFds : f # s => v5'[f] = v5[f]
  BY <1>0, <1>1 DEF EchoTypes, Asked
<1>5. /\ DOMAIN v8' = D /\ D \subseteq Buffers /\ \A b \in D : v8'[b] = v8[b]
      /\ v8' \in [D -> [of : EchoClients, lines : EchoTexts]]
  BY <1>1 DEF EchoTypes
<1>6. v7' \in EchoFds /\ v5'[v7'] # {} /\ \A f \in EchoFds : v5'[f] # {} => f <= v7'
  <2>0. v7 \in EchoFds /\ v5[v7] # {} /\ (\A f \in EchoFds : v5[f] # {} => f <= v7) /\ v5[3] # {}
    BY DEF EchoTypes, EchoTables
  <2>1. CASE s # v7
    <3>1. v7' = v7
      BY <1>1, <2>1 DEF Echo!MaxfdAfter
    <3> QED BY <1>4, <2>0, <2>1, <3>1
  <2>2. CASE s = v7
    <3> DEFINE S == {f \in EchoFds \ {s} : v5[f] # {}}
    <3>1. v7' = Echo!Max(S)
      BY <1>1, <2>2 DEF Echo!MaxfdAfter, EchoFds
    <3>2. S \subseteq Int /\ 3 \in S /\ \A f \in S : f \in 3 .. v7
      BY <1>0, <2>0, EchoConstants
    <3>3. PICK x \in S : \A y \in S : y <= x
      <4>1. {v7 - f : f \in S} \subseteq Nat /\ {v7 - f : f \in S} # {}
        BY <2>0, <3>2, EchoConstants
      <4>2. PICK d \in {v7 - f : f \in S} : \A e \in {v7 - f : f \in S} : d <= e
        BY <4>1, Smallest
      <4>3. PICK x \in S : d = v7 - x
        BY <4>2
      <4>4. \A y \in S : v7 - x <= v7 - y
        BY <4>2, <4>3
      <4>5. v7 \in Int
        BY <2>0, EchoConstants
      <4> QED BY <3>2, <4>3, <4>4, <4>5
    <3>4. v7' = x
      BY <3>1, <3>2, <3>3, LargestIs
    <3> QED BY <1>4, <3>3, <3>4
  <2> QED BY <2>1, <2>2
<1>7. EchoTables'
  <2>1. v5'[3] = {"R"}
    BY <1>0, <1>4, EchoConstants DEF EchoTables
  <2>2. \A t \in EchoSocks : v5'[t] # {} <=> v3'[t] # "none"
    <3>1. \A t \in EchoSocks : t \in EchoFds /\ (v5[t] # {} <=> v3[t] # "none")
      BY EchoConstants DEF EchoTables, IsOpen
    <3> QED BY <1>3, <1>4, <3>1
  <2>3. ASSUME NEW t \in EchoSocks, v3'[t] # "none"
        PROVE  v1'[v3'[t]] \in {"up", "fin", "rst"} /\ v6'[t] \in DOMAIN v8' /\ v8'[v6'[t]].of = v3'[t]
    <3>1. t # s /\ v3'[t] = v3[t] /\ IsOpen(t)
      BY <1>3, <2>3 DEF IsOpen
    <3>2. /\ v1[v3[t]] \in {"up", "fin", "rst"} /\ v6[t] \in DOMAIN v8 /\ v8[v6[t]].of = v3[t]
          /\ v3[t] \in EchoClients
      BY <3>1, EchoConstants DEF EchoTables, EchoTypes, IsOpen
    <3>3. v6[t] \in D
      BY <1>0, <3>1, <3>2
    <3> QED BY <1>0, <1>1, <1>2, <1>5, <3>1, <3>2, <3>3
  <2>4. \A t, u \in EchoSocks : v3'[t] # "none" /\ v3'[t] = v3'[u] => t = u
    BY <1>3 DEF EchoTables, IsOpen
  <2>5. \A b \in DOMAIN v8' : \E t \in EchoSocks : v3'[t] # "none" /\ v6'[t] = b
    BY <1>1, <1>3, <1>5 DEF EchoTables, IsOpen
  <2>6. \A t \in EchoSocks : v3'[t] # "none" => "R" \in v5'[t]
    <3>1. \A t \in EchoSocks : t \in EchoFds
      BY EchoConstants
    <3> QED BY <1>3, <1>4, <3>1 DEF EchoTables, IsOpen
  <2> QED BY <1>6, <2>1, <2>2, <2>3, <2>4, <2>5, <2>6 DEF EchoTables, IsOpen
<1>8. ASSUME NEW t \in EchoSocks, t # s
      PROVE  v5'[t] = v5[t] /\ v3'[t] = v3[t] /\ (IsOpen(t) => v8'[v6[t]] = v8[v6[t]])
  BY <1>0, <1>3, <1>4, <1>5, <1>8, EchoConstants DEF EchoTables, IsOpen
<1> QED BY <1>1, <1>2, <1>3, <1>4, <1>5, <1>6, <1>7, <1>8

-----------------------------------------------------------------------------
LEMMA ConnectStep ==
  ASSUME EchoInv, NEW c \in EchoClients, Echo!Connect(c)
  PROVE  EchoInv'
<1>1. /\ v1[c] = "new" /\ v1' = [v1 EXCEPT ![c] = "syn"]
      /\ UNCHANGED << v2, v3, v4, v5, v6, v7, v8, v9, v10, v11, v12 >>
  BY DEF Echo!Connect, Echo!server, Echo!table
<1>2. /\ v1' \in [EchoClients -> {"new", "syn", "up", "fin", "rst"}]
      /\ \A d \in EchoClients : d # c => v1'[d] = v1[d]
  BY <1>1 DEF EchoInv, EchoTypes
<1>3. \A s \in EchoSocks : IsOpen(s) => v3[s] \in EchoClients /\ v3[s] # c
  <2>1. v1[c] \notin {"up", "fin", "rst"}
    BY <1>1
  <2>2. \A s \in EchoSocks : IsOpen(s) => v1[v3[s]] \in {"up", "fin", "rst"} /\ v3[s] \in EchoClients
    BY DEF EchoInv, EchoTypes, EchoTables, IsOpen
  <2> QED BY <2>1, <2>2
<1>4. EchoTypes'
  BY <1>1, <1>2 DEF EchoInv, EchoTypes
<1>5. EchoTables'
  BY <1>1, <1>2, <1>3 DEF EchoInv, EchoTables, IsOpen
<1>6. LinesOrdered'
  BY <1>1, LinesStay DEF EchoInv
<1> QED BY <1>4, <1>5, <1>6 DEF EchoInv

LEMMA LeaveStep ==
  ASSUME EchoInv, NEW c \in EchoClients, NEW how \in {"fin", "rst"}, Echo!Leave(c, how)
  PROVE  EchoInv'
<1>1. /\ v1' = [v1 EXCEPT ![c] = how]
      /\ UNCHANGED << v2, v3, v4, v5, v6, v7, v8, v9, v10, v11, v12 >>
  BY DEF Echo!Leave, Echo!server, Echo!table
<1>2. /\ v1' \in [EchoClients -> {"new", "syn", "up", "fin", "rst"}]
      /\ v1'[c] = how /\ \A d \in EchoClients : d # c => v1'[d] = v1[d]
  BY <1>1 DEF EchoInv, EchoTypes
<1>3. \A s \in EchoSocks : IsOpen(s) => v3[s] \in EchoClients
  BY EchoConstants DEF EchoInv, EchoTypes, IsOpen
<1>4. EchoTypes'
  BY <1>1, <1>2 DEF EchoInv, EchoTypes
<1>5. EchoTables'
  BY <1>1, <1>2, <1>3 DEF EchoInv, EchoTables, IsOpen
<1>6. LinesOrdered'
  BY <1>1, LinesStay DEF EchoInv
<1> QED BY <1>4, <1>5, <1>6 DEF EchoInv

LEMMA WriteLineStep ==
  ASSUME EchoInv, NEW c \in EchoClients, Echo!WriteLine(c)
  PROVE  EchoInv'
<1>1. /\ v11' = [v11 EXCEPT ![c] = @ + 1]
      /\ v2' = [v2 EXCEPT ![c] = Append(@, << c, v11[c] + 1 >>)]
      /\ UNCHANGED << v1, v3, v4, v5, v6, v7, v8, v9, v10, v12 >>
  BY DEF Echo!WriteLine, Echo!server, Echo!table
<1>2. PICK m \in Nat : m = v11[c]
  BY DEF EchoInv, EchoTypes
<1>3. /\ GoodLines(v2[c], c, m) /\ GoodLines(v12[c], c, m) /\ Before(v12[c], v2[c])
  BY <1>2 DEF EchoInv, LinesOrdered
<1>4. PICK q : q = Append(v2[c], << c, m + 1 >>)
  OBVIOUS
<1>5. /\ GoodLines(q, c, m + 1) /\ q \in EchoTexts
      /\ \A p : GoodLines(p, c, m) => GoodLines(p, c, m + 1)
      /\ \A p : GoodLines(p, c, m) /\ Before(p, v2[c]) => Before(p, q)
  BY <1>3, <1>4, LineAdded DEF GoodLines, OwnLines
<1>6. /\ v2' \in [EchoClients -> EchoTexts] /\ v11' \in [EchoClients -> Nat]
      /\ v2'[c] = q /\ v11'[c] = m + 1
      /\ \A d \in EchoClients : d # c => v2'[d] = v2[d] /\ v11'[d] = v11[d]
  BY <1>1, <1>2, <1>4, <1>5 DEF EchoInv, EchoTypes
<1>7. EchoTypes'
  BY <1>1, <1>6 DEF EchoInv, EchoTypes
<1>8. EchoTables'
  BY <1>1 DEF EchoInv, EchoTables, IsOpen
<1>9. ASSUME NEW d \in EchoClients
      PROVE  /\ GoodLines(v2'[d], d, v11'[d]) /\ GoodLines(v12[d], d, v11'[d]) /\ Before(v12[d], v2'[d])
             /\ \A p : Waiting(p, d) => /\ GoodLines(p, d, v11'[d])
                                        /\ Before(v12[d], p) /\ Before(p, v2'[d])
  <2>1. CASE d = c
    BY <1>2, <1>3, <1>5, <1>6, <2>1 DEF Waiting
  <2>2. CASE d # c
    BY <1>6, <2>2 DEF EchoInv, LinesOrdered, Waiting
  <2> QED BY <2>1, <2>2
<1>10. \A s \in EchoSocks : "W" \in v5[s] => v3[s] \in EchoClients
  BY EchoConstants DEF EchoInv, EchoTypes, EchoTables, IsOpen
<1>11. LinesOrdered'
  <2>1. v12' = v12 /\ v5' = v5 /\ v3' = v3 /\ v6' = v6 /\ v8' = v8
    BY <1>1
  <2>2. ASSUME NEW s \in EchoSocks, "W" \in v5[s]
        PROVE  /\ GoodLines(v8[v6[s]].lines, v3[s], v11'[v3[s]])
               /\ Before(v12[v3[s]], v8[v6[s]].lines) /\ Before(v8[v6[s]].lines, v2'[v3[s]])
    <3>1. Waiting(v8[v6[s]].lines, v3[s]) /\ v3[s] \in EchoClients
      BY <1>10, <2>2 DEF EchoInv, LinesOrdered
    <3> QED BY <1>9, <3>1
  <2> QED BY <1>9, <2>1, <2>2 DEF LinesOrdered, Waiting
<1> QED BY <1>7, <1>8, <1>11 DEF EchoInv

LEMMA PollStep ==
  ASSUME EchoInv, Echo!AeApiPoll
  PROVE  EchoInv'
<1>1. PICK hot : /\ hot = {f \in EchoFds : Echo!ReadyOf(f) # {}} /\ hot # {}
  BY DEF Echo!AeApiPoll, EchoFds
<1>2. PICK order \in Echo!SetToSeqs(hot) :
          v9' = [i \in 1 .. Len(order) |-> [fd |-> order[i], mask |-> Echo!ReadyOf(order[i])]]
  BY <1>1 DEF Echo!AeApiPoll, EchoFds
<1>3. /\ v10' = "read" /\ UNCHANGED << v1, v2, v3, v4, v5, v6, v7, v8, v11, v12 >>
  BY DEF Echo!AeApiPoll, Echo!net, Echo!table
<1>4. /\ order \in [1 .. Cardinality(hot) -> hot] /\ Cardinality(hot) \in Nat \ {0}
  <2>1. hot \subseteq EchoFds /\ IsFiniteSet(EchoFds)
    <3>1. 4 \in Int /\ 3 + Cardinality(EchoClients) \in Int
      BY EchoConstants
    <3>2. IsFiniteSet(4 .. 3 + Cardinality(EchoClients))
      BY <3>1, FS_Interval
    <3>3. IsFiniteSet(EchoSocks) /\ EchoFds = EchoSocks \cup {3}
      BY <3>2, EchoConstants
    <3> QED BY <1>1, <3>3, FS_AddElement
  <2>2. IsFiniteSet(hot)
    BY <2>1, FS_Subset
  <2>3. Cardinality(hot) \in Nat /\ Cardinality(hot) # 0
    BY <1>1, <2>2, FS_CardinalityType, FS_EmptySet
  <2>4. Echo!Cardinality(hot) = Cardinality(hot)
    BY DEF Echo!Cardinality, Cardinality
  <2> QED BY <1>2, <2>3, <2>4 DEF Echo!SetToSeqs
<1>5. Len(order) \in Nat \ {0} /\ \A i \in 1 .. Len(order) : order[i] \in EchoFds
  <2>1. PICK n \in Nat \ {0} : n = Cardinality(hot)
    BY <1>4
  <2>2. order \in [1 .. n -> hot]
    BY <1>4, <2>1
  <2>3. order \in Seq(hot) /\ Len(order) = n
    BY <2>2
  <2> QED BY <1>1, <2>1, <2>2, <2>3
<1>6. \A f \in EchoFds : Echo!ReadyOf(f) \in Asked
  BY DEF Echo!ReadyOf, EchoInv, EchoTypes, Asked
<1>7. v9' \in Seq(HotFd) /\ v9' # << >>
  <2>1. \A i \in 1 .. Len(order) : [fd |-> order[i], mask |-> Echo!ReadyOf(order[i])] \in HotFd
    BY <1>5, <1>6 DEF HotFd
  <2>2. v9' \in [1 .. Len(order) -> HotFd]
    BY <1>2, <2>1
  <2>3. v9' \in Seq(HotFd) /\ DOMAIN v9' = 1 .. Len(order)
    BY <1>5, <2>2
  <2> QED BY <1>5, <2>3
<1>8. EchoTypes'
  BY <1>3, <1>7 DEF EchoInv, EchoTypes
<1>9. EchoTables'
  BY <1>3 DEF EchoInv, EchoTables, IsOpen
<1>10. LinesOrdered'
  BY <1>3, LinesStay DEF EchoInv
<1> QED BY <1>8, <1>9, <1>10 DEF EchoInv

\* A look that calls no handler, and the end by SIGPIPE.
LEMMA QuietStep ==
  ASSUME EchoInv, Echo!NoHandler \/ Echo!SigPipe
  PROVE  EchoInv'
<1>1. UNCHANGED << v1, v2, v3, v4, v5, v6, v7, v8, v11, v12 >>
  BY DEF Echo!NoHandler, Echo!SigPipe, Echo!net, Echo!table
<1>2. /\ v9' \in Seq(HotFd)
      /\ v10' \in {"poll", "read", "write"} /\ (v10' # "poll" => v9' # << >>)
  BY Advances DEF Echo!NoHandler, Echo!SigPipe, EchoInv, EchoTypes
<1>3. EchoTypes'
  BY <1>1, <1>2 DEF EchoInv, EchoTypes
<1>4. EchoTables'
  BY <1>1 DEF EchoInv, EchoTables, IsOpen
<1>5. LinesOrdered'
  BY <1>1, LinesStay DEF EchoInv
<1> QED BY <1>3, <1>4, <1>5 DEF EchoInv

LEMMA AcceptStep ==
  ASSUME EchoInv, NEW c \in EchoClients, Echo!Accept(c)
  PROVE  EchoInv'
<1> DEFINE s == Echo!FreeFd
           b == Echo!Min(Buffers \ DOMAIN v8)
<1>0. EchoTypes /\ EchoTables /\ LinesOrdered
  BY DEF EchoInv
<1>1. /\ v1[c] = "syn" /\ v10 # "poll" /\ Echo!Advance /\ UNCHANGED << v2, v11, v12 >>
  BY DEF Echo!Accept
<1>2. /\ v9' \in Seq(HotFd)
      /\ v10' \in {"poll", "read", "write"} /\ (v10' # "poll" => v9' # << >>)
  BY <1>0, <1>1, Advances
<1>3. /\ s \in EchoSocks /\ ~IsOpen(s) /\ b \in Buffers /\ b \notin DOMAIN v8 /\ v5[s] = {}
      /\ s \in EchoFds /\ s # 3
  BY <1>0, <1>1, FreeSlots, EchoConstants DEF EchoTables
<1>4. \A t \in EchoSocks : IsOpen(t) => v3[t] \in EchoClients /\ v3[t] # c
  <2>1. v1[c] \notin {"up", "fin", "rst"}
    BY <1>1
  <2>2. \A t \in EchoSocks : IsOpen(t) => v1[v3[t]] \in {"up", "fin", "rst"} /\ v3[t] \in EchoClients
    BY <1>0 DEF EchoTypes, EchoTables, IsOpen
  <2> QED BY <2>1, <2>2
<1>5. CASE s >= SetSize
  <2>1. v1' = [v1 EXCEPT ![c] = "rst"] /\ UNCHANGED << v3, v4, v5, v6, v7, v8 >>
    BY <1>5 DEF Echo!Accept, Echo!table
  <2>2. /\ v1' \in [EchoClients -> {"new", "syn", "up", "fin", "rst"}]
        /\ \A d \in EchoClients : d # c => v1'[d] = v1[d]
    BY <1>0, <2>1 DEF EchoTypes
  <2>3. EchoTypes'
    BY <1>0, <1>1, <1>2, <2>1, <2>2 DEF EchoTypes
  <2>4. EchoTables'
    BY <1>0, <1>4, <2>1, <2>2 DEF EchoTables, IsOpen
  <2>5. LinesOrdered'
    BY <1>0, <1>1, <2>1, LinesStay
  <2> QED BY <2>3, <2>4, <2>5 DEF EchoInv
<1>6. CASE ~(s >= SetSize)
  <2>1. /\ v1' = [v1 EXCEPT ![c] = "up"] /\ v3' = [v3 EXCEPT ![s] = c]
        /\ v4' = [v4 EXCEPT ![s] = {"R"}] /\ v5' = [v5 EXCEPT ![s] = @ \cup {"R"}]
        /\ v6' = [v6 EXCEPT ![s] = b] /\ v7' = IF s > v7 THEN s ELSE v7
        /\ v8' = Echo!With(v8, b, [of |-> c, lines |-> << >>])
    BY <1>6 DEF Echo!Accept, Echo!DataOf
  <2>2. /\ v1' \in [EchoClients -> {"new", "syn", "up", "fin", "rst"}]
        /\ v1'[c] = "up" /\ \A d \in EchoClients : d # c => v1'[d] = v1[d]
    BY <1>0, <2>1 DEF EchoTypes
  <2>3. /\ v3' \in [EchoSocks -> EchoClients \cup {"none"}]
        /\ v3'[s] = c /\ \A t \in EchoSocks : t # s => v3'[t] = v3[t]
    BY <1>0, <1>3, <2>1 DEF EchoTypes
  <2>4. /\ v4' = v5' /\ v5' \in [EchoFds -> Asked] /\ v5'[s] = {"R"}
        /\ \A f \in EchoFds : f # s => v5'[f] = v5[f]
    BY <1>0, <1>3, <2>1 DEF EchoTypes, Asked
  <2>5. /\ v6' \in [EchoSocks -> Buffers \cup {0}] /\ v6'[s] = b
        /\ \A t \in EchoSocks : t # s => v6'[t] = v6[t]
    BY <1>0, <1>3, <2>1 DEF EchoTypes
  <2>6. [of |-> c, lines |-> << >>] \in [of : EchoClients, lines : EchoTexts]
    BY DEF EchoTexts
  <2>7. /\ DOMAIN v8' = DOMAIN v8 \cup {b} /\ v8'[b] = [of |-> c, lines |-> << >>]
        /\ \A a \in DOMAIN v8 : v8'[a] = v8[a]
    BY <1>3, <2>1 DEF Echo!With
  <2>8. DOMAIN v8' \subseteq Buffers /\ v8' \in [DOMAIN v8' -> [of : EchoClients, lines : EchoTexts]]
    <3>1. v8' = [a \in DOMAIN v8' |-> v8'[a]]
      BY <2>1, <2>7 DEF Echo!With
    <3>2. \A a \in DOMAIN v8' : v8'[a] \in [of : EchoClients, lines : EchoTexts]
      BY <1>0, <2>6, <2>7 DEF EchoTypes
    <3>3. DOMAIN v8' \subseteq Buffers
      BY <1>0, <1>3, <2>7 DEF EchoTypes
    <3> QED BY <3>1, <3>2, <3>3
  <2>9. v7' \in EchoFds /\ v5'[v7'] # {} /\ \A f \in EchoFds : v5'[f] # {} => f <= v7'
    <3>1. v7 \in EchoFds /\ v5[v7] # {} /\ (\A f \in EchoFds : v5[f] # {} => f <= v7)
      BY <1>0 DEF EchoTypes, EchoTables
    <3>2. EchoFds \subseteq Int
      BY EchoConstants
    <3> QED BY <1>3, <2>1, <2>4, <3>1, <3>2
  <2>10. EchoTypes'
    BY <1>0, <1>1, <1>2, <2>2, <2>3, <2>4, <2>5, <2>8, <2>9 DEF EchoTypes
  <2>11. \A t \in EchoSocks : IsOpen(t) => /\ t # s /\ v6[t] \in DOMAIN v8 /\ v6[t] # b
                                           /\ v3'[t] = v3[t] /\ v6'[t] = v6[t] /\ v8'[v6[t]] = v8[v6[t]]
                                           /\ v1'[v3[t]] = v1[v3[t]]
    BY <1>0, <1>3, <1>4, <2>2, <2>3, <2>5, <2>7 DEF EchoTables
  <2>12. EchoTables'
    <3>1. v5'[3] = {"R"}
      BY <1>0, <1>3, <2>4, EchoConstants DEF EchoTables
    <3>2. c # "none" /\ \A t \in EchoSocks : t \in EchoFds
      BY EchoConstants
    <3>3. \A t \in EchoSocks : v5'[t] # {} <=> v3'[t] # "none"
      BY <1>0, <2>3, <2>4, <3>2 DEF EchoTables, IsOpen
    <3>4. ASSUME NEW t \in EchoSocks, v3'[t] # "none"
          PROVE  v1'[v3'[t]] \in {"up", "fin", "rst"} /\ v6'[t] \in DOMAIN v8' /\ v8'[v6'[t]].of = v3'[t]
      <4>1. CASE t = s
        BY <2>2, <2>3, <2>5, <2>7, <4>1
      <4>2. CASE t # s
        <5>1. IsOpen(t)
          BY <2>3, <3>4, <4>2 DEF IsOpen
        <5> QED BY <1>0, <2>7, <2>11, <5>1 DEF EchoTables
      <4> QED BY <4>1, <4>2
    <3>5. \A t, u \in EchoSocks : v3'[t] # "none" /\ v3'[t] = v3'[u] => t = u
      BY <1>0, <1>4, <2>3 DEF EchoTables, IsOpen
    <3>6. \A a \in DOMAIN v8' : \E t \in EchoSocks : v3'[t] # "none" /\ v6'[t] = a
      <4>1. \A a \in DOMAIN v8 : \E t \in EchoSocks : IsOpen(t) /\ v6[t] = a
        BY <1>0 DEF EchoTables
      <4>2. \A a \in DOMAIN v8 : \E t \in EchoSocks : v3'[t] # "none" /\ v6'[t] = a
        BY <2>11, <4>1 DEF IsOpen
      <4> QED BY <1>3, <2>3, <2>5, <2>7, <3>2, <4>2
    <3>7. \A t \in EchoSocks : v3'[t] # "none" => "R" \in v5'[t]
      BY <1>0, <2>3, <2>4, <3>2 DEF EchoTables, IsOpen
    <3> QED BY <2>9, <3>1, <3>3, <3>4, <3>5, <3>6, <3>7 DEF EchoTables, IsOpen
  <2>13. LinesOrdered'
    <3>1. \A t \in EchoSocks : t \in EchoFds /\ ("W" \in v5[t] => IsOpen(t))
      BY <1>0, EchoConstants DEF EchoTables
    <3>2. \A t \in EchoSocks : "W" \in v5'[t] => t # s /\ "W" \in v5[t] /\ IsOpen(t)
      BY <2>4, <3>1
    <3> QED BY <1>0, <1>1, <2>11, <3>2, LinesStay
  <2> QED BY <2>10, <2>12, <2>13 DEF EchoInv
<1> QED BY <1>5, <1>6

LEMMA ReadLinesStep ==
  ASSUME EchoInv, NEW n, Echo!ReadHandler(n)
  PROVE  EchoInv'
<1> DEFINE s == Echo!fd0
           c == v3[s]
<1>0. EchoTypes /\ EchoTables /\ LinesOrdered
  BY DEF EchoInv
<1>1. /\ s # 3 /\ v10 # "poll" /\ Echo!Calls("R") /\ Echo!Advance /\ UNCHANGED << v11, v12 >>
  BY EchoConstants DEF Echo!ReadHandler
<1>2. /\ v9' \in Seq(HotFd)
      /\ v10' \in {"poll", "read", "write"} /\ (v10' # "poll" => v9' # << >>)
  BY <1>0, <1>1, Advances
<1>3. s \in EchoSocks /\ IsOpen(s)
  BY <1>0, <1>1, EchoCalled
<1>4. CASE v2[c] = << >>
  <2>1. Echo!Drop(s) /\ v2' = v2
    BY <1>4 DEF Echo!ReadHandler
  <2>2. /\ v1' \in [EchoClients -> {"new", "syn", "up", "fin", "rst"}]
        /\ v3' \in [EchoSocks -> EchoClients \cup {"none"}]
        /\ v4' = v5' /\ v5' \in [EchoFds -> Asked] /\ v6' = v6 /\ v7' \in EchoFds
        /\ DOMAIN v8' \subseteq Buffers /\ v8' \in [DOMAIN v8' -> [of : EchoClients, lines : EchoTexts]]
        /\ EchoTables'
        /\ \A t \in EchoSocks : t # s => v5'[t] = v5[t] /\ v3'[t] = v3[t]
                                      /\ (IsOpen(t) => v8'[v6[t]] = v8[v6[t]])
        /\ v5'[s] = {}
    BY <1>0, <1>3, <2>1, DropStep
  <2>3. EchoTypes'
    BY <1>0, <1>1, <1>2, <2>1, <2>2 DEF EchoTypes
  <2>4. LinesOrdered'
    <3>1. \A t \in EchoSocks : "W" \in v5[t] => IsOpen(t)
      BY <1>0 DEF EchoTables
    <3>2. \A t \in EchoSocks : "W" \in v5'[t] => t # s
      BY <2>2
    <3> QED BY <1>0, <1>1, <2>1, <2>2, <3>1, <3>2, LinesStay
  <2> QED BY <2>2, <2>3, <2>4 DEF EchoInv
<1>5. CASE v2[c] # << >>
  <2>1. /\ n \in 1 .. Len(v2[c])
        /\ v2' = [v2 EXCEPT ![c] = SubSeq(@, n + 1, Len(@))]
        /\ v8' = [v8 EXCEPT ![v6[s]].lines = SubSeq(v2[c], 1, n)]
        /\ v5' = [v5 EXCEPT ![s] = @ \cup {"W"}] /\ v4' = [v4 EXCEPT ![s] = v5[s] \cup {"W"}]
        /\ UNCHANGED << v1, v3, v6, v7 >>
    BY <1>5 DEF Echo!ReadHandler
  <2>2. /\ c \in EchoClients /\ v6[s] \in DOMAIN v8 /\ v8[v6[s]] \in [of : EchoClients, lines : EchoTexts]
        /\ v8[v6[s]].of = c /\ s \in EchoFds /\ s # 3
        /\ \A t \in EchoSocks : IsOpen(t) /\ t # s => v6[t] # v6[s] /\ v3[t] # c
    BY <1>0, <1>3, OpenSocket
  <2>3. PICK m \in Nat : m = v11[c]
    BY <1>0, <2>2 DEF EchoTypes
  <2>4. GoodLines(v2[c], c, m) /\ GoodLines(v12[c], c, m) /\ Before(v12[c], v2[c])
    BY <1>0, <2>2, <2>3 DEF LinesOrdered
  <2>5. PICK p, q : p = SubSeq(v2[c], 1, n) /\ q = SubSeq(v2[c], n + 1, Len(v2[c]))
    OBVIOUS
  <2>6. /\ GoodLines(p, c, m) /\ GoodLines(q, c, m) /\ Before(p, q)
        /\ Before(v12[c], p) /\ Before(v12[c], q) /\ p \in EchoTexts /\ q \in EchoTexts
    <3>1. /\ GoodLines(p, c, m) /\ GoodLines(q, c, m) /\ Before(p, q)
          /\ \A r : Before(r, v2[c]) => Before(r, p) /\ Before(r, q)
      BY <2>1, <2>2, <2>4, <2>5, LinesCut
    <3>2. p \in EchoTexts /\ q \in EchoTexts
      BY <3>1 DEF GoodLines, OwnLines
    <3> QED BY <2>4, <3>1, <3>2
  <2>7. /\ v2' \in [EchoClients -> EchoTexts] /\ v2'[c] = q
        /\ \A d \in EchoClients : d # c => v2'[d] = v2[d]
    BY <1>0, <2>1, <2>2, <2>5, <2>6 DEF EchoTypes
  <2>8. /\ DOMAIN v8' = DOMAIN v8 /\ v8'[v6[s]] = [of |-> c, lines |-> p]
        /\ v8' \in [DOMAIN v8 -> [of : EchoClients, lines : EchoTexts]]
        /\ \A a \in DOMAIN v8 : a # v6[s] => v8'[a] = v8[a]
    <3>1. v8' = [v8 EXCEPT ![v6[s]] = [of |-> c, lines |-> p]]
      <4>1. [v8[v6[s]] EXCEPT !.lines = p] = [of |-> c, lines |-> p]
        BY <2>2
      <4> QED BY <2>1, <2>5, <4>1
    <3>2. [of |-> c, lines |-> p] \in [of : EchoClients, lines : EchoTexts]
      BY <2>2, <2>6
    <3> QED BY <1>0, <2>2, <3>1, <3>2 DEF EchoTypes
  <2>9. /\ v4' = v5' /\ v5' \in [EchoFds -> Asked] /\ v5'[s] # {}
        /\ \A f \in EchoFds : f # s => v5'[f] = v5[f]
    <3>1. v5 \in [EchoFds -> Asked] /\ v4 = v5
      BY <1>0 DEF EchoTypes
    <3>2. v5[s] \cup {"W"} \in Asked /\ v5[s] \cup {"W"} # {}
      BY <2>2, <3>1 DEF Asked
    <3>3. v5' = [v5 EXCEPT ![s] = v5[s] \cup {"W"}] /\ v4' = v5'
      BY <2>1, <3>1
    <3> QED BY <2>2, <3>1, <3>2, <3>3
  <2>10. EchoTypes'
    BY <1>0, <1>1, <1>2, <2>1, <2>7, <2>8, <2>9 DEF EchoTypes
  <2>11. EchoTables'
    <3>1. v5'[3] = {"R"}
      BY <1>0, <2>2, <2>9, EchoConstants DEF EchoTables
    <3>2. \A t \in EchoSocks : v5'[t] # {} <=> IsOpen(t)
      BY <1>0, <1>3, <2>9, EchoConstants DEF EchoTables
    <3>3. \A f \in EchoFds : v5'[f] # {} <=> v5[f] # {}
      BY <1>0, <1>3, <2>9 DEF EchoTables
    <3>4. v5'[v7] # {} /\ \A f \in EchoFds : v5'[f] # {} => f <= v7
      BY <1>0, <3>3 DEF EchoTables, EchoTypes
    <3>5. \A t \in EchoSocks : IsOpen(t) => v8'[v6[t]].of = v3[t]
      BY <1>0, <2>2, <2>8 DEF EchoTables
    <3>6. \A t \in EchoSocks : IsOpen(t) => "R" \in v5'[t]
      <4>1. "R" \in v5'[s]
        BY <1>0, <1>3, <2>1, <2>2 DEF EchoTypes, EchoTables
      <4> QED BY <1>0, <2>9, <4>1, EchoConstants DEF EchoTables
    <3>7. \A t \in EchoSocks : IsOpen(t) =>
              v1'[v3'[t]] \in {"up", "fin", "rst"} /\ v6'[t] \in DOMAIN v8' /\ v8'[v6'[t]].of = v3'[t]
      <4>1. \A t \in EchoSocks : IsOpen(t) => v1[v3[t]] \in {"up", "fin", "rst"} /\ v6[t] \in DOMAIN v8
        BY <1>0 DEF EchoTables
      <4> QED BY <2>1, <2>8, <3>5, <4>1
    <3>8. /\ \A t, u \in EchoSocks : IsOpen(t) /\ v3[t] = v3[u] => t = u
          /\ \A a \in DOMAIN v8' : \E t \in EchoSocks : IsOpen(t) /\ v6'[t] = a
      BY <1>0, <2>1, <2>8 DEF EchoTables
    <3>9. \A t \in EchoSocks : IsOpen(t)' <=> IsOpen(t)
      BY <2>1 DEF IsOpen
    <3>10. v3' = v3 /\ v7' = v7
      BY <2>1
    <3> HIDE DEF s, c
    <3> QED BY <3>1, <3>2, <3>4, <3>6, <3>7, <3>8, <3>9, <3>10 DEF EchoTables
  <2>12. LinesOrdered'
    <3>1. \A d \in EchoClients : /\ GoodLines(v2'[d], d, v11[d]) /\ GoodLines(v12[d], d, v11[d])
                                 /\ Before(v12[d], v2'[d])
      BY <1>0, <2>3, <2>4, <2>6, <2>7 DEF LinesOrdered
    <3>2. ASSUME NEW t \in EchoSocks, "W" \in v5'[t]
          PROVE  /\ GoodLines(v8'[v6[t]].lines, v3[t], v11[v3[t]])
                 /\ Before(v12[v3[t]], v8'[v6[t]].lines) /\ Before(v8'[v6[t]].lines, v2'[v3[t]])
      <4>1. CASE t = s
        BY <2>3, <2>6, <2>7, <2>8, <4>1
      <4>2. CASE t # s
        <5>1. t \in EchoFds
          BY EchoConstants
        <5>2. "W" \in v5[t]
          BY <2>9, <3>2, <4>2, <5>1
        <5>3. IsOpen(t) /\ Waiting(v8[v6[t]].lines, v3[t])
          BY <1>0, <5>2 DEF EchoTables, LinesOrdered
        <5>4. v6[t] # v6[s] /\ v3[t] # c /\ v3[t] \in EchoClients /\ v6[t] \in DOMAIN v8
          BY <1>0, <2>2, <4>2, <5>3, OpenSocket
        <5> QED BY <2>7, <2>8, <5>3, <5>4 DEF Waiting
      <4> QED BY <4>1, <4>2
    <3> QED BY <1>1, <2>1, <3>1, <3>2 DEF LinesOrdered, Waiting
  <2> QED BY <2>10, <2>11, <2>12 DEF EchoInv
<1> QED BY <1>4, <1>5

LEMMA EchoBackStep ==
  ASSUME EchoInv, NEW ok \in BOOLEAN, Echo!WriteHandler(ok)
  PROVE  EchoInv'
<1> DEFINE s == Echo!fd0
           c == v3[s]
<1>0. EchoTypes /\ EchoTables /\ LinesOrdered
  BY DEF EchoInv
<1>1. /\ v10 # "poll" /\ Echo!Calls("W") /\ Echo!Advance /\ UNCHANGED << v2, v11 >>
  BY DEF Echo!WriteHandler
<1>2. /\ v9' \in Seq(HotFd)
      /\ v10' \in {"poll", "read", "write"} /\ (v10' # "poll" => v9' # << >>)
  BY <1>0, <1>1, Advances
<1>3. s \in EchoSocks /\ IsOpen(s) /\ "W" \in v5[s]
  BY <1>0, <1>1, EchoCalled
<1>4. CASE ~ok
  <2>1. Echo!Drop(s) /\ v12' = v12
    BY <1>4 DEF Echo!WriteHandler
  <2>2. /\ v1' \in [EchoClients -> {"new", "syn", "up", "fin", "rst"}]
        /\ v3' \in [EchoSocks -> EchoClients \cup {"none"}]
        /\ v4' = v5' /\ v5' \in [EchoFds -> Asked] /\ v6' = v6 /\ v7' \in EchoFds
        /\ DOMAIN v8' \subseteq Buffers /\ v8' \in [DOMAIN v8' -> [of : EchoClients, lines : EchoTexts]]
        /\ EchoTables'
        /\ \A t \in EchoSocks : t # s => v5'[t] = v5[t] /\ v3'[t] = v3[t]
                                      /\ (IsOpen(t) => v8'[v6[t]] = v8[v6[t]])
        /\ v5'[s] = {}
    BY <1>0, <1>3, <2>1, DropStep
  <2>3. EchoTypes'
    BY <1>0, <1>1, <1>2, <2>1, <2>2 DEF EchoTypes
  <2>4. LinesOrdered'
    <3>1. \A t \in EchoSocks : "W" \in v5[t] => IsOpen(t)
      BY <1>0 DEF EchoTables
    <3>2. \A t \in EchoSocks : "W" \in v5'[t] => t # s
      BY <2>2
    <3> QED BY <1>0, <1>1, <2>1, <2>2, <3>1, <3>2, LinesStay
  <2> QED BY <2>2, <2>3, <2>4 DEF EchoInv
<1>5. CASE ok
  <2>1. /\ v12' = [v12 EXCEPT ![c] = @ \o v8[v6[s]].lines]
        /\ v5' = [v5 EXCEPT ![s] = v5[s] \ {"W"}] /\ v4' = [v4 EXCEPT ![s] = v5[s] \ {"W"}]
        /\ UNCHANGED << v1, v3, v6, v7, v8 >>
    BY <1>5 DEF Echo!WriteHandler, Echo!WithoutWrite
  <2>2. c \in EchoClients /\ s \in EchoFds /\ s # 3 /\ \A t \in EchoSocks : IsOpen(t) /\ t # s => v3[t] # c
    BY <1>0, <1>3, OpenSocket
  <2>3. PICK m \in Nat : m = v11[c]
    BY <1>0, <2>2 DEF EchoTypes
  <2>4. PICK p : p = v8[v6[s]].lines
    OBVIOUS
  <2>5. /\ GoodLines(v2[c], c, m) /\ GoodLines(v12[c], c, m) /\ GoodLines(p, c, m)
        /\ Before(v12[c], p) /\ Before(p, v2[c]) /\ Before(v12[c], v2[c])
    BY <1>0, <1>3, <2>2, <2>3, <2>4 DEF LinesOrdered, Waiting
  <2>6. PICK q : q = v12[c] \o p
    OBVIOUS
  <2>7. GoodLines(q, c, m) /\ Before(q, v2[c])
    <3>1. PICK r : r = v12[c]
      OBVIOUS
    <3>2. GoodLines(r, c, m) /\ Before(r, p) /\ q = r \o p
      BY <2>5, <2>6, <3>1
    <3>3. GoodLines(r \o p, c, m) /\ \A u : Before(r, u) /\ Before(p, u) => Before(r \o p, u)
      BY <2>2, <2>5, <3>2, LinesJoin
    <3> QED BY <2>5, <3>1, <3>2, <3>3
  <2>8. q \in EchoTexts
    BY <2>7 DEF GoodLines, OwnLines
  <2>9. /\ v12' \in [EchoClients -> EchoTexts] /\ v12'[c] = q
        /\ \A d \in EchoClients : d # c => v12'[d] = v12[d]
    BY <1>0, <2>1, <2>2, <2>4, <2>6, <2>8 DEF EchoTypes
  <2>10. /\ v4' = v5' /\ v5' \in [EchoFds -> Asked] /\ v5'[s] = v5[s] \ {"W"} /\ "R" \in v5'[s]
         /\ \A f \in EchoFds : f # s => v5'[f] = v5[f]
    <3>1. v5 \in [EchoFds -> Asked] /\ v4 = v5
      BY <1>0 DEF EchoTypes
    <3>2. v5[s] \ {"W"} \in Asked /\ "R" \in v5[s] \ {"W"}
      BY <1>0, <1>3, <2>2, <3>1 DEF Asked, EchoTables
    <3> QED BY <2>1, <2>2, <3>1, <3>2
  <2>11. EchoTypes'
    BY <1>0, <1>1, <1>2, <2>1, <2>9, <2>10 DEF EchoTypes
  <2>12. EchoTables'
    <3>1. v5'[3] = {"R"}
      BY <1>0, <2>2, <2>10, EchoConstants DEF EchoTables
    <3>2. \A f \in EchoFds : v5'[f] # {} <=> v5[f] # {}
      BY <1>0, <1>3, <2>10 DEF EchoTables
    <3>3. \A t \in EchoSocks : (v5'[t] # {} <=> IsOpen(t)) /\ (IsOpen(t) => "R" \in v5'[t])
      BY <1>0, <2>10, <3>2, EchoConstants DEF EchoTables
    <3>4. v5'[v7] # {} /\ \A f \in EchoFds : v5'[f] # {} => f <= v7
      BY <1>0, <3>2 DEF EchoTables, EchoTypes
    <3>5. v1' = v1 /\ v3' = v3 /\ v6' = v6 /\ v7' = v7 /\ v8' = v8
      BY <2>1
    <3>6. \A t \in EchoSocks : IsOpen(t)' <=> IsOpen(t)
      BY <3>5 DEF IsOpen
    <3> QED BY <1>0, <3>1, <3>3, <3>4, <3>5, <3>6 DEF EchoTables
  <2>13. LinesOrdered'
    <3>1. \A d \in EchoClients : /\ GoodLines(v2[d], d, v11[d]) /\ GoodLines(v12'[d], d, v11[d])
                                 /\ Before(v12'[d], v2[d])
      BY <1>0, <2>3, <2>5, <2>7, <2>9 DEF LinesOrdered
    <3>2. ASSUME NEW t \in EchoSocks, "W" \in v5'[t]
          PROVE  /\ GoodLines(v8[v6[t]].lines, v3[t], v11[v3[t]])
                 /\ Before(v12'[v3[t]], v8[v6[t]].lines) /\ Before(v8[v6[t]].lines, v2[v3[t]])
      <4>1. t # s /\ t \in EchoFds
        BY <2>10, <3>2, EchoConstants
      <4>2. "W" \in v5[t]
        BY <2>10, <3>2, <4>1
      <4>3. IsOpen(t) /\ Waiting(v8[v6[t]].lines, v3[t])
        BY <1>0, <4>2 DEF EchoTables, LinesOrdered
      <4>4. v3[t] # c /\ v3[t] \in EchoClients
        BY <1>0, <2>2, <4>1, <4>3, OpenSocket
      <4> QED BY <2>9, <4>3, <4>4 DEF Waiting
    <3> QED BY <1>1, <2>1, <3>1, <3>2 DEF LinesOrdered, Waiting
  <2> QED BY <2>11, <2>12, <2>13 DEF EchoInv
<1> QED BY <1>4, <1>5

LEMMA EchoStep == EchoInv /\ [Echo!Next]_(Echo!vars) => EchoInv'
<1> SUFFICES ASSUME EchoInv, [Echo!Next]_(Echo!vars) PROVE EchoInv'
  OBVIOUS
<1>1. CASE UNCHANGED Echo!vars
  <2>1. UNCHANGED << v1, v2, v3, v4, v5, v6, v7, v8, v9, v10, v11, v12 >>
    BY <1>1 DEF Echo!vars, Echo!net, Echo!table
  <2>2. EchoTypes'
    BY <2>1 DEF EchoInv, EchoTypes
  <2>3. EchoTables'
    BY <2>1 DEF EchoInv, EchoTables, IsOpen
  <2>4. LinesOrdered'
    BY <2>1, LinesStay DEF EchoInv
  <2> QED BY <2>2, <2>3, <2>4 DEF EchoInv
<1>2. CASE Echo!Next
  BY <1>2, ConnectStep, WriteLineStep, LeaveStep, PollStep, QuietStep, AcceptStep, ReadLinesStep,
     EchoBackStep DEF Echo!Next
<1> QED BY <1>1, <1>2

\* What the invariant says of the tables and of the lines is EchoSound.
LEMMA EchoSafe == EchoInv => Echo!EchoSound
<1> SUFFICES ASSUME EchoInv PROVE Echo!EchoSound
  OBVIOUS
<1>0. EchoTypes /\ EchoTables /\ LinesOrdered
  BY DEF EchoInv
<1>1. Echo!EventsAgree
  <2>1. v4 = v5
    BY <1>0 DEF EchoTypes
  <2>2. \A s \in EchoSocks : /\ v5[s] # {} <=> v3[s] # "none"
                             /\ v5[s] # {} => v6[s] \in DOMAIN v8 /\ v8[v6[s]].of = v3[s]
    BY <1>0 DEF EchoTables, IsOpen
  <2>3. Echo!Cardinality(DOMAIN v8) = Echo!Cardinality({s \in EchoSocks : v3[s] # "none"})
    <3>1. \A S : Echo!Cardinality(S) = Cardinality(S)
      BY DEF Echo!Cardinality, Cardinality
    <3> QED BY <1>0, <3>1, SameNumber
  <2>4. v7 = Echo!Max({f \in EchoFds : v5[f] # {}})
    <3> DEFINE S == {f \in EchoFds : v5[f] # {}}
    <3>1. S \subseteq Int /\ v7 \in S /\ \A f \in S : f <= v7
      BY <1>0, EchoConstants DEF EchoTypes, EchoTables
    <3> HIDE DEF S
    <3>2. Echo!Max(S) = v7
      BY <3>1, LargestIs
    <3> QED BY <3>2 DEF S
  <2>5. Echo!Sockets = EchoSocks /\ Echo!Fds = EchoFds /\ Echo!None = "none"
    BY EchoConstants DEF EchoSocks, EchoFds
  <2>6. v7 = Echo!Max({f \in Echo!Fds : v5[f] # {}})
    BY <2>4, <2>5
  <2>7. Echo!Cardinality(DOMAIN v8) = Echo!Cardinality({s \in Echo!Sockets : v3[s] # Echo!None})
    BY <2>3, <2>5
  <2>8. \A s \in Echo!Sockets : /\ v5[s] # {} <=> v3[s] # Echo!None
                                /\ v5[s] # {} => v6[s] \in DOMAIN v8 /\ v8[v6[s]].of = v3[s]
    BY <2>2, <2>5
  <2> QED BY <2>1, <2>6, <2>7, <2>8 DEF Echo!EventsAgree
<1>2. Echo!EchoOwn
  <2> SUFFICES ASSUME NEW c \in EchoClients, NEW j \in DOMAIN v12[c]
               PROVE  /\ v12[c][j][1] = c
                      /\ \A i \in 1 .. j - 1 : v12[c][i][2] < v12[c][j][2]
    BY DEF Echo!EchoOwn
  <2>1. OwnLines(v12[c], c) /\ Rising(v12[c])
    BY <1>0 DEF LinesOrdered, GoodLines
  <2>2. DOMAIN v12[c] = 1 .. Len(v12[c]) /\ Len(v12[c]) \in Nat
    BY <2>1 DEF OwnLines, EchoTexts
  <2>3. \A i \in 1 .. j - 1 : i \in DOMAIN v12[c] /\ i < j
    BY <2>2
  <2> QED BY <2>1, <2>3 DEF OwnLines, Rising
<1> QED BY <1>1, <1>2 DEF Echo!EchoSound

\* Whatever order epoll reports events in and whatever a handler closes meanwhile: the
\* loop's table, epoll and the heap agree, and a client is sent only lines of its own, in
\* the order it wrote them.
THEOREM EchoIsSound == Echo!Spec => []Echo!EchoSound
<1> QED BY EchoStart, EchoStep, EchoSafe, PTL DEF Echo!Spec
=============================================================================
