----------------------------- MODULE LFUCache ------------------------------
(***************************************************************************)
(* The LFUCache of cache.h: a map from keys to nodes, a map from keys to   *)
(* how often they were used, and for every frequency a list of its nodes,  *)
(* the oldest first. at() of a key that is not in a map throws.            *)
(***************************************************************************)
EXTENDS Integers, Sequences, FiniteSets, FiniteSetsExt, Functions, Filter

CONSTANTS Keys,
          Capacity,     \* max_capacity_
          MaxCount,     \* bound: how often a key may be used
          MaxNodes      \* bound: how many nodes may be referred to at once

CacheAssumption ==
    /\ Capacity \in Nat \ {0} /\ MaxCount \in Nat \ {0}
    /\ MaxNodes \in Nat /\ MaxNodes > Capacity

VARIABLES
    key,           \* the nodes: pointer -> key (values are overwritten in place)
    values,        \* values_: key -> pointer
    counts,        \* counts_: key -> frequency
    frequencies,   \* frequencies_: frequency -> pointers, the oldest first
    used,          \* used_
    threw,         \* has at() thrown std::out_of_range?
    overwrote      \* history: has a cached key ever been set?

vars == << key, values, counts, frequencies, used, threw, overwrote >>

Nodes == 1 .. MaxNodes

TypeOK ==
    /\ key \in [Nodes -> Keys]
    /\ DOMAIN values \subseteq Keys /\ Range(values) \subseteq Nodes
    /\ DOMAIN counts = DOMAIN values /\ Range(counts) \subseteq 1 .. MaxCount
    /\ DOMAIN frequencies \subseteq 1 .. MaxCount
    /\ \A f \in DOMAIN frequencies : frequencies[f] \in Seq(Nodes) \ {<< >>}
    /\ used \in 0 .. MaxNodes
    /\ threw \in BOOLEAN /\ overwrote \in BOOLEAN

Init ==
    /\ key \in {[n \in Nodes |-> k] : k \in {CHOOSE k \in Keys : TRUE}}
    /\ values = << >>
    /\ counts = << >>
    /\ frequencies = << >>
    /\ used = 0
    /\ threw = FALSE
    /\ overwrote = FALSE

Listed(fs) == UNION {Range(fs[f]) : f \in DOMAIN fs}

\* The pointers nothing refers to.
Unused == Nodes \ (Range(values) \cup Listed(frequencies))

\* operator[] of the maps.
With(f, x, v) == [y \in DOMAIN f \cup {x} |-> IF y = x THEN v ELSE f[y]]

\* list::remove, on the list of frequency f, and removeIfListEmpty with it.
RemovedOnly(fs, f, n) == [fs EXCEPT ![f] = Keep(@, Nodes \ {n})]

Removed(fs, f, n) ==
    LET list == Keep(fs[f], Nodes \ {n})
    IN  IF list = << >> THEN Restrict(fs, DOMAIN fs \ {f}) ELSE [fs EXCEPT ![f] = list]

\* push_back, on a list that is made if there is none.
Pushed(fs, f, n) == With(fs, f, Append(IF f \in DOMAIN fs THEN fs[f] ELSE << >>, n))

\* The frequency whose nodes are evicted first, and the other end of the map.
HighestCount(fs) == Max(DOMAIN fs)

LowestCount(fs) == Min(DOMAIN fs)

\* One turn of the loop of Evict, on the maps and used_ together: the oldest of
\* the nodes of the lowest frequency goes.
EvictOne(s) ==
    LET f == LowestCount(s.fs)
        n == Head(s.fs[f])
    IN  [fs |-> Removed(s.fs, f, n),
         vs |-> Restrict(s.vs, DOMAIN s.vs \ {key[n]}),
         cs |-> Restrict(s.cs, DOMAIN s.cs \ {key[n]}),
         used |-> s.used - 1]

\* Evict(count): count + 1 turns.
Evict(s, count) ==
    LET after[i \in 0 .. count] == EvictOne(IF i = 0 THEN s ELSE after[i - 1])
    IN  after[count]

-----------------------------------------------------------------------------

\* The frequency that a hit gives a key, and with the update forgotten.
SameCount(k) == counts[k]

NextCount(k) == counts[k] + 1

\* Get of a cached key. Any other Get changes nothing.
Get(k) ==
    /\ ~threw /\ k \in DOMAIN values
    /\ counts[k] < MaxCount
    /\ IF counts[k] \in DOMAIN frequencies
       THEN /\ frequencies' = Pushed(Removed(frequencies, counts[k], values[k]),
                                     counts[k] + 1, values[k])
            /\ counts' = [counts EXCEPT ![k] = NextCount(k)]
            /\ UNCHANGED threw
       ELSE threw' = TRUE /\ UNCHANGED << frequencies, counts >>
    /\ UNCHANGED << key, values, used, overwrote >>

\* Set of a cached key: its node keeps its place in the list of the frequency
\* the key had.
SetCached(k) ==
    /\ ~threw /\ k \in DOMAIN values
    /\ counts[k] < MaxCount
    /\ counts' = [counts EXCEPT ![k] = @ + 1]
    /\ overwrote' = TRUE
    /\ UNCHANGED << key, values, frequencies, used, threw >>

\* Set of a key that is not cached.
SetNew(k) ==
    /\ ~threw /\ k \notin DOMAIN values
    /\ Unused # {}
    /\ LET s == [fs |-> frequencies, vs |-> values, cs |-> counts, used |-> used]
           r == IF Cardinality(DOMAIN values) >= Capacity
                THEN Evict(s, Cardinality(DOMAIN values) - Capacity) ELSE s
           n == Min(Unused)
       IN  /\ key' = [key EXCEPT ![n] = k]
           /\ values' = With(r.vs, k, n)
           /\ counts' = With(r.cs, k, 1)
           /\ frequencies' = Pushed(r.fs, 1, n)
           /\ used' = r.used + 1
    /\ UNCHANGED << threw, overwrote >>

Next == \E k \in Keys : Get(k) \/ SetCached(k) \/ SetNew(k)

Spec == Init /\ [][Next]_vars

-----------------------------------------------------------------------------
(* Properties.                                                              *)

\* As long as no cached key has been set again: every cached key is in the list
\* of its frequency, once, and in no other, and no list holds anything else
\* (cache.h, the comments on the three maps).
TablesAgree ==
    ~overwrote =>
        /\ \A f \in DOMAIN frequencies :
              /\ IsInjective(frequencies[f])
              /\ \A i \in DOMAIN frequencies[f] :
                    LET k == key[frequencies[f][i]] IN
                    k \in DOMAIN values /\ values[k] = frequencies[f][i] /\ counts[k] = f
        /\ \A k \in DOMAIN values :
              counts[k] \in DOMAIN frequencies /\ values[k] \in Range(frequencies[counts[k]])
        /\ used = Cardinality(DOMAIN values) /\ used <= Capacity

\* And a key that leaves was among the least used of those that were cached.
LeastLeaves ==
    ~overwrote => \A k \in DOMAIN values \ DOMAIN values', j \in DOMAIN values :
                      counts[k] <= counts[j]
LeastUsedLeaves == [][LeastLeaves]_vars

\* cache.h: a Set of a key that exists updates its value and its frequency. A
\* Get of it then finds it.
NeverThrows == ~threw

=============================================================================
