----------------------------- MODULE LRUCache ------------------------------
(***************************************************************************)
(* The LRUCache of cache.h: a hash map from keys to nodes and a list of    *)
(* the nodes from new to old. Nodes are pointers; Get and Set put a new    *)
(* node in the place of an old one.                                        *)
(***************************************************************************)
EXTENDS Filter, Integers, SequencesExt, Functions, FiniteSetsExt

CONSTANTS Keys, Values,
          Capacity,     \* max_capacity_
          MaxUsed       \* bound: how far used_ may drift

CacheAssumption == Capacity \in Nat \ {0} /\ MaxUsed \in Nat

VARIABLES
    heap,         \* the nodes: pointer -> key and value
    values,       \* values_: key -> pointer
    logiclists,   \* logiclists_: pointers, the newest first
    used,         \* used_
    last,         \* history: what each key was last set to
    recent        \* history: the keys that were used, the most recent first

vars == << heap, values, logiclists, used, last, recent >>

Nodes == 1 .. Capacity + 2

TypeOK ==
    /\ heap \in [Nodes -> [key : Keys, value : Values] \cup {<< >>}]
    /\ DOMAIN values \subseteq Keys /\ Range(values) \subseteq Nodes
    /\ logiclists \in Seq(Nodes)
    /\ used \in 0 .. MaxUsed
    /\ DOMAIN last \subseteq Keys /\ Range(last) \subseteq Values
    /\ recent \in Seq(Keys)

Init ==
    /\ heap = [n \in Nodes |-> << >>]
    /\ values = << >>
    /\ logiclists = << >>
    /\ used = 0
    /\ last = << >>
    /\ recent = << >>

\* A pointer nothing refers to: nodes that are dropped are not deleted, and
\* nobody can tell.
NewNode == Min(Nodes \ (Range(values) \cup Range(logiclists)))

\* std::list::remove.
Without(list, n) == Keep(list, Nodes \ {n})

\* std::unordered_map::operator[].
With(f, d, e) == [x \in DOMAIN f \cup {d} |-> IF x = d THEN e ELSE f[x]]

\* The key moves to the front of the history.
Use(k) == recent' = << k >> \o Keep(recent, Keys \ {k})

-----------------------------------------------------------------------------

\* The list after a hit, with the node left where it was, and moved in front.
HitInPlace(old, new) == [i \in DOMAIN logiclists |->
                            IF logiclists[i] = old THEN new ELSE logiclists[i]]

HitInFront(old, new) == << new >> \o Without(logiclists, old)

\* Get of a key that is cached: a copy of its node goes in front. Any other Get
\* changes nothing.
Get(k) ==
    /\ k \in DOMAIN values
    /\ LET new == NewNode IN
          /\ heap' = [heap EXCEPT ![new] = [key |-> k, value |-> heap[values[k]].value]]
          /\ logiclists' = HitInFront(values[k], new)
          /\ values' = [values EXCEPT ![k] = new]
    /\ Use(k)
    /\ UNCHANGED << used, last >>

\* The nodes once the value of one is overwritten, and with that forgotten.
Unwritten(n, v) == heap

Overwritten(n, v) == [heap EXCEPT ![n].value = v]

\* Set of the newest key: the value of its node is overwritten.
SetFront(k, v) ==
    /\ k \in DOMAIN values /\ Head(logiclists) = values[k]
    /\ heap' = Overwritten(values[k], v)
    /\ last' = [last EXCEPT ![k] = v]
    /\ Use(k)
    /\ UNCHANGED << values, logiclists, used >>

\* What Evict(values_.size() - max_capacity_) drops from the end of the list,
\* one more than it is asked for; with the check one too late; and with the
\* wrong end of the list.
EvictedLate(list, size) ==
    IF size > Capacity THEN SubSeq(list, Len(list) - (size - Capacity), Len(list))
                       ELSE << >>

EvictedNewest(list, size) ==
    IF size >= Capacity THEN SubSeq(list, 1, size - Capacity + 1) ELSE << >>

Evicted(list, size) ==
    IF size >= Capacity THEN SubSeq(list, Len(list) - (size - Capacity), Len(list))
                        ELSE << >>

\* used_ after a Set that evicted n nodes, and with Set counting them as well.
UsedTwice(n) == used - n - n + 1

UsedAfter(n) == used - n + 1

\* Set of any other key. A node the key had leaves the list, but its key stays
\* in values_ and counts when room is looked for; used_ counts it again.
Set(k, v) ==
    /\ ~(k \in DOMAIN values /\ Head(logiclists) = values[k])
    /\ LET list == IF k \in DOMAIN values THEN Without(logiclists, values[k])
                                          ELSE logiclists
           out  == Evicted(list, Cardinality(DOMAIN values))
           rest == Keep(list, Nodes \ Range(out))
           new  == NewNode
           kept == Restrict(values, DOMAIN values \ {heap[n].key : n \in Range(out)})
       IN  /\ UsedAfter(Len(out)) <= MaxUsed
           /\ heap' = [heap EXCEPT ![new] = [key |-> k, value |-> v]]
           /\ logiclists' = << new >> \o rest
           /\ values' = With(kept, k, new)
           /\ used' = UsedAfter(Len(out))
    /\ last' = With(last, k, v)
    /\ Use(k)

Next == \E k \in Keys : Get(k) \/ \E v \in Values : SetFront(k, v) \/ Set(k, v)

Spec == Init /\ [][Next]_vars

-----------------------------------------------------------------------------
(* Properties.                                                              *)

\* The map and the list hold the same nodes, each once and under its own key,
\* and no more of them than the cache may hold.
MapIsList ==
    /\ Range(values) = Range(logiclists) /\ IsInjective(logiclists)
    /\ \A k \in DOMAIN values : heap[values[k]].key = k
    /\ Len(logiclists) <= Capacity

\* A hit returns what the key was last set to (Get copies the node).
HitIsLatest == \A k \in DOMAIN values : heap[values[k]].value = last[k]

\* What is cached is what was used most recently, in that order: no key is
\* evicted before one that was used longer ago.
MostRecent ==
    IsPrefix([i \in DOMAIN logiclists |-> heap[logiclists[i]].key], recent)

\* The three together: whatever is set, got and evicted, the cache is the most recent
\* part of the history, with the values of the history.
CacheIsHistory == MapIsList /\ HitIsLatest /\ MostRecent
=============================================================================
