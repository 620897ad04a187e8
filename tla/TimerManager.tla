---------------------------- MODULE TimerManager ----------------------------
(***************************************************************************)
(* timerManager.hpp: a table from ids to Timer objects, a list of the      *)
(* objects, and CheckExpired, which sorts the list and fires its front.    *)
(*                                                                         *)
(* A Timer is known by its address, a number that new chooses among those  *)
(* not in use; no Timer is ever deleted. The list holds pointers, so sort  *)
(* goes by address. Seconds are small: second * 1000 * 1000 fits an int.   *)
(***************************************************************************)
EXTENDS Naturals, Sequences, Filter, Functions

CONSTANTS Ids, Delays,
          Addresses,  \* bound: where Timer objects may be
          MaxNow      \* bound: how far the clock runs

TimersAssumption == Delays \subseteq Nat /\ MaxNow \in Nat

VARIABLES timertb,    \* id -> address
          timerlist,  \* addresses
          timer,      \* address -> the Timer there
          now,
          checking,   \* CheckExpired is in its loop, and since when
          fired       \* history: addresses whose callback was called, in order

vars == << timertb, timerlist, timer, now, checking, fired >>
Idle == MaxNow + 1

TypeOK ==
    /\ DOMAIN timertb \subseteq Ids /\ Range(timertb) \subseteq DOMAIN timer
    /\ timerlist \in Seq(DOMAIN timer) /\ DOMAIN timer \subseteq Addresses
    /\ Range(timer) \subseteq [id : Ids, exptime : Nat]
    /\ now \in 0 .. MaxNow /\ checking \in 0 .. Idle
    /\ fired \in Seq(DOMAIN timer)

Init ==
    /\ timertb = << >> /\ timerlist = << >> /\ timer = << >>
    /\ now = 0 /\ checking = Idle /\ fired = << >>

\* std::map::erase, and std::map's operator[].
Without(id)   == [i \in DOMAIN timertb \ {id} |-> timertb[i]]
With(f, x, v) == [y \in DOMAIN f \cup {x} |-> IF y = x THEN v ELSE f[y]]

\* std::list::sort with the order of pointers, p being where each is found before.
SortedBy(p) == [i \in DOMAIN timerlist |-> timerlist[p[i]]]
ByAddress(s) == \A i, j \in DOMAIN s : i < j => s[i] <= s[j]

Tick ==
    /\ now < MaxNow /\ now' = now + 1
    /\ UNCHANGED << timertb, timerlist, timer, checking, fired >>

\* An id that runs already leaves the table, but its Timer stays in the list.
StartTimer(id, second, address) ==
    /\ checking = Idle /\ address \notin DOMAIN timer
    /\ timer' = With(timer, address, [id |-> id, exptime |-> now + second])
    /\ timertb' = With(timertb, id, address)
    /\ timerlist' = Append(timerlist, address)
    /\ UNCHANGED << now, checking, fired >>

StopTimer(id) ==
    /\ checking = Idle /\ id \in DOMAIN timertb
    /\ timerlist' = Keep(timerlist, DOMAIN timer \ {timertb[id]})
    /\ timertb' = Without(id)
    /\ UNCHANGED << timer, now, checking, fired >>

\* CheckExpired: the sort and the look at the clock,
CheckExpired ==
    /\ checking = Idle /\ timerlist # << >>
    /\ \E p \in Bijection(DOMAIN timerlist, DOMAIN timerlist) :
           ByAddress(SortedBy(p)) /\ timerlist' = SortedBy(p)
    /\ checking' = now
    /\ UNCHANGED << timertb, timer, now, fired >>

\* Mutant: a fired timer stays in the table.
Untouched(id) == timertb

\* What the table is after a timer with this id has fired.
AfterFire(id) == Without(id)

\* then its loop, up to the first timer that has not expired. The callback of
\* main.cc only prints.
Fire ==
    /\ checking # Idle /\ timerlist # << >>
    /\ checking >= timer[Head(timerlist)].exptime
    /\ fired' = Append(fired, Head(timerlist))
    /\ timertb' = AfterFire(timer[Head(timerlist)].id)
    /\ timerlist' = Tail(timerlist)
    /\ UNCHANGED << timer, now, checking >>

Return ==
    /\ checking # Idle
    /\ timerlist # << >> => checking < timer[Head(timerlist)].exptime
    /\ checking' = Idle
    /\ UNCHANGED << timertb, timerlist, timer, now, fired >>

Next ==
    \/ Tick \/ CheckExpired \/ Fire \/ Return
    \/ \E id \in Ids, second \in Delays, a \in Addresses : StartTimer(id, second, a)
    \/ \E id \in Ids : StopTimer(id)

Spec == Init /\ [][Next]_vars

-----------------------------------------------------------------------------
(* Properties.                                                              *)

\* The table never names a Timer that is not waiting in the list, though timers are
\* restarted, stopped and fired in any order: StopTimer finds what it removes, and
\* no Timer fires twice or after it was removed from both.
TableIsListed ==
    /\ \A id \in DOMAIN timertb :
           timertb[id] \in Range(timerlist) /\ timer[timertb[id]].id = id
    /\ IsInjective(timerlist \o fired)
=============================================================================
