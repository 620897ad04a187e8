------------------------------ MODULE Threads ------------------------------
(***************************************************************************)
(* Three exercises on threads: the lunch partners and call_once of         *)
(* mutex_lock.cc, and parallel_accumulate of base.cc. All threads of an    *)
(* exercise are started together; a behaviour is one exercise.              *)
(*                                                                         *)
(* std::lock, std::call_once and the mutexes are external.                 *)
(***************************************************************************)
EXTENDS Naturals, Sequences, SequencesExt, FiniteSets

CONSTANTS
    Pairs,     \* the calls of assign_lunch_partner: << e1, e2 >>, one per thread
    Throws,    \* the calls of do_once: do_throw, one per thread
    Numbers,   \* the array
    Workers,   \* num_threads
    Length     \* how long the array is

VARIABLES
    exercise,  \* "lunch", "once" or "sum"
    at,        \* lunch thread -> where it is
    owner,     \* employee, or "io" -> the thread that holds its mutex, 0 for none
    partners,  \* employee -> lunch_partners_
    flag,      \* flag2: "never", "running" or "once"
    caller,    \* call_once thread -> "calls", "runs", "throws" or "returned"
    ran,       \* history: how often the function came to its end
    results    \* the sums of the blocks, those that are done

lunch == << at, owner, partners >>
once  == << flag, caller, ran >>
vars  == << exercise, lunch, once, results >>

Eaters    == DOMAIN Pairs
Callers   == DOMAIN Throws
Employees == {Pairs[t][k] : t \in Eaters, k \in {1, 2}}

TypeOK ==
    /\ at \in [Eaters -> {"say", "waiting", "lock", "first", "second", "got", "saying",
                          "push 1", "push 2", "unlock", "mail"}]
    /\ owner \in [Employees \cup {"io"} -> Eaters \cup {0}]
    /\ partners \in [Employees -> Seq(Employees)]
    /\ flag \in {"never", "running", "once"}
    /\ caller \in [Callers -> {"calls", "runs", "throws", "returned"}] /\ ran \in Nat
    /\ DOMAIN results \subseteq 1 .. Workers

Init ==
    /\ exercise \in {"lunch", "once", "sum"}
    /\ at = [t \in Eaters |-> "say"] /\ owner = [m \in Employees \cup {"io"} |-> 0]
    /\ partners = [e \in Employees |-> << >>]
    /\ flag = "never" /\ caller = [t \in Callers |-> "calls"] /\ ran = 0
    /\ results = << >>

-----------------------------------------------------------------------------
(* assign_lunch_partner.                                                    *)

Goes(t, from, to) == at[t] = from /\ at' = [at EXCEPT ![t] = to]
Takes(t, m) == owner[m] = 0 /\ owner' = [owner EXCEPT ![m] = t]
Drops(t, ms) == owner' = [m \in DOMAIN owner |-> IF m \in ms THEN 0 ELSE owner[m]]

\* Both lines of output are written under io_mutex.
Say(t) ==
    /\ \/ Goes(t, "say", "waiting") /\ Takes(t, "io")
       \/ Goes(t, "waiting", "lock") /\ Drops(t, {"io"})
       \/ Goes(t, "got", "saying") /\ Takes(t, "io")
       \/ Goes(t, "saying", "push 1") /\ Drops(t, {"io"})
    /\ UNCHANGED << partners, once, results >>

\* Mutant: the second mutex is not waited for.
TakesFirstOnly(t, m) == UNCHANGED owner

TakesOther(t, m) == Takes(t, m)

\* std::lock: one of the two, then the other if it is free; else none, and again.
Lock(t) ==
    LET e1 == Pairs[t][1]
        e2 == Pairs[t][2]
    IN  /\ \/ Goes(t, "lock", "first") /\ Takes(t, e1)
           \/ Goes(t, "lock", "second") /\ Takes(t, e2)
           \/ Goes(t, "first", "got") /\ TakesOther(t, e2)
           \/ Goes(t, "second", "got") /\ TakesOther(t, e1)
           \/ owner[e2] # 0 /\ Goes(t, "first", "lock") /\ Drops(t, {e1})
           \/ owner[e1] # 0 /\ Goes(t, "second", "lock") /\ Drops(t, {e2})
        /\ UNCHANGED << partners, once, results >>

Push(t) ==
    LET Add(e, p) == partners' = [partners EXCEPT ![e] = Append(@, p)]
    IN  /\ \/ Goes(t, "push 1", "push 2") /\ Add(Pairs[t][1], Pairs[t][2])
           \/ Goes(t, "push 2", "unlock") /\ Add(Pairs[t][2], Pairs[t][1])
        /\ UNCHANGED << owner, once, results >>

Unlock(t) ==
    /\ Goes(t, "unlock", "mail") /\ Drops(t, {Pairs[t][1], Pairs[t][2]})
    /\ UNCHANGED << partners, once, results >>

-----------------------------------------------------------------------------
(* do_once.                                                                 *)

\* Mutant: a call that threw counts.
CountsAsOnce == "once"

AfterThrow == "never"

CallOnce(t) ==
    /\ caller[t] = "calls"
    /\ \/ flag = "never" /\ flag' = "running" /\ caller' = [caller EXCEPT ![t] = "runs"]
       \/ flag = "once" /\ caller' = [caller EXCEPT ![t] = "returned"] /\ UNCHANGED flag
    /\ UNCHANGED << ran, lunch, results >>

MayThrow(t) ==
    /\ caller[t] = "runs"
    /\ IF Throws[t]
       THEN flag' = AfterThrow /\ caller' = [caller EXCEPT ![t] = "throws"] /\ UNCHANGED ran
       ELSE flag' = "once" /\ caller' = [caller EXCEPT ![t] = "returned"] /\ ran' = ran + 1
    /\ UNCHANGED << lunch, results >>

-----------------------------------------------------------------------------
(* parallel_accumulate.                                                     *)

Total(s) == FoldSeq(+, 0, s)

\* The block of a thread; the main thread takes the last one, to the end.
Block(i) ==
    LET size == Length \div Workers
    IN  SubSeq(Numbers, (i - 1) * size + 1, IF i = Workers THEN Length ELSE i * size)

Accumulate(i) ==
    /\ i \notin DOMAIN results
    /\ results' = [j \in DOMAIN results \cup {i} |->
                      IF j = i THEN Total(Block(i)) ELSE results[j]]
    /\ UNCHANGED << lunch, once >>

Next ==
    /\ UNCHANGED exercise
    /\ \/ exercise = "lunch" /\ \E t \in Eaters : Say(t) \/ Lock(t) \/ Push(t) \/ Unlock(t)
       \/ exercise = "once" /\ \E t \in Callers : CallOnce(t) \/ MayThrow(t)
       \/ exercise = "sum" /\ \E i \in 1 .. Workers : Accumulate(i)

Spec == Init /\ [][Next]_vars

-----------------------------------------------------------------------------
(* Properties.                                                              *)

\* Outside the lock two employees always are each other's partners equally often.
Times(p, e) == Cardinality({i \in DOMAIN partners[e] : partners[e][i] = p})
PartnersMatch ==
    \A e, p \in Employees :
        owner[e] = 0 /\ owner[p] = 0 => Times(p, e) = Times(e, p)

\* No thread sees the call done before it was, it is done once, and when all threads
\* are through the one that does not throw has done it.
OnceIsOnce ==
    /\ ran <= 1
    /\ \A t \in Callers : caller[t] = "returned" => ran = 1

\* The blocks are the array: together the threads add up what a loop would.
SumIsWhole ==
    DOMAIN results = 1 .. Workers =>
        Total([i \in 1 .. Workers |-> results[i]]) = Total(Numbers)

\* However the threads of an exercise are scheduled, its outcome is that of one after
\* the other.
ThreadsAgree == PartnersMatch /\ OnceIsOnce /\ SumIsWhole
=============================================================================
